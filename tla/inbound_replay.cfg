SPECIFICATION FairSpec
CONSTANTS
    Msgs <- ReplayMsgs
    Topics = {"a", "b"}
    TopicOf <- ReplayTopics
    Qos <- ReplayQos
    ManualAck = {"b"}
    Responses = {}
    Cap = 1
    BufferSize = 2
    MaxSessions = 1
    MaxDups = 0
    MaxCancels = 0
    Resumes = {TRUE}
INVARIANTS ReplayBookkeeping NoMissedDrain
PROPERTIES HeldIsResolved
CHECK_DEADLOCK FALSE
