SPECIFICATION Spec
CONSTANTS
    Msgs = {1}
    Topics = {"a"}
    TopicOf <- PubrelTopics
    Qos <- PubrelQos
    ManualAck = {}
    Responses = {}
    Cap = 1
    BufferSize = 0
    MaxSessions = 2
    MaxDups = 0
    MaxCancels = 0
    Resumes = {TRUE}
INVARIANT NoUnknownPubrel
CHECK_DEADLOCK FALSE
