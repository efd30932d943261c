SPECIFICATION Spec
CONSTANTS
    Msgs <- ResumeMsgs
    Topics = {"a"}
    TopicOf <- ResumeTopics
    Qos <- ResumeQos
    ManualAck = {}
    Responses = {2}
    Cap = 1
    BufferSize = 0
    MaxSessions = 3
    MaxDups = 1
    MaxCancels = 1
    Resumes = {TRUE, FALSE}
INVARIANTS AckedIsDelivered Qos2AtMostOnce
CHECK_DEADLOCK FALSE
