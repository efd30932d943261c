SPECIFICATION FairSpec
CONSTANTS
    s1 = s1
    None = None
    Subs = {s1}
    Configs = {TRUE, FALSE}
    MaxAttempts = 2
    MaxLosses = 2
    LinkErrors = {"disconnected", "timeout", "oserror", "protocolError"}
    DialErrors = {"refused", "disconnected", "timeout", "oserror", "protocolError"}
    Rejections = TRUE
INVARIANTS NoTransportLeak InfoIsCurrent ActiveAreSubscribed 
PROPERTIES LossIsRepaired ConsumersLearnOfFailure
CHECK_DEADLOCK FALSE
