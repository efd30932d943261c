SPECIFICATION FairSpec
CONSTANTS
    p1 = p1
    p2 = p2
    PingLoop = PingLoop
    Pingers = {p1, p2}
    MaxPings = 1
    Slow = FALSE
    Backpressure = TRUE
    Losses = {"closed", "reset", "silent"}
INVARIANTS EveryWaiterIsOwed OwnPong TeardownFailsPings
PROPERTIES SilentIsDetected PingsEnd
CHECK_DEADLOCK FALSE
