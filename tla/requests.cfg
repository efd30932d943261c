SPECIFICATION FairSpec
CONSTANTS
    None = None
    Requests = {1, 2, 3}
    TopicOf <- SharedTopic
    CorrelationOf <- Correlations
    AppTopics = {"t"}
    MaxPending = 2
    MaxConns = 2
    MaxCancels = 1
INVARIANTS CapacityConserved InterestCounts WaitersAreHeard NoOrphanObserver ClaimedIsOwed
PROPERTIES RequestsEnd
CHECK_DEADLOCK FALSE
