SPECIFICATION Spec
CONSTANTS
    None = None
    Levels <- MCLevels
    DollarLevels = {"$share", "$queue", "$exclusive", "$SYS"}
    StrippedPrefixes = {"$queue", "$exclusive"}
    Filters <- MCFilters
    Requests <- MCRequests
    Topics <- MCTopics
    OtherLevel = "c"
    Identifiers = {1, 2}
    MaxEntries = 3
INVARIANTS IndexConsistent MatchIsReference SelectionIsBest
