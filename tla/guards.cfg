SPECIFICATION FairSpec
CONSTANTS
    c1 = c1
    c2 = c2
    c3 = c3
    None = None
    Callers = {c1, c2, c3}
    Filters = {1, 2, 3}
    Slots = {"x", "y", "z"}
INVARIANTS NoStaleGuard
PROPERTIES ImplementsOwnership WaitersEnter
