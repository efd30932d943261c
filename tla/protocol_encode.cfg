SPECIFICATION Spec
CONSTANTS
    o1 = o1
    o2 = o2
    None = None
    Ops = {o1, o2}
    Kinds = {"qos1", "subscribe"}
    Cancellable = {}
    Unencodable = {"qos1"}
    Losses = {}
    MaxPacketId = 2
    PublishLimits = {2}
    MaxRogue = 0
SYMMETRY Symmetry
INVARIANTS PublishManagesIds
CHECK_DEADLOCK FALSE
