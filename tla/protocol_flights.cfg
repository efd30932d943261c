SPECIFICATION Spec
CONSTANTS
    o1 = o1
    o2 = o2
    None = None
    Ops = {o1, o2}
    Kinds = {"qos0", "qos1", "qos2", "subscribe", "unsubscribe"}
    Cancellable = {"qos0", "qos1", "qos2"}
    Unencodable = {"qos0", "qos1", "qos2", "subscribe", "unsubscribe"}
    Losses = {"closed", "shut", "reset", "silent"}
    MaxPacketId = 2
    PublishLimits = {1, 2}
    MaxRogue = 0
SYMMETRY Symmetry
INVARIANTS TypeOK PacketIdsExclusive DeadLeavesNoWaiter OutcomeMatchesBroker InUseIsOwed NoSpuriousProtocolError
PROPERTIES Qos2Handshake
CHECK_DEADLOCK FALSE
