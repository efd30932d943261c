SPECIFICATION FairSpec
CONSTANTS
    o1 = o1
    o2 = o2
    None = None
    Ops = {o1, o2}
    Kinds = {"qos2", "unsubscribe"}
    Cancellable = {"qos2"}
    Unencodable = {"qos2"}
    Losses = {"reset"}
    MaxPacketId = 1
    PublishLimits = {2}
    MaxRogue = 1
PROPERTIES OpsTerminate PacketIdsReturn
CHECK_DEADLOCK FALSE
