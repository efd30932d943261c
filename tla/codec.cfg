SPECIFICATION Spec
CONSTANTS
    None = None
    Versions = {"3.1.1", "5.0"}
    Greetings <- MCGreetings
    Packets <- All
    Malformed <- MCMalformed
    Chunks = {1, 7, 500}
    MaxPackets = 3
INVARIANTS InOrderAndWhole NothingHeldBack CodecSound
CHECK_DEADLOCK FALSE
