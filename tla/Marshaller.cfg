SPECIFICATION FairSpec
CONSTANTS
    Lengths = {0, 1, 3}
    MaxPackets = 4
    MarkSize = 2
    HeaderSize = 2
    BufferSize = 5
CHECK_DEADLOCK FALSE
INVARIANTS TypeOK PacketsIntact RoomToRead
PROPERTY PacketsArrive
