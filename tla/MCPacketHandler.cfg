\* Frames for other processors and echo requests, more than memory holds.
CONSTANTS
    RX_BUF_END = 29
    BYTE = 8
    FrameSize <- MCFrameSize
    Frames = {1, 2, 3, 4}
    MAX_FRAMES = 3
    Calls = {"PHY", "PHYscan", "DMA", "pause", "addMACtoTable", "freeBufferSpace"}
    Echo <- MCEcho
    IP_HEADER <- MCIPHeader
    ETHERNET <- MCEthernet
    MemoryAfter = {255}
    Messages <- MCMessages
SPECIFICATION FairSpec
INVARIANTS
    RightRegister
    ContextExact
    ReadsItsData
PROPERTIES
    SpaceExact
    FramesFifo
    RepliesExact
    CallsReturn
CHECK_DEADLOCK TRUE
