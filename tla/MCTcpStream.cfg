\* Bytes one way or the other, over any network, or datagrams.
CONSTANTS
    STREAM_RX_SIZE = 8
    STREAM_TX_SIZE = 2
    LEN_MOD = 16
    BYTE = 4
    Datagrams <- MCDatagrams
    PEER_BYTES = 19
    APP_BYTES = 4
    PEER_WINDOW = 2
    Closes = TRUE
    FinFits = TRUE
    Lossy = TRUE
    OneWay = TRUE
    SENT_BYTES = 4
SPECIFICATION FairSpec
INVARIANTS
    ReadInOrder
    EndAfterAll
    PointersInOrder
    PeerInOrder
    WindowRespected
PROPERTIES
    DatagramsWhole
    ArrivesUnlessLost
CHECK_DEADLOCK FALSE
