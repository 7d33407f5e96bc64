\* A segment is lost.
CONSTANTS
    STREAM_RX_SIZE = 2
    STREAM_TX_SIZE = 2
    LEN_MOD = 8
    BYTE = 4
    Datagrams <- MCDatagrams
    PEER_BYTES = 0
    APP_BYTES = 2
    PEER_WINDOW = 2
    Closes = FALSE
    FinFits = TRUE
    Lossy = TRUE
    OneWay = TRUE
    SENT_BYTES = 2
SPECIFICATION FairSpec
PROPERTY Retransmitted
CHECK_DEADLOCK FALSE
