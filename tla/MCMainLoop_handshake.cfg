\* A client whose handshake takes more than one call of packetHandler.
CONSTANTS
    MAX_SOCKETS = 1
    MAX_STREAMS = 2
    STREAM_RX_SIZE = 2
    Remotes = {a, b}
    NoRemote = noRemote
    Ports = {80}
    EPHEMERAL = 9
    Calls = {}
    OTHER_SOCKETS = 1
    MAX_CLIENTS = 2
    HTTP = 80
    BUF_SIZE = 1
SPECIFICATION FairLoop
PROPERTY EndedByClient
CHECK_DEADLOCK TRUE
