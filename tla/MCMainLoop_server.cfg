\* The server as main.c runs it, with its fairness.
CONSTANTS
    MAX_SOCKETS = 1
    MAX_STREAMS = 2
    STREAM_RX_SIZE = 2
    Remotes = {a, b}
    NoRemote = noRemote
    Ports = {80}
    EPHEMERAL = 9
    Calls = {}
    OTHER_SOCKETS = 1
    MAX_CLIENTS = 2
    HTTP = 80
    BUF_SIZE = 1
SPECIFICATION FairLoop
INVARIANTS
    NoneLost
PROPERTIES
    FinishedClosed
CHECK_DEADLOCK TRUE
