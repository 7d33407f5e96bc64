\* A server with two sockets, and any calls of the interface with one.
CONSTANTS
    MAX_SOCKETS = 2
    MAX_STREAMS = 2
    STREAM_RX_SIZE = 1
    Remotes = {a, b}
    NoRemote = noRemote
    Ports = {1, 2}
    EPHEMERAL = 9
    Calls = {"connect", "closeSocket", "rebind"}
    OTHER_SOCKETS = 1
SYMMETRY Symmetry
SPECIFICATION Spec
INVARIANTS
    UniqueStream
    HandlesExact
    NoCrossTalk
    ModeMatchesSocket
CHECK_DEADLOCK TRUE
