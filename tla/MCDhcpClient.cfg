\* A server that sends both times, one or none, and whose lease may run out.
CONSTANTS
    MAX_TIMERS = 3
    SECONDS_MOD = 3
    T1_SECONDS = 1
    T2_SECONDS = 2
    IPs = {ip1}
    OtherIP = otherIP
    TornIP = tornIP
    broadcastIP = broadcastIP
    Server = server
    Routers <- MCRouters
    NoAddr = noAddr
    router = router
    AckOptions <- MCAckOptions
    MAX_EXPIRIES = 1
    MAX_RESTARTS = 1
SPECIFICATION FairSpec
INVARIANTS
    AddressLeased
    LeaseTimersExact
PROPERTIES
    BoundInTheEnd
    RenewsAgain
