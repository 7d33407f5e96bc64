\* Two connections that come and go as they like.
CONSTANTS
    MAX_TIMERS = 3
    SECONDS_MOD = 8
    MAX_STREAMS = 2
    T1_SECONDS = 3
    T2_SECONDS = 5
    RETRANSMIT_PERIOD = 2
    WAIT_SECONDS = 1
    MAX_REFUSALS = 1
SPECIFICATION FairSpec
INVARIANT
    PoolSuffices
PROPERTY
    RenewsWhenQuiet
CHECK_DEADLOCK TRUE
