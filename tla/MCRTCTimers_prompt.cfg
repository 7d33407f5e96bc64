\* Timers read before the next second: the pool implements Countdown.  No
\* duration is 0, so that other users' unread timers cannot hold up the second
\* for ever.
CONSTANTS
    MAX_TIMERS = 3
    SECONDS_MOD = 4
    Users = {u1, u2, u3, u4}
    Durations = {1, 3}
    PromptPolling = TRUE
SPECIFICATION FairSpec
INVARIANTS
    NeverEarly
    HandlesExact
PROPERTIES
    CountdownSpec
    Expires
CHECK_DEADLOCK TRUE
