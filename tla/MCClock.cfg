\* Every setting; the properties are about those that do not meet the in-place test.
CONSTANTS
    MINUTE = 2
    HOUR = 2
    West = {5}
    East = {2}
    Hours = {0, 23}
    Days = {1, 28, 29, 30, 31}
    Months = {1, 2, 3, 4, 5, 6, 7, 8, 9, 10, 11, 12}
    Years = {2000, 2023, 2100}
    MAX_TICKS = 4
SPECIFICATION ClockSpec
INVARIANTS
    KeepsUTC
    ReadsLocal
CHECK_DEADLOCK TRUE
