------------------------------- MODULE Clock -------------------------------
(***************************************************************************)
(* The calendar clock of RTC/RTC.c.  rtc holds the time in UTC: RTCsetTime *)
(* takes local time, the Timer 2 interrupt adds a second, RTCread gives    *)
(* local time again.  Each runs with the interrupt off, so each is a step. *)
(***************************************************************************)
EXTENDS Integers, FiniteSets

CONSTANTS
    MINUTE,         \* seconds in a minute, 60 in the code
    HOUR,           \* minutes in an hour, 60 in the code
    West, East,     \* offsets from UTC in hours, to either side
    Hours, Days, Months, Years,     \* what local times are set to
    MAX_TICKS       \* bound on the seconds that pass after the clock is set

ASSUME ClockAssumption ==
    /\ MINUTE \in 1 .. 255 /\ HOUR \in 1 .. 255
    /\ West \subseteq 1 .. 12 /\ East \subseteq 0 .. 14
    /\ Hours \subseteq 0 .. 23 /\ Days \subseteq 1 .. 31 /\ Months \subseteq 1 .. 12
    /\ Years \subseteq 1998 .. 9999
    /\ MAX_TICKS \in Nat

VARIABLES
    rtc,
    timeZone,
    running,    \* whether the interrupt was enabled
    ticks,      \* seconds since the clock was set
    meant,      \* history: the instant the user set, and the seconds since
    early       \* history: it was set in those hours of the first two days of a
                \* month that belong to the day before in UTC

clockVars == <<rtc, timeZone, running, ticks, meant, early>>

Zones == {-offset : offset \in West} \cup East

-----------------------------------------------------------------------------
(* The calendar as it is: the definition the code is compared with.        *)

Leap(y) == (y % 4 = 0 /\ y % 100 # 0) \/ y % 400 = 0
MonthLength(m, y) ==
    IF m = 2 THEN IF Leap(y) THEN 29 ELSE 28 ELSE IF m \in {4, 6, 9, 11} THEN 30 ELSE 31

DaysBefore[m \in 1 .. 12] == IF m = 1 THEN 0 ELSE DaysBefore[m - 1] + MonthLength(m - 1, 1997)

\* Days since 1 January 1997, a Wednesday.
DayNumber(d, m, y) ==
    365 * (y - 1997) + Cardinality({k \in 1997 .. y - 1 : Leap(k)})
    + DaysBefore[m] + (IF m > 2 /\ Leap(y) THEN 1 ELSE 0) + d - 1

RealDate(t) ==
    /\ t.mon \in 1 .. 12 /\ t.day \in 1 .. MonthLength(t.mon, t.year)
    /\ t.weekday = (3 + DayNumber(t.day, t.mon, t.year)) % 7

\* Seconds since the beginning of that day, for a real date.
HourLength == HOUR * MINUTE
Instant(t) == (DayNumber(t.day, t.mon, t.year) * 24 + t.hour) * HourLength
              + t.min * MINUTE + t.sec

-----------------------------------------------------------------------------
(* The calendar of the code.                                               *)

notLeap(year) == IF year % 100 = 0 THEN year % 400 # 0 ELSE year % 4 # 0

dayOfWeek(d, m, y) ==
    LET yy == IF m < 3 THEN y - 1 ELSE y
        dd == d + (IF m < 3 THEN y ELSE y - 2)
    IN  ((23 * m) \div 9 + dd + 4 + yy \div 4 - yy \div 100 + yy \div 400) % 7

\* Mutant: every fourth year is taken for a leap year.
MonthOverJulian(day, mon, year) ==
    \/ day = 32
    \/ day = 31 /\ mon \in {4, 6, 9, 11}
    \/ day = 30 /\ mon = 2
    \/ day = 29 /\ mon = 2 /\ year % 4 # 0

\* The tests that end a month once the day was counted up.
MonthOver(day, mon, year) ==
    \/ day = 32
    \/ day = 31 /\ mon \in {4, 6, 9, 11}
    \/ day = 30 /\ mon = 2
    \/ day = 29 /\ mon = 2 /\ notLeap(year)

\* The day after, in the interrupt and for an offset to the east.
NextDay(t) ==
    LET next == [t EXCEPT !.day = @ + 1, !.weekday = (@ + 1) % 7] IN
    IF ~MonthOver(t.day + 1, t.mon, t.year) THEN next
    ELSE IF t.mon = 12 THEN [next EXCEPT !.day = 1, !.mon = 1, !.year = @ + 1]
    ELSE [next EXCEPT !.day = 1, !.mon = @ + 1]

\* Mutant: July is taken for a month of 30 days.
LastDayBeforeShort(mon, year) ==
    IF mon \in {1, 2, 4, 6, 9, 11} THEN 31
    ELSE IF mon \in {5, 7, 8, 10, 12} THEN 30
    ELSE IF notLeap(year) THEN 28 ELSE 29

\* The last day of the month before.
LastDayBefore(mon, year) ==
    IF mon \in {1, 2, 4, 6, 8, 9, 11} THEN 31
    ELSE IF mon \in {5, 7, 10, 12} THEN 30
    ELSE IF notLeap(year) THEN 28 ELSE 29

\* The day before, for an offset to the west.  The day is tested after it was
\* counted down: in place, when dest is src, the 2nd is taken for the first day of
\* the month.  The month before January is taken to be month 0.
PreviousDay(t, inPlace) ==
    LET back == [t EXCEPT !.day = @ - 1, !.weekday = IF @ = 0 THEN 6 ELSE @ - 1]
        tested == IF inPlace THEN t.day - 1 ELSE t.day
    IN  IF tested # 1 THEN back
        ELSE [back EXCEPT !.day = LastDayBefore(t.mon, t.year), !.mon = t.mon - 1,
                          !.year = IF t.mon = 1 THEN @ - 1 ELSE @]

addTimeZoneOffset(t, offset, inPlace) ==
    IF offset < 0
    THEN IF -offset > t.hour
         THEN [PreviousDay(t, inPlace) EXCEPT !.hour = 24 + offset + t.hour]
         ELSE [t EXCEPT !.hour = @ + offset]
    ELSE IF t.hour + offset > 23 THEN [NextDay(t) EXCEPT !.hour = (t.hour + offset) % 24]
                                 ELSE [t EXCEPT !.hour = @ + offset]

IntoDayBefore(t, offset) == t.hour + offset < 0

-----------------------------------------------------------------------------

ClockTypeInv ==
    /\ rtc \in [sec : 0 .. MINUTE - 1, min : 0 .. HOUR - 1, hour : 0 .. 23, day : 0 .. 31,
                weekday : 0 .. 6, mon : 0 .. 12, year : 0 .. 10000]
    /\ timeZone \in Zones \cup {0}
    /\ running \in BOOLEAN /\ early \in BOOLEAN /\ ticks \in 0 .. MAX_TICKS

ClockInit ==
    /\ rtc = [sec |-> 0, min |-> 0, hour |-> 0, day |-> 0, weekday |-> 0, mon |-> 0, year |-> 0]
    /\ timeZone = 0
    /\ running = FALSE
    /\ ticks = 0 /\ meant = 0 /\ early = FALSE

RTCsetTimeZone(zone) ==
    /\ timeZone' = zone
    /\ UNCHANGED <<rtc, running, ticks, meant, early>>

\* The user gives a local time, here a full hour; the interrupt is enabled.
RTCsetTime(h, d, mon, y) ==
    LET t == [sec |-> 0, min |-> 0, hour |-> h, day |-> d, weekday |-> dayOfWeek(d, mon, y),
              mon |-> mon, year |-> y]
    IN  /\ d <= MonthLength(mon, y)
        /\ rtc' = addTimeZoneOffset(t, -timeZone, TRUE)
        /\ meant' = Instant(t) - timeZone * HourLength
        /\ early' = (IntoDayBefore(t, -timeZone) /\ d \in {1, 2})
        /\ running' = TRUE /\ ticks' = 0
        /\ UNCHANGED timeZone

RTCread == addTimeZoneOffset(rtc, timeZone, FALSE)

\* Mutant: a field is tested before it is counted up.
CarryLate(value, limit) == value = limit

\* Counting value up reaches its limit.
Carry(value, limit) == value + 1 = limit

\* The interrupt: a second more, and the carries.
TIMER2_OVFclock ==
    /\ running /\ ticks < MAX_TICKS
    /\ rtc' = IF ~Carry(rtc.sec, MINUTE) THEN [rtc EXCEPT !.sec = @ + 1]
              ELSE IF ~Carry(rtc.min, HOUR) THEN [rtc EXCEPT !.sec = 0, !.min = @ + 1]
              ELSE IF ~Carry(rtc.hour, 24) THEN [rtc EXCEPT !.sec = 0, !.min = 0, !.hour = @ + 1]
              ELSE [NextDay(rtc) EXCEPT !.sec = 0, !.min = 0, !.hour = 0]
    /\ ticks' = ticks + 1 /\ meant' = meant + 1
    /\ UNCHANGED <<timeZone, running, early>>

ClockNext ==
    \/ TIMER2_OVFclock
    \/ \E zone \in Zones : RTCsetTimeZone(zone)
    \/ \E h \in Hours, d \in Days, mon \in Months, y \in Years : RTCsetTime(h, d, mon, y)

ClockSpec == ClockInit /\ [][ClockNext]_clockVars

-----------------------------------------------------------------------------

\* "Invert the timezone offset to get us to UTC from the given local time": from
\* any setting on, rtc is the instant the user meant.  It is not when that local
\* time is early on the first or second day of a month, east of UTC.
SetsUTC == running => RealDate(rtc) /\ Instant(rtc) = meant

\* From every other setting on, and whatever was set before, over the ends of days,
\* months, leap years and centuries, rtc is a date of the calendar with its day of
\* the week, and the instant the user meant.
KeepsUTC == running /\ ~early => RealDate(rtc) /\ Instant(rtc) = meant

\* "The time and date fields will be according to the time zone": from such a
\* setting on, RTCread gives the same instant as a real date of the zone, except on
\* the hours of New Year's Day that are in the old year to the west, which it puts
\* into month 0.
ReadsLocal ==
    running /\ ~early /\ ~(rtc.mon = 1 /\ rtc.day = 1 /\ IntoDayBefore(rtc, timeZone)) =>
        /\ RealDate(RTCread)
        /\ Instant(RTCread) = meant + timeZone * HourLength

=============================================================================
