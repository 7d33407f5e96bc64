----------------------------- MODULE TimerPool -----------------------------
(***************************************************************************)
(* The timer pool of RTC.c as a value, for the models whose users pass     *)
(* their timers on or share them: what each call returns for a pool p, and *)
(* the pool it leaves.  (RTCTimers is the pool as a component.)            *)
(***************************************************************************)
EXTENDS LowestIndex

CONSTANTS
    MAX_TIMERS,     \* slots of the timer pool
    SECONDS_MOD     \* the modulus of Timer.seconds

ASSUME PoolAssumption == MAX_TIMERS \in Nat \ {0} /\ SECONDS_MOD \in Nat \ {0}

Slots == 0 .. MAX_TIMERS - 1

Unused == [i \in Slots |-> [inUse |-> FALSE, seconds |-> 0]]

InUse(p) == {i \in Slots : p[i].inUse}

\* RTCsetTimer
SlotSet(p) == IF InUse(p) = Slots THEN -1 ELSE Lowest(Slots \ InUse(p))

Set(p, seconds) ==
    IF InUse(p) = Slots THEN p
    ELSE [p EXCEPT ![SlotSet(p)] = [inUse |-> TRUE, seconds |-> seconds]]

\* RTCresetTimer
Reset(p, i, seconds) == IF i \in InUse(p) THEN [p EXCEPT ![i].seconds = seconds] ELSE p

\* RTCtimerDone
Done(p, i) == i \in InUse(p) /\ p[i].seconds = 0
Release(p, i) == [p EXCEPT ![i].inUse = FALSE]

\* The interrupt.
Tick(p) == [i \in Slots |-> IF p[i].inUse THEN [p[i] EXCEPT !.seconds = (@ - 1) % SECONDS_MOD]
                                          ELSE p[i]]

=============================================================================
