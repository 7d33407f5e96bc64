----------------------------- MODULE RTCTimers -----------------------------
(***************************************************************************)
(* The pool of second timers of RTC/RTC.c: RTCsetTimer takes the first     *)
(* free slot, the Timer 2 overflow interrupt decrements every slot in use  *)
(* once a second, RTCtimerDone reports and releases a slot that stands at  *)
(* exactly zero.  The three calls run with the interrupt disabled, so each *)
(* is one step and the interrupt is a step between them.                   *)
(*                                                                         *)
(* A user is a variable of the program that holds a timer index (DHCP's T1 *)
(* and T2, a stream's timer, main's timer).  Users are disciplined here:   *)
(* they overwrite an index only after its timer is done.                   *)
(***************************************************************************)
EXTENDS Integers, LowestIndex

CONSTANTS
    MAX_TIMERS,     \* slots in the pool
    SECONDS_MOD,    \* 2^32 in the code: the modulus of Timer.seconds
    Users,          \* variables that hold a timer index
    Durations,      \* what timers are set to
    PromptPolling   \* TRUE: no second passes while a finished timer waits to
                    \* be read, as when the main loop turns over quickly

ASSUME PoolAssumption ==
    /\ MAX_TIMERS \in Nat \ {0}
    /\ SECONDS_MOD \in Nat \ {0}
    /\ Durations \subseteq 0 .. SECONDS_MOD - 1
    /\ PromptPolling \in BOOLEAN

VARIABLES
    timers,     \* the pool
    handle,     \* the index each user holds, None after its timer was done
    remaining   \* history: seconds that really remain of what was asked

vars == <<timers, handle, remaining>>

Slots == 0 .. MAX_TIMERS - 1
None == -1
Held(u) == handle[u] # None

TypeInv ==
    /\ timers \in [Slots -> [inUse : BOOLEAN, seconds : 0 .. SECONDS_MOD - 1]]
    /\ handle \in [Users -> Slots \cup {None}]
    /\ remaining \in [Users -> 0 .. SECONDS_MOD - 1]

Init ==
    /\ timers = [i \in Slots |-> [inUse |-> FALSE, seconds |-> 0]]
    /\ handle = [u \in Users |-> None]
    /\ remaining = [u \in Users |-> 0]

-----------------------------------------------------------------------------

FreeSlots == {i \in Slots : ~timers[i].inUse}

\* Mutant: a slot is taken without loading its counter.
RTCsetTimerStale(u, d) ==
    /\ ~Held(u)
    /\ FreeSlots # {}
    /\ timers' = [timers EXCEPT ![Lowest(FreeSlots)].inUse = TRUE]
    /\ handle' = [handle EXCEPT ![u] = Lowest(FreeSlots)]
    /\ remaining' = [remaining EXCEPT ![u] = d]

\* Mutant: one second is added for the part of a second already gone.
RTCsetTimerRoundedUp(u, d) ==
    /\ ~Held(u)
    /\ FreeSlots # {}
    /\ timers' = [timers EXCEPT ![Lowest(FreeSlots)] = [inUse |-> TRUE, seconds |-> d + 1]]
    /\ handle' = [handle EXCEPT ![u] = Lowest(FreeSlots)]
    /\ remaining' = [remaining EXCEPT ![u] = d]

\* RTCsetTimer(d) by user u; with no free slot it returns -1, which u keeps.
RTCsetTimer(u, d) ==
    /\ ~Held(u)
    /\ FreeSlots # {}
    /\ LET i == Lowest(FreeSlots) IN
         /\ timers' = [timers EXCEPT ![i] = [inUse |-> TRUE, seconds |-> d]]
         /\ handle' = [handle EXCEPT ![u] = i]
    /\ remaining' = [remaining EXCEPT ![u] = d]

\* Mutant: the new time is added to what is left.
RTCresetTimerExtends(u, d) ==
    /\ Held(u)
    /\ timers[handle[u]].inUse
    /\ timers' = [timers EXCEPT ![handle[u]].seconds = (@ + d) % SECONDS_MOD]
    /\ remaining' = [remaining EXCEPT ![u] = d]
    /\ UNCHANGED handle

\* RTCresetTimer(handle[u], d); a user without a timer gets -1 and no change.
RTCresetTimer(u, d) ==
    /\ Held(u)
    /\ timers[handle[u]].inUse
    /\ timers' = [timers EXCEPT ![handle[u]].seconds = d]
    /\ remaining' = [remaining EXCEPT ![u] = d]
    /\ UNCHANGED handle

\* Mutant: the finished timer is reported but not released.
RTCtimerDoneLeaks(u) ==
    /\ Held(u)
    /\ timers[handle[u]].inUse
    /\ timers[handle[u]].seconds = 0
    /\ handle' = [handle EXCEPT ![u] = None]
    /\ UNCHANGED <<timers, remaining>>

\* RTCtimerDone(handle[u]) when it returns 1; the other outcomes change nothing.
RTCtimerDone(u) ==
    /\ Held(u)
    /\ timers[handle[u]].inUse
    /\ timers[handle[u]].seconds = 0
    /\ timers' = [timers EXCEPT ![handle[u]].inUse = FALSE]
    /\ handle' = [handle EXCEPT ![u] = None]
    /\ UNCHANGED remaining

\* seconds -= 1 on an unsigned counter.
MinusOne(s) == IF s = 0 THEN SECONDS_MOD - 1 ELSE s - 1

Unread == \E i \in Slots : timers[i].inUse /\ timers[i].seconds = 0

\* Mutant: the interrupt's loop ends one slot early.
TIMER2_OVFShort ==
    /\ PromptPolling => ~Unread
    /\ timers' = [i \in Slots |->
                    IF timers[i].inUse /\ i < MAX_TIMERS - 1
                    THEN [timers[i] EXCEPT !.seconds = MinusOne(timers[i].seconds)]
                    ELSE timers[i]]
    /\ remaining' = [u \in Users |->
                       IF Held(u) /\ remaining[u] > 0 THEN remaining[u] - 1
                                                      ELSE remaining[u]]
    /\ UNCHANGED handle

\* The interrupt, once a second; with PromptPolling it finds no unread timer.
TIMER2_OVF ==
    /\ PromptPolling => ~Unread
    /\ timers' = [i \in Slots |->
                    IF timers[i].inUse
                    THEN [timers[i] EXCEPT !.seconds = MinusOne(timers[i].seconds)]
                    ELSE timers[i]]
    /\ remaining' = [u \in Users |->
                       IF Held(u) /\ remaining[u] > 0 THEN remaining[u] - 1
                                                      ELSE remaining[u]]
    /\ UNCHANGED handle

Next ==
    \/ TIMER2_OVF
    \/ \E u \in Users : RTCtimerDone(u)
    \/ \E u \in Users, d \in Durations : RTCsetTimer(u, d) \/ RTCresetTimer(u, d)

Spec == Init /\ [][Next]_vars

\* Real time passes whatever the program does, hence SF for the interrupt; and
\* every part of the program keeps asking about its timer: packetHandler runs
\* handleTCPtimers and handleDHCPtimers each turn.
Fairness == SF_vars(TIMER2_OVF) /\ \A u \in Users : WF_vars(RTCtimerDone(u))

FairSpec == Spec /\ Fairness

-----------------------------------------------------------------------------

\* Allocation and release account for every slot: a slot is in use exactly when
\* one user holds its index, and no two users ever hold the same one.
HandlesExact ==
    /\ \A i \in Slots : timers[i].inUse <=> \E u \in Users : handle[u] = i
    /\ \A u, v \in Users : Held(u) /\ handle[u] = handle[v] => u = v

\* A timer never finishes early: RTCtimerDone can return 1 only after all the
\* seconds its user last asked for have passed.
NeverEarly ==
    \A u \in Users : Held(u) /\ timers[handle[u]].seconds = 0 => remaining[u] = 0

\* The pool implements the countdown timers its users think they have.
TimersOfUsers == [u \in Users |-> IF Held(u) THEN timers[handle[u]].seconds ELSE None]

Promise == INSTANCE Countdown WITH left <- TimersOfUsers

CountdownSpec == Promise!Spec

\* A timer that is not restarted for ever is reported to its user in the end.
Expires ==
    \A u \in Users :
        <>[][\A d \in Durations : ~RTCresetTimer(u, d)]_vars => []<>(~Held(u))

=============================================================================
