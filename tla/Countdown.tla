----------------------------- MODULE Countdown -----------------------------
(***************************************************************************)
(* What the one-shot timers of RTC/RTC.h promise their users, with no pool *)
(* of slots and no 32-bit counter: a running timer counts its seconds down *)
(* to zero, waits there until its user asks, and is then gone.             *)
(***************************************************************************)
EXTENDS Integers

CONSTANTS
    Users,      \* the parts of the program that run a timer
    Durations   \* the seconds a timer can be set to

VARIABLE left   \* seconds a user's timer still has to run, or Idle

Idle == -1

Init == left = [u \in Users |-> Idle]

Start(u) ==
    /\ left[u] = Idle
    /\ \E d \in Durations : left' = [left EXCEPT ![u] = d]

Restart(u) ==
    /\ left[u] # Idle
    /\ \E d \in Durations : left' = [left EXCEPT ![u] = d]

\* A finished timer stays finished: it does not leave zero by itself.
Second == left' = [u \in Users |-> IF left[u] > 0 THEN left[u] - 1 ELSE left[u]]

Finish(u) ==
    /\ left[u] = 0
    /\ left' = [left EXCEPT ![u] = Idle]

Next ==
    \/ Second
    \/ \E u \in Users : Start(u) \/ Restart(u) \/ Finish(u)

Spec == Init /\ [][Next]_left

=============================================================================
