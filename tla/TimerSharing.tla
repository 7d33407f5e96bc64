---------------------------- MODULE TimerSharing ----------------------------
(***************************************************************************)
(* The lease, the streams and main on one timer pool.  Stream.timer is not *)
(* set when a stream is opened, so it names timer 0 or what the stream's   *)
(* last connection left; whoever else holds that slot shares it.           *)
(*                                                                         *)
(* One step per handler of a turn of the main loop: turn is 0 while frames *)
(* are processed and main serves its clients, then the stream and then the *)
(* lease whose timers are looked at.                                       *)
(***************************************************************************)
EXTENDS Integers, TimerPool

CONSTANTS
    MAX_STREAMS,
    T1_SECONDS, T2_SECONDS,     \* what a DHCP_ACK brings
    RETRANSMIT_PERIOD,
    WAIT_SECONDS,               \* what main waits before it serves
    MAX_REFUSALS                \* bound on renewals that are refused

\* Leases are much longer than what main waits.
ASSUME SharingAssumption ==
    /\ MAX_STREAMS \in Nat \ {0} /\ MAX_REFUSALS \in Nat
    /\ {T1_SECONDS, T2_SECONDS, RETRANSMIT_PERIOD, WAIT_SECONDS} \subseteq 1 .. SECONDS_MOD - 1
    /\ WAIT_SECONDS < T1_SECONDS /\ T1_SECONDS < T2_SECONDS

VARIABLES
    timers,     \* the timer pool
    T1, T2,     \* the lease's timer indices
    state,      \* DHCP's state; "INIT" is every one before the first DHCP_ACK
    timer,      \* main's timer index
    phase,      \* main: "setup", "ready" when DHCPready is true, "wait" or "serve"
    streams,    \* of each stream how far its connection is, and its timer index
    turn,       \* the handler that runs next
    polled,     \* history: the handlers that ran since the last second
    refusals

vars == <<timers, T1, T2, state, timer, phase, streams, turn, polled, refusals>>

StreamIds == 1 .. MAX_STREAMS
LeaseTurn == MAX_STREAMS + 1

Init ==
    /\ timers = Unused
    /\ T1 = 0 /\ T2 = 0 /\ timer = 0
    /\ state = "INIT"
    /\ phase = "setup"
    /\ streams = [s \in StreamIds |-> [at |-> "free", timer |-> 0]]
    /\ turn = 0
    /\ polled = {}
    /\ refusals = 0

-----------------------------------------------------------------------------
(* The lease.                                                              *)

\* A DHCP_ACK sets T1, and sets T2 or resets it while renewing.
GetAck ==
    LET started == Set(timers, T1_SECONDS) IN
    /\ turn = 0 /\ phase \in {"setup", "serve"}
    /\ state # "BOUND"
    /\ state' = "BOUND"
    /\ T1' = SlotSet(timers)
    /\ IF state = "RENEWING"
       THEN timers' = Reset(started, T2, T2_SECONDS) /\ UNCHANGED T2
       ELSE timers' = Set(started, T2_SECONDS) /\ T2' = SlotSet(started)
    /\ UNCHANGED <<timer, phase, streams, turn, polled, refusals>>

GetNak ==
    /\ turn = 0 /\ phase \in {"setup", "serve"}
    /\ state \in {"RENEWING", "REBINDING"} /\ refusals < MAX_REFUSALS
    /\ state' = "INIT"
    /\ refusals' = refusals + 1
    /\ UNCHANGED <<timers, T1, T2, timer, phase, streams, turn, polled>>

\* Its end is packetHandler's: main leaves its setup loop as soon as DHCP is bound.
handleDHCPtimers ==
    /\ turn = LeaseTurn
    /\ \/ /\ state = "BOUND" /\ Done(timers, T1)
          /\ state' = "RENEWING" /\ timers' = Release(timers, T1)
       \/ /\ state = "RENEWING" /\ Done(timers, T2)
          /\ state' = "REBINDING" /\ timers' = Release(timers, T2)
       \/ /\ ~(state = "BOUND" /\ Done(timers, T1)) /\ ~(state = "RENEWING" /\ Done(timers, T2))
          /\ UNCHANGED <<state, timers>>
    /\ phase' = IF phase = "setup" /\ state' = "BOUND" THEN "ready" ELSE phase
    /\ turn' = 0
    /\ polled' = polled \cup {turn}
    /\ UNCHANGED <<T1, T2, timer, streams, refusals>>

-----------------------------------------------------------------------------
(* The streams.                                                            *)

\* A stream's connection goes on: a client speaks, the handshake ends, or main
\* closes what is finished or still in its handshake.
Connection(s) ==
    /\ turn = 0 /\ phase = "serve"
    /\ \E from \in {"free", "handshake", "data"}, to \in {"free", "handshake", "data"} :
         /\ <<from, to>> \in {<<"free", "handshake">>, <<"handshake", "data">>,
                              <<"handshake", "free">>, <<"data", "free">>}
         /\ streams[s].at = from
         /\ streams' = [streams EXCEPT ![s].at = to]
    /\ UNCHANGED <<timers, T1, T2, state, timer, phase, turn, polled, refusals>>

\* main answers a request and closes the stream: sendWhatWeCan "resets the
\* retransmission timer" unless the client's window is closed.
Serve(s) ==
    /\ turn = 0 /\ phase = "serve"
    /\ streams[s].at = "data"
    /\ timers' \in {timers, Reset(timers, streams[s].timer, RETRANSMIT_PERIOD)}
    /\ streams' = [streams EXCEPT ![s].at = "free"]
    /\ UNCHANGED <<T1, T2, state, timer, phase, turn, polled, refusals>>

\* Mutant: the retransmission timer is not started again.
handleTCPtimersOnce ==
    /\ turn \in StreamIds
    /\ LET s == streams[turn] IN
       IF s.at = "data" /\ Done(timers, s.timer)
       THEN timers' = Release(timers, s.timer) /\ UNCHANGED streams
       ELSE UNCHANGED <<timers, streams>>
    /\ turn' = turn + 1
    /\ polled' = polled \cup {turn}
    /\ UNCHANGED <<T1, T2, state, timer, phase, refusals>>

\* Mutant: a new timer is started although the old one still runs.
handleTCPtimersAlways ==
    /\ turn \in StreamIds
    /\ LET s == streams[turn] IN
       IF s.at = "data" THEN /\ timers' = Set(timers, RETRANSMIT_PERIOD)
                             /\ streams' = [streams EXCEPT ![turn].timer = SlotSet(timers)]
                        ELSE UNCHANGED <<timers, streams>>
    /\ turn' = turn + 1
    /\ polled' = polled \cup {turn}
    /\ UNCHANGED <<T1, T2, state, timer, phase, refusals>>

\* For one stream: if its timer is done, it is set again; what is sent then
\* resets it to the same time.
handleTCPtimers ==
    /\ turn \in StreamIds
    /\ LET s == streams[turn]
           released == Release(timers, s.timer)
       IN  IF s.at = "data" /\ Done(timers, s.timer)
           THEN /\ timers' = Set(released, RETRANSMIT_PERIOD)
                /\ streams' = [streams EXCEPT ![turn].timer = SlotSet(released)]
           ELSE UNCHANGED <<timers, streams>>
    /\ turn' = turn + 1
    /\ polled' = polled \cup {turn}
    /\ UNCHANGED <<T1, T2, state, timer, phase, refusals>>

-----------------------------------------------------------------------------
(* main and the interrupt.                                                 *)

\* What is left of a turn: packetHandler comes to its timers.
GoRound ==
    /\ turn = 0 /\ phase \in {"setup", "serve"}
    /\ turn' = 1
    /\ UNCHANGED <<timers, T1, T2, state, timer, phase, streams, polled, refusals>>

\* DHCPready: main sets its own timer and waits for it, without packetHandler.
Ready ==
    /\ phase = "ready"
    /\ timer' = SlotSet(timers)
    /\ timers' = Set(timers, WAIT_SECONDS)
    /\ phase' = "wait"
    /\ UNCHANGED <<T1, T2, state, streams, turn, polled, refusals>>

TimerDone ==
    /\ phase = "wait" /\ Done(timers, timer)
    /\ timers' = Release(timers, timer)
    /\ phase' = "serve"
    /\ UNCHANGED <<T1, T2, state, timer, streams, turn, polled, refusals>>

\* The loops take less than a second: all handlers have run since the last one.
Second ==
    /\ IF phase = "wait" THEN ~Done(timers, timer) ELSE polled = 1 .. LeaseTurn
    /\ timers' = Tick(timers)
    /\ polled' = {}
    /\ UNCHANGED <<T1, T2, state, timer, phase, streams, turn, refusals>>

Next ==
    \/ GetAck \/ GetNak \/ handleDHCPtimers
    \/ \E s \in StreamIds : Connection(s) \/ Serve(s)
    \/ handleTCPtimers
    \/ GoRound \/ Ready \/ TimerDone
    \/ Second

Spec == Init /\ [][Next]_vars

\* The loops run, the second passes, and the server answers in the end.
Fairness ==
    /\ WF_vars(GoRound) /\ WF_vars(handleTCPtimers) /\ WF_vars(handleDHCPtimers)
    /\ WF_vars(Ready) /\ WF_vars(TimerDone) /\ WF_vars(Second)
    /\ SF_vars(GetAck)

FairSpec == Spec /\ Fairness

-----------------------------------------------------------------------------

\* RTCsetTimer never finds the pool full, which nobody tests for: the lease and
\* main need three slots, the streams none of their own, and each renewal refused
\* while T2 runs costs one for good.
PoolSuffices == -1 \notin {T1, T2, timer} \cup {streams[s].timer : s \in StreamIds}

\* A connection may take T1's end for its own and hold the renewal up, but it
\* does not lose T1: once no connection is open, the lease is renewed again.
RenewsWhenQuiet ==
    <>[](\A s \in StreamIds : streams[s].at # "data") => []<>(state = "RENEWING")

=============================================================================
