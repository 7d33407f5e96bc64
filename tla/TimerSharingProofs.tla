------------------------- MODULE TimerSharingProofs -------------------------
(***************************************************************************)
(* That the timer pool is never full for the lease, the streams and main,  *)
(* whatever they do to each other's timers.                                *)
(***************************************************************************)
EXTENDS TimerSharing, NumberProofs, FiniteSetTheorems

-----------------------------------------------------------------------------
(* The pool.                                                               *)

Timer == [inUse : BOOLEAN, seconds : 0 .. SECONDS_MOD - 1]
Pools == [Slots -> Timer]
Size(p) == Cardinality(InUse(p))

LEMMA SizeTyped ==
  ASSUME NEW p
  PROVE  /\ IsFiniteSet(InUse(p)) /\ Size(p) \in Nat
         /\ Size(p) < MAX_TIMERS => InUse(p) # Slots
<1>1. IsFiniteSet(0 .. MAX_TIMERS - 1) /\ Cardinality(0 .. MAX_TIMERS - 1) = MAX_TIMERS
  BY FS_Interval, PoolAssumption
<1>2. IsFiniteSet(InUse(p))
  BY <1>1, FS_Subset DEF Slots, InUse
<1>3. Size(p) \in Nat
  BY <1>2, FS_CardinalityType DEF Size
<1> QED
  BY <1>1, <1>2, <1>3, PoolAssumption DEF Slots, Size

\* With room in the pool a timer is set in a free slot.
LEMMA SetSays ==
  ASSUME NEW p \in Pools, NEW s \in 0 .. SECONDS_MOD - 1, Size(p) < MAX_TIMERS
  PROVE  /\ SlotSet(p) \in Slots \ InUse(p)
         /\ Set(p, s) \in Pools /\ Size(Set(p, s)) = Size(p) + 1
         /\ InUse(Set(p, s)) = InUse(p) \cup {SlotSet(p)}
         /\ Set(p, s)[SlotSet(p)].seconds = s
         /\ \A j \in InUse(p) : Set(p, s)[j] = p[j]
<1> DEFINE i == SlotSet(p)
           q == [p EXCEPT ![i] = [inUse |-> TRUE, seconds |-> s]]
<1>1. InUse(p) # Slots /\ IsFiniteSet(InUse(p))
  BY SizeTyped
<1>2. i \in Slots \ InUse(p)
  <2>1. Slots \ InUse(p) \in SUBSET Nat /\ Slots \ InUse(p) # {}
    BY <1>1, PoolAssumption DEF Slots, InUse
  <2>2. Lowest(Slots \ InUse(p)) \in Slots \ InUse(p)
    BY <2>1, LowestIsFirst
  <2> QED
    BY <1>1, <2>2 DEF SlotSet
<1>3. Set(p, s) = q
  BY <1>1 DEF Set
<1> HIDE DEF i
<1>4. q \in Pools /\ q[i].seconds = s
  BY <1>2 DEF Pools, Timer
<1>5. \A j \in Slots : q[j] = IF j = i THEN [inUse |-> TRUE, seconds |-> s] ELSE p[j]
  BY <1>2 DEF Pools
<1>6. InUse(q) = InUse(p) \cup {i}
  BY <1>2, <1>5 DEF InUse
<1>7. \A j \in InUse(p) : q[j] = p[j]
  BY <1>2, <1>5 DEF InUse
<1> HIDE DEF q
<1>8. Size(q) = Size(p) + 1
  <2>1. i \notin InUse(p)
    BY <1>2
  <2> QED
    BY <1>1, <1>6, <2>1, FS_AddElement DEF Size
<1> QED
  BY <1>2, <1>3, <1>4, <1>6, <1>7, <1>8 DEF i

LEMMA ResetSays ==
  ASSUME NEW p \in Pools, NEW i, NEW s \in 0 .. SECONDS_MOD - 1
  PROVE  Reset(p, i, s) \in Pools /\ InUse(Reset(p, i, s)) = InUse(p)
<1>1. CASE i \notin InUse(p)
  BY <1>1 DEF Reset
<1>2. CASE i \in InUse(p)
  <2> DEFINE q == [p EXCEPT ![i].seconds = s]
  <2>1. Reset(p, i, s) = q /\ i \in Slots
    BY <1>2 DEF Reset, InUse
  <2>2. q \in Pools /\ \A j \in Slots : q[j].inUse = p[j].inUse
    BY <2>1 DEF Pools, Timer
  <2>3. InUse(q) = InUse(p)
    BY <2>2 DEF InUse
  <2> QED
    BY <2>1, <2>2, <2>3
<1> QED
  BY <1>1, <1>2

LEMMA ReleaseSays ==
  ASSUME NEW p \in Pools, NEW i \in InUse(p)
  PROVE  Release(p, i) \in Pools /\ Size(Release(p, i)) + 1 = Size(p)
<1> DEFINE q == [p EXCEPT ![i].inUse = FALSE]
<1>1. q \in Pools
  BY DEF Pools, Timer
<1>2. \A j \in Slots : q[j].inUse = IF j = i THEN FALSE ELSE p[j].inUse
  BY DEF Pools, Timer
<1>3. InUse(q) = InUse(p) \ {i}
  BY <1>2 DEF InUse
<1>4. Size(q) = Size(p) - 1
  BY <1>3, SizeTyped, FS_RemoveElement DEF Size
<1>5. Size(p) \in Nat /\ Release(p, i) = q
  BY SizeTyped DEF Release
<1> QED
  BY <1>1, <1>4, <1>5

\* A second takes one from every timer that is not at its end.
LEMMA TickSays ==
  ASSUME NEW p \in Pools
  PROVE  /\ Tick(p) \in Pools /\ InUse(Tick(p)) = InUse(p)
         /\ \A i \in InUse(p) : p[i].seconds > 0 => Tick(p)[i].seconds = p[i].seconds - 1
<1>1. ASSUME NEW i \in Slots
      PROVE  /\ Tick(p)[i] \in Timer /\ Tick(p)[i].inUse = p[i].inUse
             /\ p[i].inUse /\ p[i].seconds > 0 => Tick(p)[i].seconds = p[i].seconds - 1
  <2>1. p[i] \in Timer
    BY DEF Pools
  <2> DEFINE s == p[i].seconds
             t == (s - 1) % SECONDS_MOD
  <2>2. t \in 0 .. SECONDS_MOD - 1 /\ (s > 0 => t = s - 1)
    <3>1. s \in 0 .. SECONDS_MOD - 1 /\ SECONDS_MOD \in Nat \ {0}
      BY <2>1, PoolAssumption DEF Timer
    <3> HIDE DEF s
    <3> QED
      BY <3>1, SMT
  <2>3. Tick(p)[i] = IF p[i].inUse THEN [p[i] EXCEPT !.seconds = t] ELSE p[i]
    BY DEF Tick
  <2> HIDE DEF t
  <2> QED
    BY <2>1, <2>2, <2>3 DEF Timer
<1>2. Tick(p) = [i \in Slots |-> Tick(p)[i]]
  BY DEF Tick
<1>3. Tick(p) \in Pools
  BY <1>1, <1>2 DEF Pools
<1>4. InUse(Tick(p)) = InUse(p)
  BY <1>1 DEF InUse
<1> QED
  BY <1>1, <1>3, <1>4 DEF InUse

-----------------------------------------------------------------------------
(* Who holds how many slots.                                               *)

\* Of the lease: one after T1's end, none after T2's.
LeaseNeeds == CASE state = "BOUND" -> 2 [] state = "RENEWING" -> 1 [] OTHER -> 0

Types ==
    /\ timers \in Pools
    /\ T1 \in Slots /\ T2 \in Slots /\ timer \in Slots
    /\ state \in {"INIT", "BOUND", "RENEWING", "REBINDING"}
    /\ phase \in {"setup", "ready", "wait", "serve"}
    /\ streams \in [StreamIds -> [at : {"free", "handshake", "data"}, timer : Slots]]
    /\ turn \in 0 .. LeaseTurn
    /\ refusals \in 0 .. MAX_REFUSALS

\* Streams need no slot of their own, and main one while it waits.
SlotsCounted == Size(timers) <= refusals + LeaseNeeds + (IF phase = "wait" THEN 1 ELSE 0)

\* Until main serves, the lease is not renewed: T1 does not end between the
\* DHCP_ACK and the handler that makes main leave its setup.
SetupInv ==
    /\ phase # "serve" => refusals = 0
    /\ phase \in {"ready", "wait"} => state = "BOUND" /\ turn = 0
    /\ phase = "setup" =>
         /\ state \in {"INIT", "BOUND"}
         /\ \A s \in StreamIds : streams[s].at # "data"
         /\ state = "BOUND" =>
              /\ T1 \in InUse(timers) /\ timers[T1].seconds >= 1
              /\ timers[T1].seconds >= 2 \/ LeaseTurn \notin polled

SharingInv == Types /\ SlotsCounted /\ SetupInv

\* A slot for the lease's two timers and main's, and one for every T2 that a
\* refused renewal left running.
Roomy == MAX_TIMERS >= 3 /\ MAX_TIMERS >= MAX_REFUSALS + 2

LEMMA ConstantsTyped ==
  /\ MAX_TIMERS \in Nat /\ MAX_REFUSALS \in Nat /\ MAX_STREAMS \in Nat \ {0} /\ SECONDS_MOD \in Nat
  /\ T1_SECONDS \in 0 .. SECONDS_MOD - 1 /\ T2_SECONDS \in 0 .. SECONDS_MOD - 1
  /\ RETRANSMIT_PERIOD \in 0 .. SECONDS_MOD - 1 /\ WAIT_SECONDS \in 0 .. SECONDS_MOD - 1
  /\ T1_SECONDS \in Nat /\ T1_SECONDS >= 2
  BY PoolAssumption, SharingAssumption

LEMMA InitShares == Init => SharingInv
<1> SUFFICES ASSUME Init PROVE SharingInv
  OBVIOUS
<1>1. timers \in Pools /\ InUse(timers) = {}
  BY PoolAssumption DEF Init, Unused, Pools, Timer, InUse
<1>2. Size(timers) = 0
  BY <1>1, FS_EmptySet DEF Size
<1>3. 0 \in Slots
  BY PoolAssumption DEF Slots
<1>4. Types
  BY <1>1, <1>3, ConstantsTyped DEF Init, Types, LeaseTurn
<1> QED
  BY <1>2, <1>4 DEF Init, SharingInv, SlotsCounted, LeaseNeeds, SetupInv

LEMMA AckShares ==
  ASSUME Roomy, SharingInv, GetAck
  PROVE  SharingInv'
<1> DEFINE started == Set(timers, T1_SECONDS)
           n == Size(timers)
<1>1. /\ Types /\ SlotsCounted /\ SetupInv
      /\ turn = 0 /\ phase \in {"setup", "serve"} /\ state # "BOUND"
      /\ state' = "BOUND" /\ T1' = SlotSet(timers)
      /\ UNCHANGED <<timer, phase, streams, turn, polled, refusals>>
  BY DEF SharingInv, GetAck
<1>2. timers \in Pools /\ refusals \in Nat /\ refusals <= MAX_REFUSALS /\ n \in Nat
  BY <1>1, ConstantsTyped, SizeTyped DEF Types
<1>3. n <= refusals + (IF state = "RENEWING" THEN 1 ELSE 0)
  BY <1>1, <1>2 DEF SlotsCounted, LeaseNeeds
<1>4. n + 1 < MAX_TIMERS \/ (state = "RENEWING" /\ n < MAX_TIMERS)
  BY <1>2, <1>3, ConstantsTyped DEF Roomy
<1>5. Size(timers) < MAX_TIMERS
  BY <1>2, <1>4, ConstantsTyped
<1>6. /\ T1' \in Slots /\ started \in Pools /\ Size(started) = n + 1
      /\ T1' \in InUse(started) /\ started[T1'].seconds = T1_SECONDS
  BY <1>1, <1>2, <1>5, ConstantsTyped, SetSays
<1> HIDE DEF started, n
<1>7. /\ timers' \in Pools /\ T2' \in Slots /\ Size(timers') <= refusals + 2
      /\ state # "RENEWING" => T1' \in InUse(timers') /\ timers'[T1'] = started[T1']
  <2>1. CASE state = "RENEWING"
    <3>1. timers' = Reset(started, T2, T2_SECONDS) /\ T2' = T2
      BY <2>1 DEF GetAck, started
    <3>2. timers' \in Pools /\ InUse(timers') = InUse(started)
      BY <1>6, <3>1, ConstantsTyped, ResetSays
    <3>3. Size(timers') = n + 1
      BY <1>6, <3>2 DEF Size
    <3> QED
      BY <1>1, <1>2, <1>3, <2>1, <3>1, <3>2, <3>3 DEF Types
  <2>2. CASE state # "RENEWING"
    <3>1. timers' = Set(started, T2_SECONDS) /\ T2' = SlotSet(started)
      BY <2>2 DEF GetAck, started
    <3>2. Size(started) < MAX_TIMERS
      BY <1>2, <1>4, <1>6, <2>2, ConstantsTyped
    <3>3. /\ SlotSet(started) \in Slots /\ timers' \in Pools /\ Size(timers') = Size(started) + 1
          /\ InUse(timers') = InUse(started) \cup {SlotSet(started)}
          /\ \A j \in InUse(started) : timers'[j] = started[j]
      BY <1>6, <3>1, <3>2, ConstantsTyped, SetSays
    <3>4. Size(timers') <= refusals + 2
      BY <1>2, <1>3, <1>6, <2>2, <3>3
    <3> QED
      BY <1>6, <3>1, <3>3, <3>4
  <2> QED
    BY <2>1, <2>2
<1>8. Types'
  BY <1>1, <1>6, <1>7 DEF Types
<1>9. SlotsCounted'
  BY <1>1, <1>2, <1>7, SizeTyped DEF SlotsCounted, LeaseNeeds
<1>10. SetupInv'
  <2>1. phase' = "setup" => T1' \in InUse(timers') /\ timers'[T1'].seconds = T1_SECONDS
    BY <1>1, <1>6, <1>7 DEF SetupInv
  <2> QED
    BY <1>1, <2>1, ConstantsTyped DEF SetupInv
<1> QED
  BY <1>8, <1>9, <1>10 DEF SharingInv

LEMMA NakShares ==
  ASSUME SharingInv, GetNak
  PROVE  SharingInv'
<1>1. /\ Types /\ SlotsCounted /\ SetupInv
      /\ phase = "serve" /\ state \in {"RENEWING", "REBINDING"} /\ refusals < MAX_REFUSALS
      /\ state' = "INIT" /\ refusals' = refusals + 1
      /\ UNCHANGED <<timers, T1, T2, timer, phase, streams, turn, polled>>
  BY DEF SharingInv, GetNak, SetupInv
<1>2. refusals \in Nat /\ Size(timers) \in Nat
  BY <1>1, ConstantsTyped, SizeTyped DEF Types
<1>3. Types'
  BY <1>1, <1>2, ConstantsTyped DEF Types
<1>4. SlotsCounted'
  <2>1. Size(timers) <= refusals + 1
    BY <1>1, <1>2 DEF SlotsCounted, LeaseNeeds
  <2>2. Size(timers') = Size(timers)
    BY <1>1
  <2> QED
    BY <1>1, <1>2, <2>1, <2>2 DEF SlotsCounted, LeaseNeeds
<1>5. SetupInv'
  BY <1>1 DEF SetupInv
<1> QED
  BY <1>3, <1>4, <1>5 DEF SharingInv

LEMMA LeaseHandled ==
  ASSUME SharingInv, handleDHCPtimers
  PROVE  SharingInv'
<1>1. /\ Types /\ SlotsCounted /\ SetupInv /\ turn = LeaseTurn
      /\ phase' = IF phase = "setup" /\ state' = "BOUND" THEN "ready" ELSE phase
      /\ turn' = 0
      /\ UNCHANGED <<T1, T2, timer, streams, refusals>>
  BY DEF SharingInv, handleDHCPtimers
<1>2. refusals \in Nat /\ Size(timers) \in Nat /\ timers \in Pools /\ phase \in {"setup", "serve"}
  <2>1. LeaseTurn # 0
    BY ConstantsTyped DEF LeaseTurn
  <2> QED
    BY <1>1, <2>1, ConstantsTyped, SizeTyped DEF Types, SetupInv
<1>3. \/ /\ state = "BOUND" /\ Done(timers, T1)
         /\ state' = "RENEWING" /\ timers' = Release(timers, T1)
      \/ /\ state = "RENEWING" /\ Done(timers, T2)
         /\ state' = "REBINDING" /\ timers' = Release(timers, T2)
      \/ state' = state /\ timers' = timers
  BY DEF handleDHCPtimers
<1>4. ASSUME NEW i, Done(timers, i), timers' = Release(timers, i)
      PROVE  timers' \in Pools /\ Size(timers') + 1 = Size(timers) /\ Size(timers') \in Nat
  BY <1>2, <1>4, ReleaseSays, SizeTyped DEF Done
\* In setup the time is not over yet.
<1>5. phase = "setup" => state' = state /\ timers' = timers
  BY <1>1, <1>3 DEF SetupInv, Done
<1>6. timers' \in Pools /\ SlotsCounted'
  <2>1. CASE state = "BOUND" /\ Done(timers, T1) /\ state' = "RENEWING" /\ timers' = Release(timers, T1)
    <3>1. timers' \in Pools /\ Size(timers') + 1 = Size(timers) /\ Size(timers') \in Nat
      BY <1>4, <2>1
    <3>2. phase = "serve" /\ phase' = "serve"
      BY <1>1, <1>2, <1>5, <2>1
    <3> QED
      BY <1>1, <1>2, <2>1, <3>1, <3>2 DEF SlotsCounted, LeaseNeeds
  <2>2. CASE state = "RENEWING" /\ Done(timers, T2) /\ state' = "REBINDING" /\ timers' = Release(timers, T2)
    <3>1. timers' \in Pools /\ Size(timers') + 1 = Size(timers) /\ Size(timers') \in Nat
      BY <1>4, <2>2
    <3>2. phase = "serve" /\ phase' = "serve"
      BY <1>1, <1>2, <1>5, <2>2
    <3> QED
      BY <1>1, <1>2, <2>2, <3>1, <3>2 DEF SlotsCounted, LeaseNeeds
  <2>3. CASE state' = state /\ timers' = timers
    <3>1. phase # "wait" /\ phase' # "wait" /\ LeaseNeeds' = LeaseNeeds /\ Size(timers') = Size(timers)
      BY <1>1, <1>2, <2>3 DEF LeaseNeeds
    <3> QED
      BY <1>1, <1>2, <2>3, <3>1 DEF SlotsCounted
  <2> QED
    BY <1>3, <2>1, <2>2, <2>3
<1>7. Types'
  <2>1. 0 \in 0 .. LeaseTurn
    BY ConstantsTyped DEF LeaseTurn
  <2>2. state' \in {"INIT", "BOUND", "RENEWING", "REBINDING"}
    BY <1>1, <1>3 DEF Types
  <2> QED
    BY <1>1, <1>2, <1>6, <2>1, <2>2 DEF Types
<1>8. SetupInv'
  BY <1>1, <1>2, <1>5 DEF SetupInv
<1> QED
  BY <1>6, <1>7, <1>8 DEF SharingInv

\* The clients' part of a turn moves no slot.
LEMMA ConnectionShares ==
  ASSUME SharingInv, NEW s \in StreamIds, Connection(s) \/ Serve(s)
  PROVE  SharingInv'
<1>1. /\ Types /\ SlotsCounted /\ SetupInv /\ phase = "serve"
      /\ UNCHANGED <<T1, T2, state, timer, phase, turn, polled, refusals>>
  BY DEF SharingInv, Connection, Serve
<1>2. timers' \in Pools /\ InUse(timers') = InUse(timers)
  BY <1>1, ConstantsTyped, ResetSays DEF Types, Connection, Serve
<1>3. streams' \in [StreamIds -> [at : {"free", "handshake", "data"}, timer : Slots]]
  BY <1>1 DEF Types, Connection, Serve
<1>4. Types'
  BY <1>1, <1>2, <1>3 DEF Types
<1>5. SlotsCounted'
  BY <1>1, <1>2 DEF SlotsCounted, LeaseNeeds, Size
<1>6. SetupInv'
  BY <1>1 DEF SetupInv
<1> QED
  BY <1>4, <1>5, <1>6 DEF SharingInv

\* A stream that sets its timer again gives the slot of the old one back first.
LEMMA StreamHandled ==
  ASSUME Roomy, SharingInv, handleTCPtimers
  PROVE  SharingInv'
<1>1. /\ Types /\ SlotsCounted /\ SetupInv /\ turn \in StreamIds
      /\ turn' = turn + 1 /\ polled' = polled \cup {turn}
      /\ UNCHANGED <<T1, T2, state, timer, phase, refusals>>
  BY DEF SharingInv, handleTCPtimers
<1>2. timers \in Pools
  BY <1>1 DEF Types
<1>3. turn' \in 0 .. LeaseTurn /\ turn # 0 /\ turn # LeaseTurn
  BY <1>1, ConstantsTyped DEF StreamIds, LeaseTurn
<1>4. CASE ~(streams[turn].at = "data" /\ Done(timers, streams[turn].timer))
  <2>1. timers' = timers /\ streams' = streams
    BY <1>4 DEF handleTCPtimers
  <2>2. Types'
    BY <1>1, <1>3, <2>1 DEF Types
  <2>3. SlotsCounted'
    BY <1>1, <2>1 DEF SlotsCounted, LeaseNeeds
  <2>4. SetupInv'
    BY <1>1, <1>3, <2>1 DEF SetupInv
  <2> QED
    BY <2>2, <2>3, <2>4 DEF SharingInv
<1>5. CASE streams[turn].at = "data" /\ Done(timers, streams[turn].timer)
  <2> DEFINE released == Release(timers, streams[turn].timer)
  <2>1. /\ timers' = Set(released, RETRANSMIT_PERIOD)
        /\ streams' = [streams EXCEPT ![turn].timer = SlotSet(released)]
    BY <1>5 DEF handleTCPtimers
  <2>2. released \in Pools /\ Size(released) + 1 = Size(timers)
    BY <1>2, <1>5, ReleaseSays DEF Done
  <2>3. Size(released) < MAX_TIMERS
    <3>1. phase = "serve"
      BY <1>1, <1>3, <1>5 DEF SetupInv, Types
    <3>2. refusals \in Nat /\ refusals <= MAX_REFUSALS /\ Size(released) \in Nat
      BY <1>1, ConstantsTyped, SizeTyped DEF Types
    <3>3. Size(timers) <= refusals + 2
      <4>1. Size(timers) \in Nat /\ Size(timers) <= refusals + LeaseNeeds + 0
        BY <1>1, <3>1, SizeTyped DEF SlotsCounted
      <4>2. LeaseNeeds \in {0, 1, 2}
        BY DEF LeaseNeeds
      <4> QED
        BY <3>2, <4>1, <4>2
    <3> QED
      BY <2>2, <3>2, <3>3, ConstantsTyped DEF Roomy
  <2> HIDE DEF released
  <2>4. timers' \in Pools /\ SlotSet(released) \in Slots /\ Size(timers') = Size(timers)
    BY <2>1, <2>2, <2>3, ConstantsTyped, SetSays
  <2>5. streams' \in [StreamIds -> [at : {"free", "handshake", "data"}, timer : Slots]]
    BY <1>1, <2>1, <2>4 DEF Types
  <2>6. Types'
    BY <1>1, <1>3, <2>4, <2>5 DEF Types
  <2>7. SlotsCounted'
    BY <1>1, <2>4 DEF SlotsCounted, LeaseNeeds
  <2>8. SetupInv'
    BY <1>1, <1>3, <1>5 DEF SetupInv, Types
  <2> QED
    BY <2>6, <2>7, <2>8 DEF SharingInv
<1> QED
  BY <1>4, <1>5

LEMMA RoundGone == ASSUME SharingInv, GoRound PROVE SharingInv'
<1>1. /\ Types /\ SlotsCounted /\ SetupInv /\ phase \in {"setup", "serve"} /\ turn' = 1
      /\ UNCHANGED <<timers, T1, T2, state, timer, phase, streams, polled, refusals>>
  BY DEF SharingInv, GoRound
<1>2. 1 \in 0 .. LeaseTurn
  BY ConstantsTyped DEF LeaseTurn
<1> QED
  BY <1>1, <1>2 DEF SharingInv, Types, SlotsCounted, LeaseNeeds, SetupInv

\* main sets its timer while the lease has two slots and nothing was refused.
LEMMA ReadyShares ==
  ASSUME Roomy, SharingInv, Ready
  PROVE  SharingInv'
<1>1. /\ Types /\ SlotsCounted /\ SetupInv /\ phase = "ready" /\ phase' = "wait"
      /\ timer' = SlotSet(timers) /\ timers' = Set(timers, WAIT_SECONDS)
      /\ UNCHANGED <<T1, T2, state, streams, turn, polled, refusals>>
  BY DEF SharingInv, Ready
<1>2. state = "BOUND" /\ refusals = 0 /\ turn = 0
  BY <1>1 DEF SetupInv
<1>3. Size(timers) \in Nat /\ timers \in Pools
  BY <1>1, SizeTyped DEF Types
<1>4. Size(timers) <= 2
  BY <1>1, <1>2, <1>3 DEF SlotsCounted, LeaseNeeds
<1>5. Size(timers) < MAX_TIMERS
  BY <1>3, <1>4, ConstantsTyped DEF Roomy
<1>6. timer' \in Slots /\ timers' \in Pools /\ Size(timers') = Size(timers) + 1
  BY <1>1, <1>3, <1>5, ConstantsTyped, SetSays
<1>7. Types'
  BY <1>1, <1>6 DEF Types
<1>8. SlotsCounted'
  <2>1. refusals' = 0 /\ LeaseNeeds' = 2 /\ phase' = "wait"
    BY <1>1, <1>2 DEF LeaseNeeds
  <2>2. Size(timers') <= 3
    BY <1>3, <1>4, <1>6
  <2> QED
    BY <2>1, <2>2 DEF SlotsCounted
<1>9. SetupInv'
  BY <1>1, <1>2 DEF SetupInv
<1> QED
  BY <1>7, <1>8, <1>9 DEF SharingInv

LEMMA WaitEnds == ASSUME SharingInv, TimerDone PROVE SharingInv'
<1>1. /\ Types /\ SlotsCounted /\ SetupInv /\ phase = "wait" /\ phase' = "serve"
      /\ timer \in InUse(timers) /\ timers' = Release(timers, timer)
      /\ UNCHANGED <<T1, T2, state, timer, streams, turn, polled, refusals>>
  BY DEF SharingInv, TimerDone, Done
<1>2. state = "BOUND" /\ refusals = 0
  BY <1>1 DEF SetupInv
<1>3. timers' \in Pools /\ Size(timers') + 1 = Size(timers) /\ Size(timers') \in Nat
  BY <1>1, ReleaseSays, SizeTyped DEF Types
<1>4. Types'
  BY <1>1, <1>3 DEF Types
<1>5. SlotsCounted'
  BY <1>1, <1>2, <1>3 DEF SlotsCounted, LeaseNeeds
<1>6. SetupInv'
  BY <1>1 DEF SetupInv
<1> QED
  BY <1>4, <1>5, <1>6 DEF SharingInv

\* A second of the setup passes after the lease's handler ran, so that handler
\* finds T1 running when it is bound.
LEMMA SecondShares == ASSUME SharingInv, Second PROVE SharingInv'
<1>1. /\ Types /\ SlotsCounted /\ SetupInv /\ timers' = Tick(timers) /\ polled' = {}
      /\ phase # "wait" => polled = 1 .. LeaseTurn
      /\ UNCHANGED <<T1, T2, state, timer, phase, streams, turn, refusals>>
  BY DEF SharingInv, Second
<1>2. /\ timers' \in Pools /\ InUse(timers') = InUse(timers)
      /\ \A i \in InUse(timers) : timers[i].seconds > 0 => timers'[i].seconds = timers[i].seconds - 1
  BY <1>1, TickSays DEF Types
<1>3. Types'
  BY <1>1, <1>2 DEF Types
<1>4. SlotsCounted'
  BY <1>1, <1>2 DEF SlotsCounted, LeaseNeeds, Size
<1>5. SetupInv'
  <2>1. ASSUME phase = "setup", state = "BOUND"
        PROVE  T1 \in InUse(timers') /\ timers'[T1].seconds >= 1
    <3>1. LeaseTurn \in polled
      BY <1>1, <2>1, ConstantsTyped DEF LeaseTurn
    <3>2. T1 \in InUse(timers) /\ timers[T1].seconds >= 2
      BY <1>1, <2>1, <3>1 DEF SetupInv
    <3>3. timers[T1].seconds \in Nat
      BY <1>1, PoolAssumption DEF Types, Pools, Timer
    <3>4. timers'[T1].seconds = timers[T1].seconds - 1
      BY <1>2, <3>2, <3>3
    <3> QED
      BY <1>2, <3>2, <3>3, <3>4
  <2> QED
    BY <1>1, <2>1 DEF SetupInv
<1> QED
  BY <1>3, <1>4, <1>5 DEF SharingInv

LEMMA PoolShared == ASSUME Roomy PROVE Spec => []SharingInv
<1>1. SharingInv /\ [Next]_vars => SharingInv'
  <2> SUFFICES ASSUME SharingInv, [Next]_vars PROVE SharingInv'
    OBVIOUS
  <2>1. ASSUME UNCHANGED vars PROVE SharingInv'
    BY <2>1 DEF vars, SharingInv, Types, SlotsCounted, LeaseNeeds, SetupInv
  <2> QED
    BY <2>1, AckShares, NakShares, LeaseHandled, ConnectionShares, StreamHandled, RoundGone,
       ReadyShares, WaitEnds, SecondShares DEF Next
<1> QED
  BY <1>1, InitShares, PTL DEF Spec

\* For any number of streams, durations and width of the counter, if the pool has
\* three slots and two more than refused renewals: no RTCsetTimer of the lease, of
\* main or of a stream ever finds it full, though streams begin with another's index,
\* release a timer that is not theirs and set it again in a slot of their own.
THEOREM PoolIsEnough == ASSUME Roomy PROVE Spec => []PoolSuffices
<1>1. SharingInv => PoolSuffices
  <2> SUFFICES ASSUME SharingInv PROVE PoolSuffices
    OBVIOUS
  <2>1. -1 \notin Slots
    BY PoolAssumption DEF Slots
  <2>2. \A s \in StreamIds : streams[s].timer \in Slots
    BY DEF SharingInv, Types
  <2>3. T1 \in Slots /\ T2 \in Slots /\ timer \in Slots
    BY DEF SharingInv, Types
  <2> QED
    BY <2>1, <2>2, <2>3 DEF PoolSuffices
<1> QED
  BY <1>1, PoolShared, PTL

=============================================================================
