-------------------------- MODULE DhcpClientProofs --------------------------
(***************************************************************************)
(* That the client only uses an address the server gave to it, and that    *)
(* its two handles name the timers of its lease, whatever messages arrive  *)
(* and whenever the power fails.                                           *)
(***************************************************************************)
EXTENDS DhcpClient, NumberProofs, FiniteSetTheorems

-----------------------------------------------------------------------------
(* Messages.                                                               *)

Addresses == IPs \cup {OtherIP, TornIP, NoAddr}
Servers == Routers \cup {Server, TornIP, NoAddr}

LEMMA DiscoverSays == Discover \in Msg /\ Discover.type = "DISCOVER" /\ Discover.xid = "latest"
  BY DEF Discover, Msg, XIDs

LEMMA RequestSays ==
  ASSUME NEW xid \in XIDs, NEW ip \in Addresses, NEW server \in Servers
  PROVE  LET r == Request(xid, ip, server) IN
         r \in Msg /\ r.type = "REQUEST" /\ r.xid = xid /\ r.ip = ip
  BY DEF Request, Discover, Msg, Addresses, Servers

LEMMA FirstDiscoverSays ==
  LET d == [Discover EXCEPT !.xid = "first"] IN
  d \in Msg /\ d.type = "DISCOVER" /\ d.xid = "first"
  BY DEF Discover, Msg, XIDs

LEMMA ForeignIsOld == \A m \in Foreign : m.xid = "old"
  BY DEF Foreign, Discover

LEMMA OfferSays ==
  ASSUME NEW m \in Msg, NEW ip \in IPs
  PROVE  LET o == [m EXCEPT !.type = "OFFER", !.ip = ip, !.server = Server] IN
         o \in Msg /\ o.type = "OFFER"
  BY DEF Msg

LEMMA NakSays ==
  ASSUME NEW m \in Msg
  PROVE  LET n == [m EXCEPT !.type = "NAK", !.server = Server] IN
         n \in Msg /\ n.type = "NAK" /\ n.xid = m.xid
  BY DEF Msg

-----------------------------------------------------------------------------
(* The pool.                                                               *)

Pools == [Slots -> [inUse : BOOLEAN, seconds : 0 .. SECONDS_MOD - 1]]

LEMMA SlotSetFree ==
  ASSUME NEW p, InUse(p) # Slots
  PROVE  SlotSet(p) \in Slots \ InUse(p)
<1>1. Slots \ InUse(p) \in SUBSET Nat /\ Slots \ InUse(p) # {}
  BY PoolAssumption DEF Slots, InUse
<1>2. Lowest(Slots \ InUse(p)) \in Slots \ InUse(p)
  BY <1>1, LowestIsFirst
<1> QED
  BY <1>2 DEF SlotSet

LEMMA SlotSetTyped == ASSUME NEW p PROVE SlotSet(p) \in Slots \cup {-1}
<1>1. CASE InUse(p) = Slots
  BY <1>1 DEF SlotSet
<1>2. CASE InUse(p) # Slots
  BY <1>2, SlotSetFree
<1> QED
  BY <1>1, <1>2

LEMMA SetTyped ==
  ASSUME NEW p \in Pools, NEW s \in 0 .. SECONDS_MOD - 1
  PROVE  /\ Set(p, s) \in Pools
         /\ InUse(p) # Slots => InUse(Set(p, s)) = InUse(p) \cup {SlotSet(p)}
<1>1. CASE InUse(p) = Slots
  BY <1>1 DEF Set
<1>2. CASE InUse(p) # Slots
  <2>1. SlotSet(p) \in Slots
    BY <1>2, SlotSetFree
  <2> DEFINE i == SlotSet(p)
             q == [p EXCEPT ![i] = [inUse |-> TRUE, seconds |-> s]]
  <2>2. Set(p, s) = q
    BY <1>2 DEF Set
  <2>3. i \in Slots
    BY <2>1
  <2> HIDE DEF i
  <2>4. q \in Pools
    BY <2>3 DEF Pools
  <2>5. \A j \in Slots : q[j].inUse = IF j = i THEN TRUE ELSE p[j].inUse
    BY <2>3 DEF Pools
  <2>6. InUse(q) = InUse(p) \cup {i}
    BY <2>3, <2>5 DEF InUse
  <2> QED
    BY <2>2, <2>4, <2>6 DEF i
<1> QED
  BY <1>1, <1>2

LEMMA ResetTyped ==
  ASSUME NEW p \in Pools, NEW i, NEW s \in 0 .. SECONDS_MOD - 1
  PROVE  Reset(p, i, s) \in Pools /\ InUse(Reset(p, i, s)) = InUse(p)
<1>1. CASE i \notin InUse(p)
  BY <1>1 DEF Reset
<1>2. CASE i \in InUse(p)
  <2> DEFINE q == [p EXCEPT ![i].seconds = s]
  <2>1. Reset(p, i, s) = q /\ i \in Slots
    BY <1>2 DEF Reset, InUse
  <2>2. q \in Pools /\ \A j \in Slots : q[j].inUse = p[j].inUse
    BY <2>1 DEF Pools
  <2>3. InUse(q) = InUse(p)
    BY <2>2 DEF InUse
  <2> QED
    BY <2>1, <2>2, <2>3
<1> QED
  BY <1>1, <1>2

LEMMA ReleaseTyped ==
  ASSUME NEW p \in Pools, NEW i
  PROVE  Release(p, i) \in Pools /\ InUse(Release(p, i)) = InUse(p) \ {i}
<1> DEFINE q == [p EXCEPT ![i].inUse = FALSE]
<1>1. q \in Pools
  BY DEF Pools
<1>2. \A j \in Slots : q[j].inUse = IF j = i THEN FALSE ELSE p[j].inUse
  BY DEF Pools
<1>3. InUse(q) = InUse(p) \ {i}
  BY <1>2 DEF InUse
<1> QED
  BY <1>1, <1>3 DEF Release

LEMMA TickTyped ==
  ASSUME NEW p \in Pools
  PROVE  Tick(p) \in Pools /\ InUse(Tick(p)) = InUse(p)
<1>1. ASSUME NEW i \in Slots
      PROVE  /\ Tick(p)[i] \in [inUse : BOOLEAN, seconds : 0 .. SECONDS_MOD - 1]
             /\ Tick(p)[i].inUse = p[i].inUse
  <2>1. p[i] \in [inUse : BOOLEAN, seconds : 0 .. SECONDS_MOD - 1]
    BY DEF Pools
  <2> DEFINE s == p[i].seconds
             t == (s - 1) % SECONDS_MOD
  <2>2. t \in 0 .. SECONDS_MOD - 1
    <3>1. s \in Int /\ SECONDS_MOD \in Nat \ {0}
      BY <2>1, PoolAssumption
    <3> QED
      BY <3>1, SMT
  <2>3. Tick(p)[i] = IF p[i].inUse THEN [p[i] EXCEPT !.seconds = t] ELSE p[i]
    BY DEF Tick
  <2> HIDE DEF t
  <2> QED
    BY <2>1, <2>2, <2>3
<1>2. Tick(p) = [i \in Slots |-> Tick(p)[i]]
  BY DEF Tick
<1>3. Tick(p) \in Pools
  BY <1>1, <1>2 DEF Pools
<1>4. InUse(Tick(p)) = InUse(p)
  BY <1>1 DEF InUse
<1> QED
  BY <1>3, <1>4

LEMMA UnusedTyped == Unused \in Pools /\ InUse(Unused) = {}
  BY PoolAssumption DEF Unused, Pools, InUse

-----------------------------------------------------------------------------
(* The address.  What is behind it: the server says DHCP_ACK only for an     *)
(* address it has noted down.  That the lease runs out moves the note, and   *)
(* nothing but a restart takes one away, when the client has no address and  *)
(* the network no messages.                                                  *)

Given == bindings \cup ranOut

Acknowledged ==
    \A m \in net : m.type = "DHCP_ACK" => m.ip \in Given /\ m.server = Server

LeaseInv == TypeInv /\ Acknowledged /\ AddressLeased

Records == [assignedIP : IPs \cup {TornIP, broadcastIP},
            serverIP : Routers \cup {Server, TornIP, broadcastIP}]

LEMMA InitLeases == Init => LeaseInv
<1> SUFFICES ASSUME Init PROVE LeaseInv
  OBVIOUS
<1>1. TypeInv
  <2>1. timers \in Pools
    BY UnusedTyped DEF Init
  <2>2. {T1, T2} \subseteq Slots \cup {-1}
    BY PoolAssumption DEF Init, Slots
  <2>3. net \subseteq Msg
    BY FirstDiscoverSays DEF Init
  <2> QED
    BY <2>1, <2>2, <2>3, ClientAssumption DEF Init, TypeInv, DHCPstate, Pools, Times
<1>2. Acknowledged
  BY FirstDiscoverSays DEF Init, Acknowledged
<1> QED
  BY <1>1, <1>2 DEF LeaseInv, AddressLeased, Configured, Init

LEMMA OfferLeases ==
  ASSUME LeaseInv, NEW m \in net, GetOffer(m), UNCHANGED <<leased, faults>>
  PROVE  LeaseInv'
<1> DEFINE r == Request(m.xid, m.ip, m.server)
<1>1. r \in Msg /\ r.type = "REQUEST"
  <2>1. m \in Msg
    BY DEF LeaseInv, TypeInv
  <2>2. m.xid \in XIDs /\ m.ip \in Addresses /\ m.server \in Servers
    BY <2>1 DEF Msg, Addresses, Servers
  <2> QED
    BY <2>2, RequestSays
<1>2. net' = net \cup {r} /\ state' = "REQUESTING"
  BY DEF GetOffer
<1> HIDE DEF r
<1>3. TypeInv'
  BY <1>1, <1>2 DEF LeaseInv, TypeInv, GetOffer, DHCPstate, lease, addresses, leased, history, faults
<1>4. Acknowledged'
  BY <1>1, <1>2 DEF LeaseInv, Acknowledged, Given, leased
<1> QED
  BY <1>2, <1>3, <1>4 DEF LeaseInv, AddressLeased, Configured

LEMMA LeaseTimersTyped ==
  ASSUME LeaseInv, NEW m, LeaseTimers(m)
  PROVE  timers' \in Pools /\ {T1, T2}' \subseteq Slots \cup {-1}
<1>1. timers \in Pools /\ {T1, T2} \subseteq Slots \cup {-1}
  BY DEF LeaseInv, TypeInv, Pools
<1> DEFINE started == IF "T1" \in m.times THEN Set(timers, T1_SECONDS) ELSE timers
<1>2. T1_SECONDS \in 0 .. SECONDS_MOD - 1 /\ T2_SECONDS \in 0 .. SECONDS_MOD - 1
  BY ClientAssumption
<1>3. started \in Pools
  BY <1>1, <1>2, SetTyped
<1>4. T1' = IF "T1" \in m.times THEN SlotSet(timers) ELSE T1
  BY DEF LeaseTimers
<1>5. CASE "T2" \notin m.times \/ state = "RENEWING"
  <2>1. T2' = T2 /\ timers' \in {started, Reset(started, T2, T2_SECONDS)}
    BY <1>5 DEF LeaseTimers
  <2> QED
    BY <2>1, <1>1, <1>2, <1>3, <1>4, ResetTyped, SlotSetTyped
<1>6. CASE "T2" \in m.times /\ state # "RENEWING"
  <2>1. T2' = SlotSet(started) /\ timers' = Set(started, T2_SECONDS)
    BY <1>6 DEF LeaseTimers
  <2> QED
    BY <2>1, <1>1, <1>2, <1>3, <1>4, SetTyped, SlotSetTyped
<1> QED
  BY <1>5, <1>6

LEMMA RouterInTyped ==
  ASSUME LeaseInv, NEW m \in net, m.type = "DHCP_ACK"
  PROVE  RouterIn(m) \in Routers \cup {Server} /\ m.ip \in Given /\ m.ip \in IPs
<1>1. m \in Msg /\ m.server = Server /\ m.ip \in Given /\ Given \subseteq IPs
  BY DEF LeaseInv, TypeInv, Acknowledged, Given
<1>2. m.router \in Routers \cup {NoAddr}
  BY <1>1 DEF Msg
<1> QED
  BY <1>1, <1>2 DEF RouterIn

\* The history stays within its types.
LEMMA BeginTyped ==
  ASSUME LeaseInv, NEW m \in Msg, BeginTimers(m)
  PROVE  begun' \subseteq Times /\ leaks' \in Nat
<1>1. begun \subseteq Times /\ leaks \in Nat /\ m.times \subseteq Times
  BY DEF LeaseInv, TypeInv, Msg
<1> QED
  BY <1>1 DEF BeginTimers, Times

LEMMA AckLeases ==
  ASSUME LeaseInv, NEW m \in net, GetAck(m), UNCHANGED <<leased, faults>>
  PROVE  LeaseInv'
<1>1. /\ m.type = "DHCP_ACK" /\ state' = "BOUND" /\ LeaseTimers(m) /\ BeginTimers(m)
      /\ localIP' = m.ip /\ routerIP' = RouterIn(m)
      /\ stored' = [assignedIP |-> m.ip, serverIP |-> RouterIn(m)]
      /\ UNCHANGED <<expectedID, net, bindings, ranOut, expiries, restarts>>
  BY DEF GetAck, leased, faults
<1>2. RouterIn(m) \in Routers \cup {Server} /\ m.ip \in Given /\ m.ip \in IPs
  BY <1>1, RouterInTyped
<1>3. timers' \in Pools /\ {T1, T2}' \subseteq Slots \cup {-1}
  BY <1>1, LeaseTimersTyped
<1>4. stored' \in Records
  BY <1>1, <1>2 DEF Records
<1>5. begun' \subseteq Times /\ leaks' \in Nat
  BY <1>1, BeginTyped DEF LeaseInv, TypeInv
<1>6. TypeInv'
  BY <1>1, <1>2, <1>3, <1>4, <1>5 DEF LeaseInv, TypeInv, DHCPstate, Pools, Records
<1>7. Acknowledged'
  BY <1>1 DEF LeaseInv, Acknowledged, Given
<1> QED
  BY <1>1, <1>2, <1>6, <1>7 DEF LeaseInv, AddressLeased, Given

\* What a new transaction leaves of the network.
LEMMA AgedAcknowledged ==
  ASSUME LeaseInv, NEW m \in Msg, m.type # "DHCP_ACK",
         net' = Aged \cup {m}, UNCHANGED leased
  PROVE  (net \subseteq Msg)' /\ Acknowledged'
  BY DEF LeaseInv, TypeInv, Acknowledged, Given, leased, Aged

LEMMA NakLeases ==
  ASSUME LeaseInv, NEW m \in net, GetNak(m), UNCHANGED <<leased, faults>>
  PROVE  LeaseInv'
<1>1. /\ state' = "SELECTING" /\ expectedID' = "latest" /\ net' = Aged \cup {Discover}
      /\ leaks' \in {leaks, leaks + 1}
      /\ UNCHANGED <<T1, T2, timers, localIP, routerIP, stored, leased, begun, expiries, restarts>>
  BY DEF GetNak, LoseTimers, faults, lease, addresses
<1>2. (net \subseteq Msg)' /\ Acknowledged'
  BY <1>1, DiscoverSays, AgedAcknowledged
<1>3. TypeInv'
  BY <1>1, <1>2 DEF LeaseInv, TypeInv, DHCPstate, leased
<1> QED
  BY <1>1, <1>2, <1>3 DEF LeaseInv, AddressLeased, Configured

\* A reply to another host is not of the transaction.
LEMMA ForeignIgnored ==
  ASSUME LeaseInv, NEW m \in net \cup Foreign, DHCPprocessor(m)
  PROVE  m \in net /\ m.xid = expectedID
<1>1. expectedID \in {"first", "latest"} /\ m.xid = expectedID
  BY DEF LeaseInv, TypeInv, DHCPprocessor
<1> QED
  BY <1>1, ForeignIsOld

LEMMA RenewLeases == ASSUME LeaseInv, Renew PROVE LeaseInv'
<1> DEFINE r == Request("latest", localIP, routerIP)
<1>1. /\ state = "BOUND" /\ state' = "RENEWING" /\ timers' = Release(timers, T1)
      /\ expectedID' = "latest" /\ net' = Aged \cup {r}
      /\ UNCHANGED <<T1, T2, localIP, routerIP, stored, leased, history, expiries, restarts>>
  BY DEF Renew, addresses, faults
<1>2. r \in Msg /\ r.type = "REQUEST"
  <2>1. "latest" \in XIDs /\ localIP \in Addresses /\ routerIP \in Servers
    BY DEF LeaseInv, TypeInv, Addresses, Servers, XIDs
  <2> QED
    BY <2>1, RequestSays
<1> HIDE DEF r
<1>3. (net \subseteq Msg)' /\ Acknowledged'
  BY <1>1, <1>2, AgedAcknowledged
<1>4. timers' \in Pools
  BY <1>1, ReleaseTyped DEF LeaseInv, TypeInv, Pools
<1>5. TypeInv'
  BY <1>1, <1>3, <1>4 DEF LeaseInv, TypeInv, DHCPstate, Pools, leased, history
<1> QED
  BY <1>1, <1>3, <1>5 DEF LeaseInv, AddressLeased, Configured, leased

LEMMA RebindLeases == ASSUME LeaseInv, Rebind PROVE LeaseInv'
<1> DEFINE r == Request("latest", localIP, NoAddr)
<1>1. /\ state = "RENEWING" /\ state' = "REBINDING" /\ timers' = Release(timers, T2)
      /\ expectedID' = "latest" /\ net' = Aged \cup {r}
      /\ UNCHANGED <<T1, T2, localIP, routerIP, stored, leased, history, expiries, restarts>>
  BY DEF Rebind, addresses, faults
<1>2. r \in Msg /\ r.type = "REQUEST"
  <2>1. "latest" \in XIDs /\ localIP \in Addresses /\ NoAddr \in Servers
    BY DEF LeaseInv, TypeInv, Addresses, Servers, XIDs
  <2> QED
    BY <2>1, RequestSays
<1> HIDE DEF r
<1>3. (net \subseteq Msg)' /\ Acknowledged'
  BY <1>1, <1>2, AgedAcknowledged
<1>4. timers' \in Pools
  BY <1>1, ReleaseTyped DEF LeaseInv, TypeInv, Pools
<1>5. TypeInv'
  BY <1>1, <1>3, <1>4 DEF LeaseInv, TypeInv, DHCPstate, Pools, leased, history
<1> QED
  BY <1>1, <1>3, <1>5 DEF LeaseInv, AddressLeased, Configured, leased

LEMMA SecondLeases == ASSUME LeaseInv, Second PROVE LeaseInv'
<1>1. /\ timers' = Tick(timers)
      /\ UNCHANGED <<state, expectedID, T1, T2, localIP, routerIP, stored, net, leased,
                     history, expiries, restarts>>
  BY DEF Second, addresses, faults
<1>2. timers' \in Pools
  BY <1>1, TickTyped DEF LeaseInv, TypeInv, Pools
<1>3. TypeInv'
  BY <1>1, <1>2 DEF LeaseInv, TypeInv, Pools, leased, history
<1> QED
  BY <1>1, <1>3 DEF LeaseInv, Acknowledged, AddressLeased, Given, leased

\* The notes only move, or grow.
LEMMA BindGives ==
  ASSUME LeaseInv, NEW ip \in IPs, Bind(ip)
  PROVE  Given' = Given \cup {ip} /\ (bindings \subseteq IPs)' /\ (ranOut \subseteq IPs)'
  BY DEF Bind, Given, LeaseInv, TypeInv

\* A step of the server leaves the client alone.
LEMMA NotesKept ==
  ASSUME LeaseInv,
         UNCHANGED <<state, expectedID, T1, T2, timers, localIP, routerIP, stored, history, restarts>>,
         (net \subseteq Msg)', Acknowledged', Given \subseteq Given',
         (bindings \subseteq IPs)', (ranOut \subseteq IPs)', (expiries \in 0 .. MAX_EXPIRIES)'
  PROVE  LeaseInv'
<1>1. TypeInv'
  BY DEF LeaseInv, TypeInv, history
<1> QED
  BY <1>1 DEF LeaseInv, AddressLeased, Given

LEMMA ServeLeases == ASSUME LeaseInv, NEW m \in net, Serve(m) PROVE LeaseInv'
<1>1. UNCHANGED <<state, expectedID, T1, T2, timers, localIP, routerIP, stored, history,
                  expiries, restarts>>
  BY DEF Serve, lease, addresses, faults
<1>2. m \in Msg /\ net \subseteq Msg /\ expiries \in 0 .. MAX_EXPIRIES
      /\ bindings \subseteq IPs /\ ranOut \subseteq IPs
  BY DEF LeaseInv, TypeInv
<1> SUFFICES ASSUME NEW a \in Msg, net' = net \cup {a},
                    a.type = "DHCP_ACK" => a.ip \in Given' /\ a.server = Server,
                    Given \subseteq Given', (bindings \subseteq IPs)', (ranOut \subseteq IPs)'
             PROVE  LeaseInv'
  <2>1. CASE Offer(m)
    <3>1. PICK ip \in IPs :
            /\ net' = net \cup {[m EXCEPT !.type = "OFFER", !.ip = ip, !.server = Server]}
            /\ Bind(ip)
      BY <2>1 DEF Offer, ServerSends
    <3> QED
      BY <3>1, <1>2, OfferSays, BindGives
  <2>2. CASE Acknowledge(m)
    <3>1. PICK o \in AckOptions :
            net' = net \cup {[m EXCEPT !.type = "DHCP_ACK", !.server = Server,
                                       !.router = o.router, !.times = o.times]}
      BY <2>2 DEF Acknowledge, ServerSends
    <3>2. Bind(m.ip) /\ m.ip \in IPs
      BY <2>2 DEF Acknowledge
    <3> DEFINE a == [m EXCEPT !.type = "DHCP_ACK", !.server = Server,
                              !.router = o.router, !.times = o.times]
    <3>3. o.router \in Routers \cup {NoAddr} /\ o.times \in SUBSET Times
      BY ClientAssumption
    <3>4. a \in Msg /\ a.ip = m.ip /\ a.server = Server
      BY <1>2, <3>3 DEF Msg
    <3> HIDE DEF a
    <3>5. net' = net \cup {a}
      BY <3>1 DEF a
    <3> QED
      BY <3>2, <3>4, <3>5, BindGives
  <2>3. CASE Refuse(m)
    <3>1. /\ net' = net \cup {[m EXCEPT !.type = "NAK", !.server = Server]}
          /\ UNCHANGED leased
      BY <2>3 DEF Refuse, ServerSends
    <3> QED
      BY <3>1, <1>2, NakSays DEF leased, Given
  <2> QED
    BY <2>1, <2>2, <2>3 DEF Serve
<1>3. (net \subseteq Msg)' /\ Acknowledged'
  BY <1>2 DEF LeaseInv, Acknowledged
<1> QED
  BY <1>1, <1>2, <1>3, NotesKept

LEMMA LateLeases == ASSUME LeaseInv, NEW ip \in IPs, LateRequest(ip) PROVE LeaseInv'
<1>1. UNCHANGED <<state, expectedID, T1, T2, timers, localIP, routerIP, stored, net, history,
                  expiries, restarts>>
  BY DEF LateRequest, lease, addresses, faults
<1>2. Given \subseteq Given' /\ (bindings \subseteq IPs)' /\ (ranOut \subseteq IPs)'
  BY BindGives DEF LateRequest
<1>3. (net \subseteq Msg)' /\ Acknowledged' /\ (expiries \in 0 .. MAX_EXPIRIES)'
  BY <1>1, <1>2 DEF LeaseInv, TypeInv, Acknowledged
<1> QED
  BY <1>1, <1>2, <1>3, NotesKept

LEMMA ExpireLeases == ASSUME LeaseInv, NEW ip \in IPs, Expire(ip) PROVE LeaseInv'
<1>1. UNCHANGED <<state, expectedID, T1, T2, timers, localIP, routerIP, stored, net, history,
                  restarts>>
  BY DEF Expire, lease, addresses
<1>2. Given \subseteq Given' /\ (bindings \subseteq IPs)' /\ (ranOut \subseteq IPs)'
  BY DEF Expire, Given, LeaseInv, TypeInv
<1>3. (expiries \in 0 .. MAX_EXPIRIES)'
  BY ClientAssumption DEF Expire, LeaseInv, TypeInv
<1>4. (net \subseteq Msg)' /\ Acknowledged'
  BY <1>1, <1>2 DEF LeaseInv, TypeInv, Acknowledged
<1> QED
  BY <1>1, <1>2, <1>3, <1>4, NotesKept

LEMMA RestartLeases ==
  ASSUME LeaseInv, NEW r \in Records, Restart(r)
  PROVE  LeaseInv' /\ timers' = Unused /\ state' \in {"SELECTING", "REBOOTING"}
         /\ begun' = {} /\ leaks' = 0
<1>1. PICK n \in {net, {}} : /\ DHCPsetup(r, n)
                             /\ (bindings \subseteq IPs)' /\ (ranOut \subseteq IPs)'
                             /\ n # {} => Given' = Given
  BY DEF Restart, leased, Given, LeaseInv, TypeInv
<1>2. /\ timers' = Unused /\ T1' = 0 /\ T2' = 0 /\ localIP' = NoAddr /\ routerIP' = NoAddr
      /\ stored' = r /\ expectedID' = "first" /\ begun' = {} /\ leaks' = 0
  BY <1>1 DEF DHCPsetup
<1>3. PICK d \in Msg : d.type # "DHCP_ACK" /\ net' = n \cup {d}
                       /\ state' \in {"SELECTING", "REBOOTING"}
  <2>1. CASE r.assignedIP = broadcastIP \/ r.serverIP = broadcastIP
    BY <2>1, <1>1, FirstDiscoverSays DEF DHCPsetup
  <2>2. CASE ~(r.assignedIP = broadcastIP \/ r.serverIP = broadcastIP)
    <3>1. "first" \in XIDs /\ r.assignedIP \in Addresses /\ r.serverIP \in Servers
      BY <2>2 DEF Records, XIDs, Addresses, Servers
    <3>2. Request("first", r.assignedIP, r.serverIP) \in Msg
          /\ Request("first", r.assignedIP, r.serverIP).type = "REQUEST"
      BY <3>1, RequestSays
    <3> QED
      BY <3>2, <2>2, <1>1 DEF DHCPsetup
  <2> QED
    BY <2>1, <2>2
<1>4. restarts < MAX_RESTARTS /\ restarts' = restarts + 1 /\ expiries' = expiries
  BY DEF Restart
<1>5. TypeInv'
  <2>1. timers' \in Pools /\ {T1, T2}' \subseteq Slots \cup {-1}
    BY <1>2, UnusedTyped, PoolAssumption DEF Slots
  <2>2. (net \subseteq Msg)' /\ (bindings \subseteq IPs)'
    BY <1>1, <1>3 DEF LeaseInv, TypeInv
  <2>3. (expiries \in 0 .. MAX_EXPIRIES)' /\ (restarts \in 0 .. MAX_RESTARTS)'
    BY <1>4, ClientAssumption DEF LeaseInv, TypeInv
  <2> QED
    BY <2>1, <2>2, <2>3, <1>1, <1>2, <1>3 DEF TypeInv, DHCPstate, Pools, Records
<1>6. Acknowledged'
  BY <1>1, <1>3 DEF LeaseInv, Acknowledged
<1> QED
  BY <1>2, <1>3, <1>4, <1>5, <1>6 DEF LeaseInv, AddressLeased, Configured

\* What a write that is cut short leaves is a record.
LEMMA TornIsRecord ==
  ASSUME LeaseInv, NEW m \in net, TornWrite(m)
  PROVE  \E r \in Records : Restart(r)
<1>1. m.type = "DHCP_ACK"
  BY DEF TornWrite
<1>2. RouterIn(m) \in Routers \cup {Server} /\ m.ip \in IPs /\ stored \in Records
  BY <1>1, RouterInTyped DEF LeaseInv, TypeInv, Records
<1>3. PICK ip \in Torn(stored.assignedIP, m.ip), server \in Torn(stored.serverIP, RouterIn(m)) :
        Restart([assignedIP |-> ip, serverIP |-> server])
  BY DEF TornWrite
<1>4. [assignedIP |-> ip, serverIP |-> server] \in Records
  BY <1>2 DEF Torn, Records
<1> QED
  BY <1>3, <1>4

LEMMA StepLeases == LeaseInv /\ [Next]_vars => LeaseInv'
<1> SUFFICES ASSUME LeaseInv, [Next]_vars PROVE LeaseInv'
  OBVIOUS
<1>1. ASSUME NEW m \in net \cup Foreign, DHCPprocessor(m) PROVE LeaseInv'
  BY <1>1, ForeignIgnored, OfferLeases, AckLeases, NakLeases DEF DHCPprocessor
<1>2. CASE handleDHCPtimers
  BY <1>2, RenewLeases, RebindLeases DEF handleDHCPtimers
<1>3. ASSUME NEW m \in net, TornWrite(m) PROVE LeaseInv'
  BY <1>3, TornIsRecord, RestartLeases
<1>4. CASE PowerFails
  <2>1. stored \in Records
    BY DEF LeaseInv, TypeInv, Records
  <2> QED
    BY <2>1, <1>4, RestartLeases DEF PowerFails
<1>5. CASE UNCHANGED vars
  BY <1>5 DEF vars, lease, addresses, leased, history, faults, LeaseInv, TypeInv, Acknowledged,
             AddressLeased, Given
<1> QED
  BY <1>1, <1>2, <1>3, <1>4, <1>5, SecondLeases, ServeLeases, LateLeases, ExpireLeases DEF Next

\* The client's state stays within its types whatever the network does, and the
\* EEPROM holds addresses only.
THEOREM ClientTypeCorrect == Spec => []TypeInv
<1>1. LeaseInv => TypeInv
  BY DEF LeaseInv
<1> QED
  BY <1>1, InitLeases, StepLeases, PTL DEF Spec

\* The address in use is one the server gave to the client, though the lease may
\* have run out, for any number of addresses, messages, refusals, expiries and
\* power failures: its transaction number keeps replies to others away, and what
\* the server acknowledged it noted first.
THEOREM LeasedAddresses == Spec => []AddressLeased
<1>1. LeaseInv => AddressLeased
  BY DEF LeaseInv
<1> QED
  BY <1>1, InitLeases, StepLeases, PTL DEF Spec

-----------------------------------------------------------------------------
(* The timers of the lease, as long as the pool has room for them beside     *)
(* those the client lost hold of.  What is behind it: T1 and T2 differ as    *)
(* long as T2 is needed, also when T1 was given back, so that giving back    *)
(* the slot that T1 names never takes T2's.                                  *)

LeftBehind == InUse(timers) \ Needed

Handles ==
    /\ Needed \subseteq InUse(timers)
    /\ Cardinality(LeftBehind) <= leaks
    /\ state \in {"BOUND", "RENEWING"} /\ "T2" \in begun => T1 # T2

Roomy == leaks + 2 <= MAX_TIMERS

TimerInv == LeaseInv /\ (Roomy => Handles)

LEMMA HandlesExact == TimerInv => LeaseTimersExact
  BY DEF TimerInv, Roomy, Handles, LeaseTimersExact, LeftBehind, Times

LEMMA InUseFinite ==
  ASSUME NEW p
  PROVE  /\ InUse(p) \subseteq Slots /\ IsFiniteSet(InUse(p))
         /\ IsFiniteSet(Slots) /\ Cardinality(Slots) = MAX_TIMERS
<1>1. IsFiniteSet(0 .. MAX_TIMERS - 1) /\ Cardinality(0 .. MAX_TIMERS - 1) = MAX_TIMERS
  BY FS_Interval, PoolAssumption
<1> QED
  BY <1>1, FS_Subset DEF Slots, InUse

\* A set of slots that leaves out one is smaller than the pool.
LEMMA RoomLeft ==
  ASSUME NEW p, Cardinality(InUse(p)) < MAX_TIMERS
  PROVE  InUse(p) # Slots
  BY InUseFinite, PoolAssumption

LEMMA SizeTyped == ASSUME NEW S, IsFiniteSet(S) PROVE Cardinality(S) \in Nat
  BY FS_CardinalityType

\* What is left behind is at most what runs, and one less for a needed timer.
LEMMA LeftSize ==
  ASSUME NEW p, NEW i
  PROVE  /\ Cardinality(InUse(p)) \in Nat /\ Cardinality(InUse(p) \ {i}) \in Nat
         /\ Cardinality(InUse(p)) <= Cardinality(InUse(p) \ {i}) + 1
         /\ Cardinality(InUse(p) \ {i}) <= Cardinality(InUse(p))
<1>1. IsFiniteSet(InUse(p)) /\ IsFiniteSet(InUse(p) \ {i})
  BY InUseFinite, FS_Difference
<1>2. Cardinality(InUse(p)) \in Nat /\ Cardinality(InUse(p) \ {i}) \in Nat
  BY <1>1, SizeTyped
<1>3. CASE i \in InUse(p)
  BY <1>1, <1>2, <1>3, FS_RemoveElement
<1>4. CASE i \notin InUse(p)
  <2>1. InUse(p) \ {i} = InUse(p)
    BY <1>4
  <2> QED
    BY <2>1, <1>2
<1> QED
  BY <1>3, <1>4

LEMMA InitTimers == Init => TimerInv
<1> SUFFICES ASSUME Init PROVE TimerInv
  OBVIOUS
<1>1. LeaseInv
  BY InitLeases
<1>2. Needed = {} /\ LeftBehind = {}
  BY UnusedTyped DEF Init, Needed, LeftBehind
<1>3. Handles
  BY <1>2, FS_EmptySet DEF Init, Handles
<1> QED
  BY <1>1, <1>3 DEF TimerInv

\* The pool's slots, the handles, the state and the history are the same.
LEMMA SlotsKept ==
  ASSUME TimerInv, UNCHANGED <<state, T1, T2, history>>, InUse(timers') = InUse(timers)
  PROVE  Roomy' => Handles'
<1>1. Needed' = Needed /\ LeftBehind' = LeftBehind
  BY DEF Needed, LeftBehind, history
<1> QED
  BY <1>1 DEF TimerInv, Handles, Roomy, history

\* A step between states that need no timer, and leaves the pool alone.
LEMMA NothingNeeded ==
  ASSUME TimerInv, UNCHANGED <<timers, leaks>>,
         state \notin {"BOUND", "RENEWING"}, state' \notin {"BOUND", "RENEWING"}
  PROVE  Roomy' => Handles'
<1>1. Needed = {} /\ Needed' = {}
  BY DEF Needed
<1>2. LeftBehind' = LeftBehind
  BY <1>1 DEF LeftBehind
<1> QED
  BY <1>1, <1>2 DEF TimerInv, Handles, Roomy

LEMMA OfferTimers ==
  ASSUME TimerInv, NEW m \in net, GetOffer(m)
  PROVE  Roomy' => Handles'
<1>1. state = "SELECTING" /\ state' = "REQUESTING" /\ UNCHANGED <<timers, leaks>>
  BY DEF GetOffer, lease, history
<1> QED
  BY <1>1, NothingNeeded

\* How full the pool is when an acknowledgement comes.
LEMMA RunningBefore ==
  ASSUME TimerInv, Roomy, state \in Awaiting
  PROVE  /\ timers \in Pools /\ leaks \in Nat
         /\ IsFiniteSet(InUse(timers)) /\ Cardinality(InUse(timers)) \in Nat
         /\ state # "RENEWING" => Cardinality(InUse(timers)) <= leaks
         /\ Cardinality(InUse(timers)) <= leaks + 1
         /\ MAX_TIMERS \in Nat /\ leaks + 2 <= MAX_TIMERS
<1>1. timers \in Pools /\ leaks \in Nat
  BY DEF TimerInv, LeaseInv, TypeInv, Pools
<1>2. Handles
  BY DEF TimerInv
<1>3. IsFiniteSet(InUse(timers)) /\ Cardinality(InUse(timers)) \in Nat
  BY InUseFinite, SizeTyped
<1>4. CASE state # "RENEWING"
  <2>1. LeftBehind = InUse(timers)
    BY <1>4 DEF LeftBehind, Needed, Awaiting
  <2> QED
    BY <2>1, <1>1, <1>2, <1>3, <1>4, PoolAssumption DEF Handles, Roomy
<1>5. CASE state = "RENEWING"
  <2>1. LeftBehind = InUse(timers) \ {T2} \/ LeftBehind = InUse(timers)
    BY <1>5 DEF LeftBehind, Needed
  <2>2. Cardinality(LeftBehind) \in Nat /\ Cardinality(InUse(timers)) <= Cardinality(LeftBehind) + 1
    <3>1. /\ Cardinality(InUse(timers) \ {T2}) \in Nat
          /\ Cardinality(InUse(timers)) <= Cardinality(InUse(timers) \ {T2}) + 1
      BY LeftSize
    <3> QED
      BY <3>1, <2>1, <1>3
  <2> QED
    BY <2>2, <1>1, <1>2, <1>3, <1>5, PoolAssumption DEF Handles, Roomy
<1> QED
  BY <1>4, <1>5

\* Option 58, or its absence.
LEMMA FirstSet ==
  ASSUME TimerInv, Roomy, state \in Awaiting, NEW m, LeaseTimers(m)
  PROVE  LET started == IF "T1" \in m.times THEN Set(timers, T1_SECONDS) ELSE timers IN
         /\ started \in Pools
         /\ "T1" \notin m.times => InUse(started) = InUse(timers) /\ T1' = T1
         /\ "T1" \in m.times => /\ T1' \in Slots \ InUse(timers)
                                /\ InUse(started) = InUse(timers) \cup {T1'}
<1> DEFINE started == IF "T1" \in m.times THEN Set(timers, T1_SECONDS) ELSE timers
<1>1. timers \in Pools /\ InUse(timers) # Slots /\ T1_SECONDS \in 0 .. SECONDS_MOD - 1
  <2>1. Cardinality(InUse(timers)) < MAX_TIMERS
    BY RunningBefore
  <2> QED
    BY <2>1, RunningBefore, RoomLeft, ClientAssumption
<1>2. T1' = IF "T1" \in m.times THEN SlotSet(timers) ELSE T1
  BY DEF LeaseTimers
<1>3. CASE "T1" \in m.times
  BY <1>1, <1>2, <1>3, SlotSetFree, SetTyped
<1>4. CASE "T1" \notin m.times
  BY <1>1, <1>2, <1>4
<1> QED
  BY <1>3, <1>4

\* An acknowledgement that is no renewal sets what its options bring.
LEMMA AckStarts ==
  ASSUME TimerInv, Roomy', state \in Awaiting, state # "RENEWING", state' = "BOUND",
         NEW m \in Msg, LeaseTimers(m), BeginTimers(m)
  PROVE  Handles'
<1> DEFINE started == IF "T1" \in m.times THEN Set(timers, T1_SECONDS) ELSE timers
           old == InUse(timers)
<1>1. begun' = (IF "T1" \in m.times THEN m.times ELSE {})
      /\ leaks' = (IF m.times = {"T2"} THEN leaks + 1 ELSE leaks)
      /\ m.times \subseteq Times /\ leaks \in Nat
  BY DEF BeginTimers, TimerInv, LeaseInv, TypeInv, Msg
<1>2. Roomy
  BY <1>1, PoolAssumption DEF Roomy
<1>3. /\ IsFiniteSet(old) /\ Cardinality(old) \in Nat /\ Cardinality(old) <= leaks
      /\ leaks + 2 <= MAX_TIMERS /\ MAX_TIMERS \in Nat
  BY <1>2, RunningBefore
<1>4. /\ started \in Pools
      /\ "T1" \notin m.times => InUse(started) = old /\ T1' = T1
      /\ "T1" \in m.times => T1' \in Slots \ old /\ InUse(started) = old \cup {T1'}
  BY <1>2, FirstSet
<1>5. IsFiniteSet(InUse(started)) /\ Cardinality(InUse(started)) \in Nat
      /\ Cardinality(InUse(started)) <= leaks + 1
  <2>1. CASE "T1" \in m.times
    <3>1. T1' \notin old /\ InUse(started) = old \cup {T1'}
      BY <2>1, <1>4
    <3> HIDE DEF old, started
    <3>2. Cardinality(InUse(started)) = Cardinality(old) + 1 /\ IsFiniteSet(InUse(started))
      BY <3>1, <1>3, FS_AddElement
    <3> QED
      BY <3>2, <1>1, <1>3
  <2>2. CASE "T1" \notin m.times
    <3>1. InUse(started) = old
      BY <2>2, <1>4
    <3> HIDE DEF old, started
    <3> QED
      BY <3>1, <1>1, <1>3
  <2> QED
    BY <2>1, <2>2
<1>6. CASE "T2" \notin m.times
  <2>1. timers' = started /\ T2' = T2
    BY <1>6 DEF LeaseTimers
  <2>2. "T2" \notin begun' /\ leaks' = leaks /\ ("T1" \in begun' <=> "T1" \in m.times)
    BY <1>1, <1>6
  <2> HIDE DEF started
  <2>3. Needed' = IF "T1" \in m.times THEN {T1'} ELSE {}
    BY <2>2 DEF Needed
  <2>4. LeftBehind' = old /\ Needed' \subseteq InUse(timers')
    BY <2>1, <2>3, <1>4 DEF LeftBehind
  <2> QED
    BY <2>2, <2>4, <1>3 DEF Handles
<1>7. CASE "T2" \in m.times
  <2>1. timers' = Set(started, T2_SECONDS) /\ T2' = SlotSet(started)
    BY <1>7 DEF LeaseTimers
  <2>2. InUse(started) # Slots
    <3>1. Cardinality(InUse(started)) < MAX_TIMERS
      <4> HIDE DEF started
      <4> QED
        BY <1>1, <1>3, <1>5
    <3> QED
      BY <3>1, RoomLeft
  <2>3. T2_SECONDS \in 0 .. SECONDS_MOD - 1
    BY ClientAssumption
  <2>4. T2' \in Slots \ InUse(started) /\ InUse(timers') = InUse(started) \cup {T2'}
    BY <2>1, <2>2, <2>3, <1>4, SlotSetFree, SetTyped
  <2> HIDE DEF started
  <2>5. CASE "T1" \in m.times
    <3>1. begun' = m.times /\ leaks' = leaks
      BY <1>1, <2>5
    <3>2. Needed' = {T1', T2'}
      BY <3>1, <2>5, <1>7 DEF Needed
    <3>3. LeftBehind' = old /\ Needed' \subseteq InUse(timers') /\ T1' # T2'
      BY <3>2, <2>4, <2>5, <1>4 DEF LeftBehind
    <3> QED
      BY <3>1, <3>3, <1>3 DEF Handles
  <2>6. CASE "T1" \notin m.times
    <3>1. begun' = {} /\ leaks' = leaks + 1
      BY <1>1, <1>7, <2>6 DEF Times
    <3>2. Needed' = {}
      BY <3>1 DEF Needed
    <3>3. LeftBehind' = old \cup {T2'} /\ T2' \notin old
      BY <3>2, <2>4, <2>6, <1>4 DEF LeftBehind
    <3>4. Cardinality(LeftBehind') = Cardinality(old) + 1
      BY <3>3, <1>3, FS_AddElement
    <3> HIDE DEF old
    <3> QED
      BY <3>1, <3>2, <3>4, <1>1, <1>3 DEF Handles
  <2> QED
    BY <2>5, <2>6
<1> QED
  BY <1>6, <1>7

\* An acknowledgement of a renewal: T1 takes another slot, T2 keeps what it names.
LEMMA AckRenews ==
  ASSUME TimerInv, Roomy', state = "RENEWING", state' = "BOUND",
         NEW m, LeaseTimers(m), BeginTimers(m)
  PROVE  Handles'
<1> DEFINE started == IF "T1" \in m.times THEN Set(timers, T1_SECONDS) ELSE timers
           old == InUse(timers)
<1>1. begun' = (m.times \cap {"T1"}) \cup (begun \cap {"T2"}) /\ leaks' = leaks
  BY DEF BeginTimers
<1>2. Roomy /\ Handles /\ state \in Awaiting
  BY <1>1 DEF Roomy, TimerInv, Awaiting
<1>3. /\ started \in Pools
      /\ "T1" \notin m.times => InUse(started) = old /\ T1' = T1
      /\ "T1" \in m.times => T1' \in Slots \ old /\ InUse(started) = old \cup {T1'}
  BY <1>2, FirstSet
<1>4. T2' = T2 /\ InUse(timers') = InUse(started)
  <2>1. T2' = T2 /\ timers' \in {started, Reset(started, T2, T2_SECONDS)}
    BY DEF LeaseTimers
  <2>2. T2_SECONDS \in 0 .. SECONDS_MOD - 1
    BY ClientAssumption
  <2> QED
    BY <2>1, <2>2, <1>3, ResetTyped
<1> HIDE DEF started
<1>5. /\ Needed = (IF "T2" \in begun THEN {T2} ELSE {})
      /\ Needed' = (IF "T1" \in m.times THEN {T1'} ELSE {}) \cup Needed
  BY <1>1, <1>4 DEF Needed
<1>6. LeftBehind' = LeftBehind /\ Needed' \subseteq InUse(timers')
  BY <1>2, <1>3, <1>4, <1>5 DEF LeftBehind, Handles
<1>7. "T2" \in begun' => T1' # T2'
  <2>1. "T2" \in begun' => "T2" \in begun /\ T2 \in old /\ T1 # T2
    BY <1>1, <1>2, <1>5 DEF Handles
  <2> QED
    BY <2>1, <1>3, <1>4
<1> QED
  BY <1>1, <1>2, <1>6, <1>7 DEF Handles

LEMMA AckTimers ==
  ASSUME TimerInv, NEW m \in net, GetAck(m)
  PROVE  Roomy' => Handles'
<1>1. state \in Awaiting /\ state' = "BOUND" /\ LeaseTimers(m) /\ BeginTimers(m) /\ m \in Msg
  BY DEF GetAck, TimerInv, LeaseInv, TypeInv
<1> QED
  BY <1>1, AckStarts, AckRenews

LEMMA NakTimers ==
  ASSUME TimerInv, NEW m \in net, GetNak(m)
  PROVE  Roomy' => Handles'
<1>1. /\ state \in Awaiting /\ state' = "SELECTING" /\ LoseTimers
      /\ UNCHANGED <<T1, T2, timers, begun>>
  BY DEF GetNak, lease
<1>2. leaks \in Nat /\ MAX_TIMERS \in Nat
  BY PoolAssumption DEF TimerInv, LeaseInv, TypeInv
<1>3. CASE state # "RENEWING"
  <2>1. state \notin {"BOUND", "RENEWING"} /\ leaks' = leaks
    BY <1>1, <1>3 DEF Awaiting, LoseTimers
  <2> QED
    BY <1>1, <2>1, NothingNeeded
<1>4. CASE state = "RENEWING"
  <2> SUFFICES ASSUME Roomy' PROVE Handles'
    OBVIOUS
  <2>1. leaks' = (IF "T2" \in begun THEN leaks + 1 ELSE leaks)
    BY <1>1, <1>4 DEF LoseTimers
  <2>2. Handles
    BY <2>1, <1>2 DEF Roomy, TimerInv
  <2>3. Needed' = {} /\ LeftBehind' = InUse(timers)
    BY <1>1 DEF Needed, LeftBehind
  <2>4. LeftBehind = IF "T2" \in begun THEN InUse(timers) \ {T2} ELSE InUse(timers)
    BY <1>4 DEF Needed, LeftBehind
  <2>5. Cardinality(LeftBehind') <= leaks'
    <3>1. /\ Cardinality(InUse(timers)) \in Nat /\ Cardinality(InUse(timers) \ {T2}) \in Nat
          /\ Cardinality(InUse(timers)) <= Cardinality(InUse(timers) \ {T2}) + 1
      BY LeftSize
    <3>2. Cardinality(LeftBehind) <= leaks
      BY <2>2 DEF Handles
    <3> QED
      BY <3>1, <3>2, <2>1, <2>3, <2>4, <1>2
  <2> QED
    BY <1>1, <2>3, <2>5 DEF Handles
<1> QED
  BY <1>3, <1>4

LEMMA RenewTimers ==
  ASSUME TimerInv, Renew
  PROVE  Roomy' => Handles'
<1>1. /\ state = "BOUND" /\ state' = "RENEWING" /\ timers' = Release(timers, T1)
      /\ UNCHANGED <<T1, T2, begun, leaks>>
  BY DEF Renew, history
<1> SUFFICES ASSUME Roomy' PROVE Handles'
  OBVIOUS
<1>2. Handles
  BY <1>1 DEF Roomy, TimerInv
<1>3. InUse(timers') = InUse(timers) \ {T1}
  BY <1>1, ReleaseTyped DEF TimerInv, LeaseInv, TypeInv, Pools
<1>4. /\ Needed = (IF "T1" \in begun THEN {T1} ELSE {}) \cup (IF "T2" \in begun THEN {T2} ELSE {})
      /\ Needed' = (IF "T2" \in begun THEN {T2} ELSE {})
  BY <1>1 DEF Needed
<1>5. "T2" \in begun => T1 # T2
  BY <1>1, <1>2 DEF Handles
<1>6. Needed' \subseteq InUse(timers')
  BY <1>2, <1>3, <1>4, <1>5 DEF Handles
<1>7. LeftBehind' = LeftBehind \ {T1}
  BY <1>3, <1>4, <1>5 DEF LeftBehind
<1>8. Cardinality(LeftBehind') <= leaks'
  <2>1. IsFiniteSet(LeftBehind)
    BY InUseFinite, FS_Difference DEF LeftBehind
  <2>2. LeftBehind' \subseteq LeftBehind
    BY <1>7
  <2>3. IsFiniteSet(LeftBehind') /\ Cardinality(LeftBehind') <= Cardinality(LeftBehind)
    BY <2>1, <2>2, FS_Subset
  <2>4. Cardinality(LeftBehind) \in Nat /\ Cardinality(LeftBehind') \in Nat /\ leaks \in Nat
    BY <2>1, <2>3, SizeTyped DEF TimerInv, LeaseInv, TypeInv
  <2> QED
    BY <2>3, <2>4, <1>1, <1>2 DEF Handles
<1> QED
  BY <1>1, <1>5, <1>6, <1>8 DEF Handles

LEMMA RebindTimers ==
  ASSUME TimerInv, Rebind
  PROVE  Roomy' => Handles'
<1>1. /\ state = "RENEWING" /\ state' = "REBINDING" /\ timers' = Release(timers, T2)
      /\ UNCHANGED <<T1, T2, begun, leaks>>
  BY DEF Rebind, history
<1> SUFFICES ASSUME Roomy' PROVE Handles'
  OBVIOUS
<1>2. Handles
  BY <1>1 DEF Roomy, TimerInv
<1>3. InUse(timers') = InUse(timers) \ {T2}
  BY <1>1, ReleaseTyped DEF TimerInv, LeaseInv, TypeInv, Pools
<1>4. Needed \subseteq {T2} /\ Needed' = {}
  BY <1>1 DEF Needed
<1>5. LeftBehind' \subseteq LeftBehind
  BY <1>3, <1>4 DEF LeftBehind
<1>6. IsFiniteSet(LeftBehind)
  BY InUseFinite, FS_Difference DEF LeftBehind
<1>7. IsFiniteSet(LeftBehind') /\ Cardinality(LeftBehind') <= Cardinality(LeftBehind)
  BY <1>5, <1>6, FS_Subset
<1>8. Cardinality(LeftBehind) \in Nat /\ Cardinality(LeftBehind') \in Nat /\ leaks \in Nat
  BY <1>6, <1>7, SizeTyped DEF TimerInv, LeaseInv, TypeInv
<1> QED
  BY <1>1, <1>2, <1>4, <1>7, <1>8 DEF Handles

\* A start: the pool is empty.
LEMMA RestartTimers ==
  ASSUME TimerInv, NEW r \in Records, Restart(r)
  PROVE  Roomy' => Handles'
<1>1. timers' = Unused /\ state' \in {"SELECTING", "REBOOTING"} /\ begun' = {} /\ leaks' = 0
  BY RestartLeases DEF TimerInv
<1>2. Needed' = {} /\ LeftBehind' = {}
  BY <1>1, UnusedTyped DEF Needed, LeftBehind
<1> QED
  BY <1>1, <1>2, FS_EmptySet DEF Handles

LEMMA StepTimers == TimerInv /\ [Next]_vars => TimerInv'
<1> SUFFICES ASSUME TimerInv, [Next]_vars PROVE Roomy' => Handles'
  BY StepLeases DEF TimerInv
<1>1. ASSUME NEW m \in net \cup Foreign, DHCPprocessor(m) PROVE Roomy' => Handles'
  <2>1. m \in net
    BY <1>1, ForeignIgnored DEF TimerInv
  <2> QED
    BY <1>1, <2>1, OfferTimers, AckTimers, NakTimers DEF DHCPprocessor
<1>2. CASE handleDHCPtimers
  BY <1>2, RenewTimers, RebindTimers DEF handleDHCPtimers
<1>3. CASE Second
  <2>1. InUse(timers') = InUse(timers)
    BY <1>3, TickTyped DEF Second, TimerInv, LeaseInv, TypeInv, Pools
  <2> QED
    BY <2>1, <1>3, SlotsKept DEF Second
<1>4. ASSUME NEW m \in net, Serve(m) PROVE Roomy' => Handles'
  BY <1>4, SlotsKept DEF Serve, lease
<1>5. ASSUME NEW m \in net, TornWrite(m) PROVE Roomy' => Handles'
  BY <1>5, TornIsRecord, RestartTimers DEF TimerInv
<1>6. ASSUME NEW ip \in IPs, LateRequest(ip) \/ Expire(ip) PROVE Roomy' => Handles'
  BY <1>6, SlotsKept DEF LateRequest, Expire, lease
<1>7. CASE PowerFails
  <2>1. stored \in Records
    BY DEF TimerInv, LeaseInv, TypeInv, Records
  <2> QED
    BY <2>1, <1>7, RestartTimers DEF PowerFails
<1>8. CASE UNCHANGED vars
  BY <1>8, SlotsKept DEF vars, lease
<1> QED
  BY <1>1, <1>2, <1>3, <1>4, <1>5, <1>6, <1>7, <1>8 DEF Next

\* No handle names a slot that was given back and no slot leaks, over any number
\* of renewals, refusals and restarts and whichever of the two times each DHCP_ACK
\* brings, as long as the pool has two slots more than timers lost hold of.
THEOREM HandlesNameTimers == Spec => []LeaseTimersExact
  BY InitTimers, StepTimers, HandlesExact, PTL DEF Spec

=============================================================================
