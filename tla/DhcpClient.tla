----------------------------- MODULE DhcpClient -----------------------------
(***************************************************************************)
(* The DHCP client of DHCP/DHCP.c with its two lease timers in the pool of *)
(* RTC.c, the record it keeps in the EEPROM, a server, a network that      *)
(* delays, duplicates, reorders and loses, and power failures.             *)
(*                                                                         *)
(* A message stays in the network, to be received late, twice or never.    *)
(* Transaction numbers come from rand(), which nothing seeds: the first of *)
(* every start is the same number.  So it is enough to tell the first, the *)
(* latest drawn since, and old ones apart; a number drawn later is taken   *)
(* to differ from all before.  The client does not look at the hardware    *)
(* address in a reply: that number alone tells its own replies from those  *)
(* to other hosts, which reach it by broadcast.                            *)
(***************************************************************************)
EXTENDS Integers, FiniteSets, TimerPool

CONSTANTS
    T1_SECONDS,     \* the times in options 58 and 59 of a DHCP_ACK
    T2_SECONDS,
    IPs,            \* the addresses the server may give us
    OtherIP,        \* the address it gave to another host
    TornIP,         \* what a write of four bytes leaves when it is cut short
    broadcastIP,    \* what an erased EEPROM reads as
    Server,         \* the server's address
    Routers,        \* what option 3 may name
    NoAddr,         \* no such option; localIP and routerIP before the first lease
    AckOptions,     \* what a DHCP_ACK may have as options 3, 58 and 59
    MAX_EXPIRIES,   \* bound on leases that run out at the server
    MAX_RESTARTS    \* bound on power failures

\* The options 58 and 59, and the timers they are for.
Times == {"T1", "T2"}

ASSUME ClientAssumption ==
    /\ MAX_TIMERS >= 2
    /\ {T1_SECONDS, T2_SECONDS} \subseteq 0 .. SECONDS_MOD - 1
    /\ OtherIP \notin IPs /\ TornIP \notin IPs
    /\ broadcastIP \notin IPs \cup {Server} \cup Routers
    /\ NoAddr \notin IPs \cup {Server, OtherIP, TornIP, broadcastIP} \cup Routers
    /\ AckOptions \subseteq [router : Routers \cup {NoAddr}, times : SUBSET Times]
    /\ MAX_EXPIRIES \in Nat /\ MAX_RESTARTS \in Nat

VARIABLES
    state,
    expectedID,     \* the transaction whose replies are taken
    T1, T2,         \* timer indices
    timers,         \* the timer pool
    localIP, routerIP,
    stored,         \* struct DHCPdata in the EEPROM
    net,            \* messages in the network
    bindings,       \* the addresses the server holds for us
    ranOut,         \* history: those it held until the lease ran out
    begun,          \* history: which timers the client has set for its lease
    leaks,          \* history: running timers it has lost hold of since its start
    expiries, restarts

lease == <<T1, T2, timers>>
addresses == <<localIP, routerIP, stored>>
leased == <<bindings, ranOut>>
history == <<begun, leaks>>
faults == <<expiries, restarts>>
vars == <<state, expectedID, lease, addresses, net, leased, history, faults>>

\* INIT and INIT_REBOOT are left in the call that enters them.
DHCPstate == {"SELECTING", "REQUESTING", "REBOOTING", "BOUND", "RENEWING", "REBINDING"}
Configured == {"BOUND", "RENEWING", "REBINDING"}
XIDs == {"first", "latest", "old"}

Msg == [type : {"DISCOVER", "OFFER", "REQUEST", "DHCP_ACK", "NAK"}, xid : XIDs,
        ip : IPs \cup {OtherIP, TornIP, NoAddr},
        server : Routers \cup {Server, TornIP, NoAddr},
        router : Routers \cup {NoAddr}, times : SUBSET Times]

TypeInv ==
    /\ state \in DHCPstate
    /\ expectedID \in {"first", "latest"}
    /\ {T1, T2} \subseteq Slots \cup {-1}
    /\ timers \in [Slots -> [inUse : BOOLEAN, seconds : 0 .. SECONDS_MOD - 1]]
    /\ localIP \in IPs \cup {NoAddr}
    /\ routerIP \in Routers \cup {Server, NoAddr}
    /\ stored \in [assignedIP : IPs \cup {TornIP, broadcastIP},
                   serverIP : Routers \cup {Server, TornIP, broadcastIP}]
    /\ net \subseteq Msg
    /\ bindings \subseteq IPs /\ ranOut \subseteq IPs
    /\ begun \subseteq Times /\ leaks \in Nat
    /\ expiries \in 0 .. MAX_EXPIRIES /\ restarts \in 0 .. MAX_RESTARTS

-----------------------------------------------------------------------------
(* Messages.                                                               *)

Discover == [type |-> "DISCOVER", xid |-> "latest", ip |-> NoAddr, server |-> NoAddr,
             router |-> NoAddr, times |-> {}]

Request(xid, ip, server) ==
    [Discover EXCEPT !.type = "REQUEST", !.xid = xid, !.ip = ip, !.server = server]

\* A new transaction number is drawn.  What carries the last one is left out from
\* then on: a late reply is of no transaction, like those to other hosts, and a
\* late request can only make the server hold an address (LateRequest).
Aged == {m \in net : m.xid = "first"}

\* Replies to other hosts.
Foreign == {[Discover EXCEPT !.type = type, !.xid = "old", !.ip = OtherIP, !.server = Server] :
              type \in {"OFFER", "DHCP_ACK", "NAK"}}

-----------------------------------------------------------------------------
(* The client.                                                             *)

\* DHCPsetup after a start with record r in the EEPROM and messages n around.
DHCPsetup(r, n) ==
    /\ timers' = Unused
    /\ T1' = 0 /\ T2' = 0
    /\ localIP' = NoAddr /\ routerIP' = NoAddr
    /\ stored' = r
    /\ expectedID' = "first"
    /\ begun' = {} /\ leaks' = 0
    /\ IF r.assignedIP = broadcastIP \/ r.serverIP = broadcastIP
       THEN /\ state' = "SELECTING"
            /\ net' = n \cup {[Discover EXCEPT !.xid = "first"]}
       ELSE /\ state' = "REBOOTING"
            /\ net' = n \cup {Request("first", r.assignedIP, r.serverIP)}

GetOffer(m) ==
    /\ state = "SELECTING" /\ m.type = "OFFER"
    /\ state' = "REQUESTING"
    /\ net' = net \cup {Request(m.xid, m.ip, m.server)}
    /\ UNCHANGED <<expectedID, lease, addresses, history>>

Awaiting == {"REQUESTING", "REBOOTING", "RENEWING", "REBINDING"}

RouterIn(m) == IF m.router = NoAddr THEN m.server ELSE m.router

\* Mutant: T2 is set anew by every DHCP_ACK.
LeaseTimersAnew(m) ==
    LET started == IF "T1" \in m.times THEN Set(timers, T1_SECONDS) ELSE timers IN
    /\ T1' = IF "T1" \in m.times THEN SlotSet(timers) ELSE T1
    /\ T2' = IF "T2" \in m.times THEN SlotSet(started) ELSE T2
    /\ timers' = IF "T2" \in m.times THEN Set(started, T2_SECONDS) ELSE started

\* Mutant: T1 is not started again by the DHCP_ACK of a renewal.
LeaseTimersOnce(m) ==
    LET sets == "T1" \in m.times /\ state # "RENEWING"
        started == IF sets THEN Set(timers, T1_SECONDS) ELSE timers
    IN  /\ T1' = IF sets THEN SlotSet(timers) ELSE T1
        /\ IF "T2" \notin m.times \/ state = "RENEWING"
           THEN /\ timers' = IF "T2" \in m.times THEN Reset(started, T2, T2_SECONDS) ELSE started
                /\ UNCHANGED T2
           ELSE timers' = Set(started, T2_SECONDS) /\ T2' = SlotSet(started)

\* Option 58 sets T1; option 59 resets T2, which is taken to run still, when the
\* client is renewing, and sets it otherwise.  A handle whose option is not there
\* keeps its value.
LeaseTimers(m) ==
    LET started == IF "T1" \in m.times THEN Set(timers, T1_SECONDS) ELSE timers IN
    /\ T1' = IF "T1" \in m.times THEN SlotSet(timers) ELSE T1
    /\ IF "T2" \notin m.times \/ state = "RENEWING"
       THEN /\ timers' = IF "T2" \in m.times THEN Reset(started, T2, T2_SECONDS) ELSE started
            /\ UNCHANGED T2
       ELSE timers' = Set(started, T2_SECONDS) /\ T2' = SlotSet(started)

\* A renewal leaves T2 as it is.  A T2 set without a T1 is a timer lost hold of:
\* the old handle T1 may name its slot.
BeginTimers(m) ==
    IF state = "RENEWING"
    THEN begun' = (m.times \cap {"T1"}) \cup (begun \cap {"T2"}) /\ UNCHANGED leaks
    ELSE /\ begun' = IF "T1" \in m.times THEN m.times ELSE {}
         /\ leaks' = IF m.times = {"T2"} THEN leaks + 1 ELSE leaks

GetAck(m) ==
    /\ state \in Awaiting /\ m.type = "DHCP_ACK"
    /\ state' = "BOUND"
    /\ LeaseTimers(m)
    /\ localIP' = m.ip
    /\ routerIP' = RouterIn(m)
    /\ stored' = [assignedIP |-> m.ip, serverIP |-> RouterIn(m)]
    /\ BeginTimers(m)
    /\ UNCHANGED <<expectedID, net>>

\* T2 still runs for a client that is renewing: nobody will ask for it again.
LoseTimers == leaks' = IF state = "RENEWING" /\ "T2" \in begun THEN leaks + 1 ELSE leaks

\* Mutant: the client goes back to INIT and sends nothing.
GetNakSilently(m) ==
    /\ state \in Awaiting /\ m.type = "NAK"
    /\ state' = "SELECTING"
    /\ expectedID' = "latest"
    /\ net' = Aged
    /\ LoseTimers
    /\ UNCHANGED <<lease, addresses, begun>>

\* "go back to send discover message": no timer is given back.
GetNak(m) ==
    /\ state \in Awaiting /\ m.type = "NAK"
    /\ state' = "SELECTING"
    /\ expectedID' = "latest"
    /\ net' = Aged \cup {Discover}
    /\ LoseTimers
    /\ UNCHANGED <<lease, addresses, begun>>

\* Mutant: the transaction number is not looked at.
DHCPprocessorAny(m) ==
    /\ GetOffer(m) \/ GetAck(m) \/ GetNak(m)
    /\ UNCHANGED <<leased, faults>>

DHCPprocessor(m) ==
    /\ m.xid = expectedID
    /\ GetOffer(m) \/ GetAck(m) \/ GetNak(m)
    /\ UNCHANGED <<leased, faults>>

\* T1 is done: ask for the same address, at the router.
Renew ==
    /\ state = "BOUND" /\ Done(timers, T1)
    /\ state' = "RENEWING"
    /\ timers' = Release(timers, T1)
    /\ expectedID' = "latest"
    /\ net' = Aged \cup {Request("latest", localIP, routerIP)}
    /\ UNCHANGED <<T1, T2, addresses, leased, history, faults>>

\* T2 is done: ask every server.
Rebind ==
    /\ state = "RENEWING" /\ Done(timers, T2)
    /\ state' = "REBINDING"
    /\ timers' = Release(timers, T2)
    /\ expectedID' = "latest"
    /\ net' = Aged \cup {Request("latest", localIP, NoAddr)}
    /\ UNCHANGED <<T1, T2, addresses, leased, history, faults>>

handleDHCPtimers == Renew \/ Rebind

-----------------------------------------------------------------------------
(* The surroundings: the second, the server, the power.                    *)

\* The timer interrupt; the main loop asks for a finished timer within the second.
Second ==
    /\ ~(state = "BOUND" /\ Done(timers, T1)) /\ ~(state = "RENEWING" /\ Done(timers, T2))
    /\ timers' = Tick(timers)
    /\ UNCHANGED <<state, expectedID, T1, T2, addresses, net, leased, history, faults>>

ServerSends(m) == net' = net \cup {m}

\* The server holds ip for us, for another while.
Bind(ip) == bindings' = bindings \cup {ip} /\ ranOut' = ranOut \ {ip}

\* The server is silent if the request names another server.
Asked(m) == m.type = "REQUEST" /\ m.server \in {Server, NoAddr}

Offer(m) ==
    /\ m.type = "DISCOVER"
    /\ \E ip \in IPs : /\ ServerSends([m EXCEPT !.type = "OFFER", !.ip = ip, !.server = Server])
                       /\ Bind(ip)

\* The parameter list of a request, which names options 58 and 59 or, after a
\* restart, does not, is a wish: a server may leave out what was asked for and
\* send what was not.
Acknowledge(m) ==
    /\ Asked(m) /\ m.ip \in IPs
    /\ \E o \in AckOptions :
         ServerSends([m EXCEPT !.type = "DHCP_ACK", !.server = Server,
                               !.router = o.router, !.times = o.times])
    /\ Bind(m.ip)

\* An address the server does not hold for us is refused.
Refuse(m) ==
    /\ Asked(m) /\ m.ip \notin bindings
    /\ ServerSends([m EXCEPT !.type = "NAK", !.server = Server])
    /\ UNCHANGED leased

Serve(m) ==
    /\ Offer(m) \/ Acknowledge(m) \/ Refuse(m)
    /\ UNCHANGED <<state, expectedID, lease, addresses, history, faults>>

\* A request of an earlier transaction reaches the server.
LateRequest(ip) ==
    /\ expectedID = "latest" /\ Bind(ip)
    /\ UNCHANGED <<state, expectedID, lease, addresses, net, history, faults>>

\* The lease of an address runs out, whatever the client does: it never reads
\* option 51 and does not know.
Expire(ip) ==
    /\ ip \in bindings /\ expiries < MAX_EXPIRIES
    /\ bindings' = bindings \ {ip} /\ ranOut' = ranOut \cup {ip}
    /\ expiries' = expiries + 1
    /\ UNCHANGED <<state, expectedID, lease, addresses, net, history, restarts>>

\* The power comes back with record r in the EEPROM: at once, or after a time in
\* which the network has become empty and addresses may have been given away.
Restart(r) ==
    /\ restarts < MAX_RESTARTS
    /\ restarts' = restarts + 1 /\ UNCHANGED expiries
    /\ \/ DHCPsetup(r, net) /\ UNCHANGED leased
       \/ DHCPsetup(r, {}) /\ bindings' \in SUBSET bindings /\ ranOut' = {}

PowerFails == Restart(stored)

\* What a write of new over old may leave: only bytes that differ are written.
Torn(old, new) == IF old = new THEN {old} ELSE {old, new, TornIP}

\* The power fails while eeprom_update_block writes what a DHCP_ACK brought.
TornWrite(m) ==
    /\ state \in Awaiting /\ m.type = "DHCP_ACK" /\ m.xid = expectedID
    /\ \E ip \in Torn(stored.assignedIP, m.ip), server \in Torn(stored.serverIP, RouterIn(m)) :
         Restart([assignedIP |-> ip, serverIP |-> server])

Next ==
    \/ \E m \in net \cup Foreign : DHCPprocessor(m)
    \/ handleDHCPtimers
    \/ Second
    \/ \E m \in net : Serve(m) \/ TornWrite(m)
    \/ \E ip \in IPs : LateRequest(ip) \/ Expire(ip)
    \/ PowerFails

Init ==
    /\ state = "SELECTING" /\ expectedID = "first"
    /\ timers = Unused
    /\ T1 = 0 /\ T2 = 0
    /\ localIP = NoAddr /\ routerIP = NoAddr
    /\ stored = [assignedIP |-> broadcastIP, serverIP |-> broadcastIP]
    /\ net = {[Discover EXCEPT !.xid = "first"]}
    /\ bindings = {} /\ ranOut = {} /\ begun = {} /\ leaks = 0
    /\ expiries = 0 /\ restarts = 0

Spec == Init /\ [][Next]_vars

\* packetHandler is called again and again, the second passes, and what belongs
\* to the transaction under way is answered by the server and reaches both sides:
\* nothing is lost for ever, since the client never sends a request twice.
Fairness ==
    /\ WF_vars(handleDHCPtimers) /\ WF_vars(Second)
    /\ WF_vars(\E m \in net : m.xid = expectedID /\ Serve(m))
    /\ WF_vars(\E m \in net : DHCPprocessor(m))

FairSpec == Spec /\ Fairness

-----------------------------------------------------------------------------

\* While it is configured, the address the client uses is one that the server
\* gave to it, and no other host's, whatever late replies, replies to other hosts
\* and restarts it went through: only the transaction number protects it.  The
\* lease may have run out by then: the client cannot know, and asks for ever.
AddressLeased == state \in Configured => localIP \in bindings \cup ranOut

\* The timers the client needs in its state.
Needed ==
    (IF state = "BOUND" /\ "T1" \in begun THEN {T1} ELSE {}) \cup
    (IF state \in {"BOUND", "RENEWING"} /\ "T2" \in begun THEN {T2} ELSE {})

\* As long as the timers lost hold of leave room for two more: the slots the client
\* needs run, so that no handle names a slot that was given back, and T1 and T2 are
\* not one.  What else runs was lost when a NAK met a client that was renewing (or
\* option 59 came alone): no slot leaks otherwise, whatever a DHCP_ACK brings.
LeaseTimersExact ==
    leaks + 2 <= MAX_TIMERS =>
        /\ Needed \subseteq InUse(timers)
        /\ Cardinality(InUse(timers) \ Needed) <= leaks
        /\ state = "BOUND" /\ begun = Times => T1 # T2

\* Nobody will answer the client: its request after a restart names the router
\* that the record calls the server (or the rest of a torn write), or that of its
\* renewal does and it never set T2.
Unheard ==
    \/ state = "REBOOTING" /\ stored.serverIP # Server
    \/ state = "RENEWING" /\ routerIP # Server /\ "T2" \notin begun

\* From every state the client gets an address, again after each renewal, though
\* the request of the renewal goes to the router and not to the server, and after
\* each refusal and restart, unless nobody hears its request.
BoundInTheEnd == state # "BOUND" ~> state = "BOUND" \/ Unheard

\* A client that set T1 and had a slot for it asks for renewal.
RenewsAgain ==
    state = "BOUND" /\ "T1" \in begun /\ leaks + 2 <= MAX_TIMERS ~> state # "BOUND"

=============================================================================
