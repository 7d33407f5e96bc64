------------------------------ MODULE ArpTable ------------------------------
(***************************************************************************)
(* The ARP table of ARP/ARP.c.  ARPprocessor answers requests for our      *)
(* address, refreshes the entries of the sender and then writes the sender *)
(* into the next slot of the table, round robin, stepping over one slot    *)
(* that holds the router.  arp() is the search sendIPv4packet makes for    *)
(* the router's MAC.  DHCP sets the two addresses the table depends on.    *)
(***************************************************************************)
EXTENDS Integers, LowestIndex

CONSTANTS
    ARP_TABLE_LEN,  \* slots of the table
    IPs,            \* addresses that announce themselves
    ZeroIP,         \* 0.0.0.0, the content of an empty slot
    MACs,           \* hardware addresses that announce themselves
    ZeroMAC,
    NoMAC,          \* arp() returned NULL
    LocalIPs,       \* the addresses DHCP may assign us
    Routers,        \* the addresses DHCP may name as the router
    NoFrame         \* the last step sent nothing

ASSUME TableAssumption ==
    /\ ARP_TABLE_LEN \in Nat \ {0, 1}
    /\ ZeroIP \notin IPs
    /\ ZeroMAC \notin MACs
    /\ NoMAC \notin MACs \cup {ZeroMAC}
    /\ Routers \subseteq IPs

VARIABLES
    arpTable,   \* the slots
    nextSlot,   \* where the next sender goes
    localIP,
    routerIP,
    sent,       \* the ARP frame the last step sent
    announced   \* history: the MAC each address announced last

vars == <<arpTable, nextSlot, localIP, routerIP, sent, announced>>

Slots == 0 .. ARP_TABLE_LEN - 1

TypeInv ==
    /\ arpTable \in [Slots -> [ip : IPs \cup {ZeroIP}, mac : MACs \cup {ZeroMAC},
                               priority : {0, 1}]]
    /\ nextSlot \in Slots
    /\ localIP \in LocalIPs
    /\ routerIP \in Routers
    /\ announced \in [IPs -> MACs \cup {NoMAC}]

Init ==
    /\ arpTable = [i \in Slots |-> [ip |-> ZeroIP, mac |-> ZeroMAC, priority |-> 0]]
    /\ nextSlot = 0
    /\ localIP \in LocalIPs
    /\ routerIP \in Routers
    /\ sent = NoFrame
    /\ announced = [ip \in IPs |-> NoMAC]

-----------------------------------------------------------------------------

Entries(ip) == {i \in Slots : arpTable[i].priority # 0 /\ arpTable[i].ip = ip}

\* The address arp() returns for a target: the first entry, or NULL.
arp(target) == IF Entries(target) = {} THEN NoMAC
               ELSE arpTable[Lowest(Entries(target))].mac

Successor(i) == (i + 1) % ARP_TABLE_LEN

\* Mutant: the slot is taken as it comes.
SlotForAny == nextSlot

\* "Don't overwrite router MAC": one slot with the router's address is skipped.
SlotForSender == IF arpTable[nextSlot].ip = routerIP THEN Successor(nextSlot)
                                                     ELSE nextSlot

\* Mutant: the refreshing loop stops at the first entry of the sender.
RefreshedFirst(ip, mac) ==
    [i \in Slots |-> IF Entries(ip) # {} /\ i = Lowest(Entries(ip))
                     THEN [arpTable[i] EXCEPT !.mac = mac] ELSE arpTable[i]]

\* The loop over the table that brings every entry of the sender up to date.
Refreshed(ip, mac) ==
    [i \in Slots |-> IF i \in Entries(ip)
                     THEN [arpTable[i] EXCEPT !.mac = mac, !.priority = 1]
                     ELSE arpTable[i]]

\* Mutant: nextSlot runs past the end of the table.
StoreSenderUnwrapped(ip, mac) ==
    /\ arpTable' = [Refreshed(ip, mac) EXCEPT
                      ![SlotForSender] = [ip |-> ip, mac |-> mac, priority |-> 1]]
    /\ nextSlot' = SlotForSender + 1
    /\ announced' = [announced EXCEPT ![ip] = mac]

\* Mutant: the sender is appended and its older entries are left alone.
StoreSenderAppends(ip, mac) ==
    /\ arpTable' = [arpTable EXCEPT
                      ![SlotForSender] = [ip |-> ip, mac |-> mac, priority |-> 1]]
    /\ nextSlot' = Successor(SlotForSender)
    /\ announced' = [announced EXCEPT ![ip] = mac]

\* The rest of ARPprocessor: refresh, step over the router, write, advance.
StoreSender(ip, mac) ==
    /\ arpTable' = [Refreshed(ip, mac) EXCEPT
                      ![SlotForSender] = [ip |-> ip, mac |-> mac, priority |-> 1]]
    /\ nextSlot' = Successor(SlotForSender)
    /\ announced' = [announced EXCEPT ![ip] = mac]

\* The reply to a request for our address goes out before the sender is stored.
Answer(op, srcIP, srcMAC, targetIP) ==
    sent' = IF op = "REQUEST" /\ targetIP = localIP
            THEN [op |-> "REPLY", srcIP |-> localIP, targetIP |-> srcIP, targetMAC |-> srcMAC]
            ELSE NoFrame

\* An ARP frame arrives.  One without a source address or MAC is not stored.
ARPprocessor(op, srcIP, srcMAC, targetIP) ==
    /\ Answer(op, srcIP, srcMAC, targetIP)
    /\ IF srcIP # ZeroIP /\ srcMAC # ZeroMAC
       THEN StoreSender(srcIP, srcMAC)
       ELSE UNCHANGED <<arpTable, nextSlot, announced>>
    /\ UNCHANGED <<localIP, routerIP>>

\* DHCPprocessor accepts a DHCP_ACK: new addresses, and a request for the
\* router's MAC (arpRequest).
BoundBy(ip, router) ==
    /\ localIP' = ip
    /\ routerIP' = router
    /\ sent' = [op |-> "REQUEST", srcIP |-> ip, targetIP |-> router, targetMAC |-> ZeroMAC]
    /\ UNCHANGED <<arpTable, nextSlot, announced>>

Next ==
    \/ \E op \in {"REQUEST", "REPLY"}, srcIP \in IPs \cup {ZeroIP},
          srcMAC \in MACs \cup {ZeroMAC}, targetIP \in LocalIPs \cup {ZeroIP} :
         ARPprocessor(op, srcIP, srcMAC, targetIP)
    \/ \E ip \in LocalIPs, router \in Routers : BoundBy(ip, router)

Spec == Init /\ [][Next]_vars

-----------------------------------------------------------------------------

\* The search never gives a superseded MAC, although an address may have many
\* entries and the search stops at whichever comes first after overwriting:
\* all entries of an address carry the MAC it announced last.
CopiesAgree ==
    \A i \in Slots : arpTable[i].priority # 0 =>
        arpTable[i].ip \in IPs /\ arpTable[i].mac = announced[arpTable[i].ip]

\* Once the router's MAC is known, no traffic from other hosts evicts it: a
\* packet to the router never again fails with "Couldn't find MAC".
RouterKept ==
    [][routerIP' = routerIP /\ arp(routerIP) # NoMAC => arp(routerIP)' # NoMAC]_vars

\* The table implements the neighbour cache the IP layer relies on.
Cache == INSTANCE NeighbourCache WITH cache <- [ip \in IPs |-> arp(ip)], router <- routerIP

CacheSpec == Cache!Spec

=============================================================================
