--------------------------- MODULE ArpTableProofs ---------------------------
(***************************************************************************)
(* ArpTable for every table of at least two slots and all sets of hosts:   *)
(* the entries of an address agree, the router stays known, and the table  *)
(* implements NeighbourCache.                                              *)
(***************************************************************************)
EXTENDS ArpTable, NumberProofs

\* An empty slot still has the all-zero address it was created with, so the
\* comparison with the router's address never mistakes one for an entry.
EmptyIsZero == \A i \in Slots : arpTable[i].priority = 0 => arpTable[i].ip = ZeroIP

IInv == TypeInv /\ CopiesAgree /\ EmptyIsZero

\* In a table of two slots or more, going to the next slot never stays where it
\* was: stepping over the router really leaves its entry alone.
LEMMA SuccessorIsAnotherSlot ==
  ASSUME NEW i \in Slots
  PROVE  Successor(i) \in Slots /\ Successor(i) # i
<1>1. CASE i = ARP_TABLE_LEN - 1
  <2>1. Successor(i) = 0
    BY <1>1, TableAssumption DEF Successor, Slots
  <2> QED
    BY <1>1, <2>1, TableAssumption DEF Slots
<1>2. CASE i # ARP_TABLE_LEN - 1
  <2>1. i + 1 \in 0 .. ARP_TABLE_LEN - 1
    BY <1>2, TableAssumption DEF Slots
  <2>2. Successor(i) = i + 1
    BY <2>1, TableAssumption DEF Successor
  <2> QED
    BY <2>1, <2>2, TableAssumption DEF Slots
<1> QED
  BY <1>1, <1>2

\* What the search answers, given that the entries of an address agree.
LEMMA AnswerIsAnnounced ==
  IInv => \A ip \in IPs : arp(ip) = IF Entries(ip) = {} THEN NoMAC ELSE announced[ip]
<1> SUFFICES ASSUME IInv, NEW ip \in IPs, Entries(ip) # {}
             PROVE  arp(ip) = announced[ip]
  BY DEF arp
<1>1. Entries(ip) \in SUBSET Nat
  BY TableAssumption DEF Entries, Slots
<1>2. Lowest(Entries(ip)) \in Entries(ip)
  BY <1>1, LowestIsFirst
<1> QED
  BY <1>2 DEF arp, Entries, IInv, CopiesAgree

\* The same of the next state: what arp will answer is what was announced by then.
LEMMA AnswerIsAnnouncedNext ==
  ASSUME IInv'
  PROVE  \A ip \in IPs : arp(ip)' = IF Entries(ip)' = {} THEN NoMAC ELSE announced'[ip]
<1>1. (IInv => \A ip \in IPs :
                 arp(ip) = IF Entries(ip) = {} THEN NoMAC ELSE announced[ip])'
  BY AnswerIsAnnounced, PTL
<1> QED
  BY <1>1

\* What storing a sender does to the table, seen through the sets of entries.
LEMMA StoreStep ==
  ASSUME IInv, NEW ip \in IPs, NEW mac \in MACs,
         StoreSender(ip, mac), UNCHANGED <<localIP, routerIP>>
  PROVE  /\ IInv'
         /\ \A x \in IPs \ {ip} : Entries(x)' \subseteq Entries(x)
         /\ Entries(ip)' # {}
         /\ announced' = [announced EXCEPT ![ip] = mac]
         /\ Entries(routerIP) # {} => Entries(routerIP)' # {}
<1> DEFINE j == SlotForSender
<1>1. nextSlot \in Slots /\ routerIP \in IPs /\ routerIP # ZeroIP /\ ip # ZeroIP
  BY TableAssumption DEF IInv, TypeInv
<1>2. j \in Slots /\ Successor(j) \in Slots
  BY <1>1, SuccessorIsAnotherSlot DEF SlotForSender
<1>3. /\ announced' = [announced EXCEPT ![ip] = mac]
      /\ nextSlot' = Successor(j)
      /\ arpTable' \in [Slots -> [ip : IPs \cup {ZeroIP}, mac : MACs \cup {ZeroMAC},
                                  priority : {0, 1}]]
  BY <1>2 DEF StoreSender, Refreshed, IInv, TypeInv, Entries
<1>4. arpTable'[j] = [ip |-> ip, mac |-> mac, priority |-> 1]
  BY <1>2 DEF StoreSender, Refreshed
<1>5. \A i \in Slots \ {j} : arpTable[i].priority # 0 /\ arpTable[i].ip = ip =>
        arpTable'[i].ip = ip /\ arpTable'[i].mac = mac /\ arpTable'[i].priority = 1
  BY <1>2 DEF StoreSender, Refreshed, Entries, IInv, TypeInv
<1>6. \A i \in Slots \ {j} : ~(arpTable[i].priority # 0 /\ arpTable[i].ip = ip) =>
        arpTable'[i] = arpTable[i]
  BY <1>2 DEF StoreSender, Refreshed, Entries
<1> HIDE DEF j
<1>7. IInv'
  <2>1. TypeInv'
    BY <1>2, <1>3 DEF IInv, TypeInv
  <2>2. CopiesAgree'
    BY <1>2, <1>3, <1>4, <1>5, <1>6 DEF IInv, TypeInv, CopiesAgree
  <2>3. EmptyIsZero'
    BY <1>2, <1>4, <1>5, <1>6 DEF IInv, EmptyIsZero
  <2> QED
    BY <2>1, <2>2, <2>3 DEF IInv
<1>8. \A x \in IPs \ {ip} : Entries(x)' \subseteq Entries(x)
  BY <1>2, <1>4, <1>5, <1>6 DEF Entries
<1>9. j \in Entries(ip)'
  BY <1>2, <1>4 DEF Entries
<1>10. ASSUME Entries(routerIP) # {} PROVE Entries(routerIP)' # {}
  <2>1. \A k \in Entries(routerIP) : k # j => k \in Entries(routerIP)'
    BY <1>5, <1>6 DEF Entries
  <2>2. PICK k \in Entries(routerIP) : TRUE
    BY <1>10
  <2>3. CASE arpTable[nextSlot].ip = routerIP
    <3>1. nextSlot \in Entries(routerIP)
      BY <1>1, <2>3 DEF Entries, IInv, EmptyIsZero
    <3>2. j # nextSlot
      BY <1>1, <2>3, SuccessorIsAnotherSlot DEF j, SlotForSender
    <3> QED
      BY <2>1, <3>1, <3>2
  <2>4. CASE arpTable[nextSlot].ip # routerIP
    <3>1. j = nextSlot
      BY <2>4 DEF j, SlotForSender
    <3>2. k # j
      BY <2>2, <2>4, <3>1 DEF Entries
    <3> QED
      BY <2>1, <2>2, <3>2
  <2> QED
    BY <2>3, <2>4
<1> QED
  BY <1>3, <1>7, <1>8, <1>9, <1>10

\* A step other than storing a sender leaves the table alone.
LEMMA OtherSteps ==
  ASSUME IInv, [Next]_vars,
         ~ \E ip \in IPs, mac \in MACs :
             StoreSender(ip, mac) /\ UNCHANGED <<localIP, routerIP>>
  PROVE  /\ UNCHANGED <<arpTable, nextSlot, announced>>
         /\ localIP' \in LocalIPs /\ routerIP' \in Routers
<1>1. ASSUME NEW op, NEW srcIP \in IPs \cup {ZeroIP}, NEW srcMAC \in MACs \cup {ZeroMAC},
             NEW targetIP, ARPprocessor(op, srcIP, srcMAC, targetIP)
      PROVE  /\ UNCHANGED <<arpTable, nextSlot, announced>>
             /\ localIP' \in LocalIPs /\ routerIP' \in Routers
  BY <1>1 DEF ARPprocessor, IInv, TypeInv
<1>2. ASSUME NEW ip \in LocalIPs, NEW router \in Routers, BoundBy(ip, router)
      PROVE  /\ UNCHANGED <<arpTable, nextSlot, announced>>
             /\ localIP' \in LocalIPs /\ routerIP' \in Routers
  BY <1>2 DEF BoundBy
<1>3. CASE UNCHANGED vars
  BY <1>3 DEF vars, IInv, TypeInv
<1> QED
  BY <1>1, <1>2, <1>3 DEF Next

\* The inductive invariant holds in every state: the initial table satisfies it,
\* and both kinds of step keep it (StoreStep, OtherSteps).
LEMMA Inductive == Spec => []IInv
<1>1. Init => IInv
  BY TableAssumption DEF Init, IInv, TypeInv, CopiesAgree, EmptyIsZero, Slots
<1>2. IInv /\ [Next]_vars => IInv'
  <2> SUFFICES ASSUME IInv, [Next]_vars PROVE IInv'
    OBVIOUS
  <2>1. CASE \E ip \in IPs, mac \in MACs :
               StoreSender(ip, mac) /\ UNCHANGED <<localIP, routerIP>>
    BY <2>1, StoreStep
  <2>2. CASE ~ \E ip \in IPs, mac \in MACs :
               StoreSender(ip, mac) /\ UNCHANGED <<localIP, routerIP>>
    BY <2>2, OtherSteps DEF IInv, TypeInv, CopiesAgree, EmptyIsZero
  <2> QED
    BY <2>1, <2>2
<1> QED
  BY <1>1, <1>2, PTL DEF Spec

\* The table's variables keep their types; in particular nextSlot stays inside
\* the table although it is advanced up to twice per frame.
THEOREM TypeCorrect == Spec => []TypeInv
BY Inductive, PTL DEF IInv

\* The search never returns a superseded MAC.
THEOREM EntriesAgree == Spec => []CopiesAgree
BY Inductive, PTL DEF IInv

-----------------------------------------------------------------------------

\* The step behind RouterKept: storing any sender leaves the router an entry. It
\* is either another slot than the one written, or the sender is the router.
LEMMA RouterStaysKnown ==
  ASSUME IInv, IInv', [Next]_vars, routerIP' = routerIP, arp(routerIP) # NoMAC
  PROVE  arp(routerIP)' # NoMAC
<1>1. routerIP \in IPs
  BY TableAssumption DEF IInv, TypeInv
<1>2. Entries(routerIP) # {}
  BY DEF arp
<1>3. Entries(routerIP)' # {}
  <2>1. CASE \E ip \in IPs, mac \in MACs :
               StoreSender(ip, mac) /\ UNCHANGED <<localIP, routerIP>>
    BY <1>2, <2>1, StoreStep
  <2>2. CASE ~ \E ip \in IPs, mac \in MACs :
               StoreSender(ip, mac) /\ UNCHANGED <<localIP, routerIP>>
    BY <1>2, <2>2, OtherSteps DEF Entries
  <2> QED
    BY <2>1, <2>2
<1>4. (IInv => \A ip \in IPs :
                 arp(ip) = IF Entries(ip) = {} THEN NoMAC ELSE announced[ip])'
  BY AnswerIsAnnounced, PTL
<1>5. PICK k \in Slots : /\ arpTable'[k].priority # 0
                         /\ arpTable'[k].ip = routerIP
  BY <1>3 DEF Entries
<1>6. announced'[routerIP] = arpTable'[k].mac
  BY <1>5 DEF IInv, CopiesAgree
<1>7. arpTable'[k].mac # NoMAC
  BY <1>5, TableAssumption DEF IInv, TypeInv
<1> QED
  BY <1>1, <1>3, <1>4, <1>6, <1>7

\* No other host can push the router out of the table.
THEOREM RouterNeverEvicted == Spec => RouterKept
<1>1. IInv /\ IInv' /\ [Next]_vars =>
        [routerIP' = routerIP /\ arp(routerIP) # NoMAC => arp(routerIP)' # NoMAC]_vars
  BY RouterStaysKnown
<1> QED
  BY <1>1, Inductive, PTL DEF Spec, RouterKept

-----------------------------------------------------------------------------

\* Seen through arp(), the table is a neighbour cache: storing a sender makes
\* it known under its newest MAC, may forget others, and never the router.
THEOREM ImplementsNeighbourCache == Spec => CacheSpec
<1> DEFINE known == [ip \in IPs |-> arp(ip)]
<1>1. Init => Cache!Init
  BY DEF Init, Cache!Init, arp, Entries, Slots
<1>2. IInv /\ IInv' /\ [Next]_vars => [Cache!Next]_<<known, routerIP>>
  <2> SUFFICES ASSUME IInv, IInv', [Next]_vars
               PROVE  Cache!Next \/ UNCHANGED <<known, routerIP>>
    OBVIOUS
  <2>1. \A x \in IPs :
          known[x] = IF Entries(x) = {} THEN NoMAC ELSE announced[x]
    BY AnswerIsAnnounced
  <2>2. \A ip \in IPs :
          arp(ip)' = IF Entries(ip)' = {} THEN NoMAC ELSE announced'[ip]
    BY AnswerIsAnnouncedNext
  <2>3. \A x \in IPs :
          known'[x] = IF Entries(x)' = {} THEN NoMAC ELSE announced'[x]
    BY <2>2
  <2>4. CASE \E ip \in IPs, mac \in MACs :
               StoreSender(ip, mac) /\ UNCHANGED <<localIP, routerIP>>
    <3>1. PICK ip \in IPs, mac \in MACs :
            StoreSender(ip, mac) /\ UNCHANGED <<localIP, routerIP>>
      BY <2>4
    <3>2. /\ \A x \in IPs \ {ip} : Entries(x)' \subseteq Entries(x)
          /\ Entries(ip)' # {}
          /\ announced' = [announced EXCEPT ![ip] = mac]
          /\ Entries(routerIP) # {} => Entries(routerIP)' # {}
      BY <3>1, StoreStep
    <3> DEFINE forgotten == {x \in IPs \ {ip, routerIP} : Entries(x)' = {}}
    <3>3. known'[ip] = mac
      BY <2>3, <3>2 DEF IInv, TypeInv
    <3>4. \A x \in forgotten : known'[x] = NoMAC
      BY <2>3
    <3>5. ASSUME NEW x \in IPs, x # ip, x \notin forgotten
          PROVE  known'[x] = known[x]
      <4>1. announced'[x] = announced[x]
        BY <3>2, <3>5 DEF IInv, TypeInv
      <4>2. CASE x # routerIP
        <5>1. Entries(x)' # {} /\ Entries(x) # {}
          BY <3>2, <3>5, <4>2
        <5> QED
          BY <2>1, <2>3, <4>1, <5>1
      <4>3. CASE x = routerIP
        <5>1. Entries(x)' = Entries(routerIP)'
          BY <3>1, <4>3 DEF Entries
        <5>2. (Entries(x) = {}) <=> (Entries(x)' = {})
          BY <3>2, <3>5, <4>3, <5>1
        <5> QED
          BY <2>1, <2>3, <4>1, <5>2
      <4> QED
        BY <4>2, <4>3
    <3>6. known' = [x \in IPs |-> IF x = ip THEN mac
                                  ELSE IF x \in forgotten THEN NoMAC ELSE known[x]]
      BY <3>3, <3>4, <3>5
    <3>7. forgotten \in SUBSET (IPs \ {ip, routerIP})
      OBVIOUS
    <3> HIDE DEF known, forgotten
    <3>8. Cache!Learn(ip, mac)
      BY <3>1, <3>6, <3>7 DEF Cache!Learn, known
    <3> QED
      BY <3>8 DEF Cache!Next
  <2>5. CASE ~ \E ip \in IPs, mac \in MACs :
               StoreSender(ip, mac) /\ UNCHANGED <<localIP, routerIP>>
    <3>1. UNCHANGED <<arpTable, announced>> /\ routerIP' \in Routers
      BY <2>5, OtherSteps
    <3>2. known' = known
      BY <3>1 DEF arp, Entries
    <3>3. Cache!Reroute(routerIP')
      BY <3>2 DEF Cache!Reroute
    <3> QED
      BY <3>1, <3>3 DEF Cache!Next
  <2> QED
    BY <2>4, <2>5
<1> QED
  BY <1>1, <1>2, Inductive, PTL DEF Spec, CacheSpec, Cache!Spec

=============================================================================
