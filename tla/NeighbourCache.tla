--------------------------- MODULE NeighbourCache ---------------------------
(***************************************************************************)
(* What the ARP table promises the IP layer, with no slots: a mapping from *)
(* addresses to the MAC they last announced.  It may forget an address to  *)
(* make room for another one, but never the router's, through which every  *)
(* packet leaves.                                                          *)
(***************************************************************************)
CONSTANTS
    IPs,        \* addresses of hosts
    MACs,       \* hardware addresses
    Routers,    \* the addresses DHCP may name as the router
    NoMAC       \* the answer for an unknown address

VARIABLES
    cache,      \* the MAC of every address, or NoMAC
    router      \* the address whose entry is kept

Init ==
    /\ cache = [ip \in IPs |-> NoMAC]
    /\ router \in Routers

Learn(ip, mac) ==
    /\ \E forgotten \in SUBSET (IPs \ {ip, router}) :
         cache' = [i \in IPs |-> IF i = ip THEN mac
                                 ELSE IF i \in forgotten THEN NoMAC ELSE cache[i]]
    /\ UNCHANGED router

Reroute(r) ==
    /\ router' = r
    /\ UNCHANGED cache

Next ==
    \/ \E ip \in IPs, mac \in MACs : Learn(ip, mac)
    \/ \E r \in Routers : Reroute(r)

Spec == Init /\ [][Next]_<<cache, router>>

=============================================================================
