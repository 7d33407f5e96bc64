----------------------------- MODULE MCArpTable -----------------------------
(* Three slots for two addresses either of which may be the router, so that *)
(* slots are reused, the router is stepped over at every position, and it   *)
(* changes while both are in the table.                                     *)
EXTENDS ArpTable
=============================================================================
