---------------------------- MODULE LowestIndex ----------------------------
(***************************************************************************)
(* Every table of this program is searched from index 0 upwards and the    *)
(* search stops at the first entry that fits: timers, ARP entries,         *)
(* sockets, streams and the main loop's clients.  Lowest(S) is the index   *)
(* such a loop stops at when the entries of S fit.                         *)
(***************************************************************************)
EXTENDS Integers

Lowest(S) == CHOOSE i \in S : \A j \in S : i <= j

=============================================================================
