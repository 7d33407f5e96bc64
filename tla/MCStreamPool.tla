---------------------------- MODULE MCStreamPool ----------------------------
(* Two sockets, so that a TCP and a UDP listener coexist or two listeners   *)
(* use one protocol, and as many streams as clients, so that slots are      *)
(* reused and the pool runs out.  The clients are interchangeable.          *)
EXTENDS StreamPool, TLC

Symmetry == Permutations(Remotes)
=============================================================================
