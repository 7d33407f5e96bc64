---------------------------- MODULE MCDhcpClient ----------------------------
(* One address, a router that is not the server (unless option 3 is left     *)
(* out), a pool with one timer more than the lease needs, one lease that     *)
(* runs out and one power failure.                                           *)
EXTENDS DhcpClient

CONSTANT router

MCRouters == {router}
MCAckOptions == {[router |-> router, times |-> Times], [router |-> NoAddr, times |-> Times],
                 [router |-> router, times |-> {}]}
=============================================================================
