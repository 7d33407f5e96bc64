---------------------------- MODULE MCTcpStream ----------------------------
(* Buffers of two or eight bytes and streams of at least twice that, so that  *)
(* a ring buffer wraps around more than once; each direction is looked at by *)
(* itself.  Datagrams whose length takes one byte and two.                   *)
EXTENDS TcpStream

MCDatagrams == {<<>>, <<1>>, <<2, 3, 0>>, <<1, 2, 3, 1, 2>>}
=============================================================================
