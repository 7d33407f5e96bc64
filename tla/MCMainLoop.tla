----------------------------- MODULE MCMainLoop -----------------------------
(* As many clients as streams and places in the table of main: the pool and *)
(* the table run out together.  (main.c has 10 places for 5 streams.)       *)
EXTENDS MainLoop
=============================================================================
