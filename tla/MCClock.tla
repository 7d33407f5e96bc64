------------------------------ MODULE MCClock ------------------------------
(* Minutes and hours of two, so that an hour is four ticks; the ends of all  *)
(* months, in years of each kind: a century that is a leap year, an ordinary *)
(* year, and a century that is not.                                          *)
EXTENDS Clock
=============================================================================
