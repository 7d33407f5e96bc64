--------------------------- MODULE MCTimerSharing ---------------------------
(* Two connections, one refused renewal, and a counter that wraps soon after *)
(* its end was missed.                                                       *)
EXTENDS TimerSharing
=============================================================================
