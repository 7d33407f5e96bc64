---------------------------- MODULE MCRTCTimers ----------------------------
(* Instances of RTCTimers: fewer slots than users, so that the pool runs    *)
(* out, and a counter that wraps after a few seconds.                       *)
EXTENDS RTCTimers
=============================================================================
