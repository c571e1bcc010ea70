--------------------------- MODULE MCLiveTraffic ---------------------------
(***************************************************************************)
(* LiveTraffic for TLC: one browser with all its timers.                   *)
(***************************************************************************)
EXTENDS LiveTraffic
=============================================================================
