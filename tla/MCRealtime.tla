----------------------------- MODULE MCRealtime -----------------------------
(* Realtime with two overlapping requests, for TLC.  Two parts and one     *)
(* slot are enough for what differs: indexes have no slot and no budget,   *)
(* breadth has both, and the two share the CLS home request.               *)
EXTENDS Realtime

MCTwo   == {"indexes", "breadth"}
MCSlots == {"breadth"}
=============================================================================
