----------------------------- MODULE MCHandoff -----------------------------
(* Instances of Handoff for TLC. *)
EXTENDS Handoff

AllKinds  == {"ENGINE", "LANE", "ATTN", "CONV"}
LateKinds == {"ENGINE", "LANE", "ATTN"}
=============================================================================
