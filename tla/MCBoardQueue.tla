---------------------------- MODULE MCBoardQueue ----------------------------
(* Instances of BoardQueue for TLC. *)
EXTENDS BoardQueue

ThreePids == {"p", "q", "s"}
=============================================================================
