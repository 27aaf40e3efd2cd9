--------------------------- MODULE MCEngineDriver ---------------------------
(* Instances of EngineDriver for TLC. *)
EXTENDS EngineDriver

AllModes == [wOuter : BOOLEAN, strided : BOOLEAN]
=============================================================================
