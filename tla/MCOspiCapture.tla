--------------------------- MODULE MCOspiCapture ---------------------------
(* Instances of OspiCapture for TLC. *)
EXTENDS OspiCapture
=============================================================================
