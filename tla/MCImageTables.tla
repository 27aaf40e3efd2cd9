--------------------------- MODULE MCImageTables ---------------------------
(* Instances of ImageTables for TLC. *)
EXTENDS ImageTables

\* the planner refuses a shape, takes one byte for one and two for another
PlannedBytes == [s \in Shapes |-> CASE s = "odd" -> 0 [] s = "lin" -> 1 [] s = "conv" -> 2]
\* The tables share no state: a behaviour that uses one of them is enough.
OneTable ==
  \/ resident = <<>> /\ kv = 0
  \/ imgNext = 0 /\ \A k \in Layers : weights[k] = 0 /\ \A b \in DOMAIN arena : arena[b] = None
=============================================================================
