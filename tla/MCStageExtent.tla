---------------------------- MODULE MCStageExtent ----------------------------
(* Instances of StageExtent for TLC. *)
EXTENDS StageExtent

\* every small shape
SmallShapes == {c \in [IC : {1, 2, 4, 8, 12, 16, 24}, IW : 1 .. 24, SW : 1 .. 8, KW : 1 .. 5] :
                  c.IW >= c.KW}
=============================================================================
