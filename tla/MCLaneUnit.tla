----------------------------- MODULE MCLaneUnit -----------------------------
(* Instances of LaneUnit for TLC.  A history variable remembers whether      *)
(* anything has gone wrong yet, so that one run asks both what the           *)
(* dispatchers promise until the first fault and what they promise always.   *)
EXTENDS LaneUnit

EveryLane == AllKinds

VARIABLE faulted  \* a refused shape, an absent lane, a data or a bus error
hvars == <<vars, faulted>>

Fault == \/ n' # n /\ (refusal' \/ kind' \in absent)
         \/ lane' # lane /\ lane'.bad
         \/ err' /\ ~err

HInit == Init /\ faulted = FALSE
HNext == Next /\ faulted' = (faulted \/ Fault)
HSpec == HInit /\ [][HNext]_hvars /\ WF_vars(Hart1) /\ WF_vars(Unit)

\* One dispatch's failure is not the next one's, and none fails by itself:
\* until something goes wrong every dispatch returns OK (the codes of
\* mbxr_lanes.h).
OKUntilFault == ~faulted => NotContagious

\* Until something goes wrong, a dispatch leaves no drain armed, no Put in
\* flight and no block in the FIFO for the next one (the last fences).
NoOrphanUntilFault == ~faulted => NoOrphanDrain
=============================================================================
