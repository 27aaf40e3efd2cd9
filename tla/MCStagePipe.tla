----------------------------- MODULE MCStagePipe -----------------------------
(* Instances of StagePipe for TLC.  A history variable remembers whether      *)
(* anything has gone wrong yet, so that one run asks both what the kernel     *)
(* promises until the first fault and what it promises always.                *)
EXTENDS StagePipe

AllModes == [wOuter : BOOLEAN, strided : BOOLEAN]

VARIABLE faulted \* bus errors, lost Puts, and staging that outlasts the spin
hvars == <<pvars, faulted>>

\* An error bit the driver's own command did not set; a load sent although
\* hart 0 would still have published its source.
Fault == \/ err' /\ ~err /\ plan' = plan
         \/ \E p \in puts' \ puts : p.lost
         \/ stall' /\ ~stall /\ Publishes

\* Bounds: one fault, in the first call, and that call is then the last.
Healthy == ~faulted
Allowed == /\ Fault => Healthy /\ call = 1
           /\ call' # call => Healthy
Closed  == h = "idle" /\ ~Healthy /\ UNCHANGED pvars

HInit == PipeInit /\ faulted = FALSE
HNext == (PipeNext \/ Closed) /\ Allowed /\ faulted' = (faulted \/ Fault)
HSpec == /\ HInit /\ [][HNext]_hvars
         /\ WF_pvars(Hart0) /\ WF_pvars(PipeHart1) /\ WF_pvars(PipeUnit)

\* The watermarks never make hart 1 wait for something that does not come:
\* only staging slower than the spin's bound ends the spin of mbxr_b102.h.
NoStallUntilFault == Healthy => NoStall

\* The driver never gives the engine a command it refuses (a load into the
\* buffer it computes from, a tile on a buffer still being filled), and no wait
\* of mbxr_run_to can only end by its poll limit.
CleanUntilFault == Healthy => NeverRefused /\ NoTimeout
=============================================================================
