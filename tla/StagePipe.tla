------------------------------ MODULE StagePipe ------------------------------
(***************************************************************************)
(* The staging pipeline of the convolution kernel: hart 0 gathers the      *)
(* input while hart 1 already runs the engine on it, and transposes the    *)
(* columns of a weight tile as soon as that tile has drained               *)
(* (fpga/pynq-z2/modelblaster/kernels/roccmoon/                            *)
(* roccmoon_conv2d_s8_roccmoon_engine.c, mbxr_stage.inc and                *)
(* fpga/pynq-z2/sw/roccmoon/mbxr_b102.h).                                  *)
(*                                                                         *)
(* Two watermarks cross the harts.  stage_wm holds back the fill of an     *)
(* activation tile that is not staged; drain_wm tells hart 0 which weight  *)
(* tiles are complete.  The hooks sit in mbxr_rt_cmd, on the commands of   *)
(* the driver, so this module is EngineDriver with hart 0 beside it and    *)
(* the hooks conjoined to the driver's steps.  Extents are counted in      *)
(* tiles here; module StageExtent relates them to bytes.                   *)
(***************************************************************************)
EXTENDS EngineDriver

CONSTANT SpinPatient  \* whether MBXR_B102_SPIN_CYCLES outlasts hart 0's staging
ASSUME SpinAssumption == SpinPatient \in BOOLEAN

VARIABLES
  \* hart 0: kernel_conv2d_s8
  h,        \* where the kernel is
  call,     \* number of the convolution
  staged,   \* activation tiles written into the input stage
  done,     \* weight tiles transposed into the output tensor
  tensor,   \* the convolution each weight tile's columns are the answer of
  \* mbxr_b102_t
  armed,    \* 0, 1: the fill is gated, 2: and the drain watermark is live
  stage_wm, \* activation tiles published to hart 1
  drain_wm, \* weight tiles published to hart 0
  st_seen,  \* descriptors armed
  stall     \* stall_now

kernel == <<h, call, staged, done, tensor>>
hooks  == <<armed, stage_wm, drain_wm, st_seen, stall>>
pvars  == <<vars, kernel, hooks>>

PipeInit ==
  /\ Init
  /\ h = "idle" /\ call = 0 /\ staged = 0 /\ done = 0
  /\ tensor = [t \in WTiles |-> 0]
  /\ armed = 0 /\ stage_wm = 0 /\ drain_wm = 0 /\ st_seen = 0 /\ stall = FALSE
-----------------------------------------------------------------------------
(* HART 1: the driver's steps with the hooks of mbxr_rt_cmd *)

\* the activation tile the next ld fills, if it is one
NextAct == IF pc = "act" /\ NeedsA(k) THEN ATile(k)
           ELSE IF pc = "pre" /\ k < Total /\ NeedsA(k + 1) THEN ATile(k + 1)
           ELSE None

\* ld_wait: the source descriptor's extent is not published yet
Gated == armed > 0 /\ NextAct # None /\ ~Masked /\ stage_wm < NextAct + 1

HookedLoad == (LoadAct \/ Preload) /\ ~Gated /\ UNCHANGED <<kernel, hooks>>

\* PHASE 1: staging waits for nothing.
StageInTurn == staged < 2 \/ drain_wm > 0      \* mutant of MayStage
MayStage    == TRUE
Publishes   == h = "publish" \/ (h = "stage" /\ staged < TilesA /\ MayStage)

\* The spin's bound: at any time, or only when hart 0 publishes no more.  The
\* load then goes anyway and the kernel drops the result.
SpinOut ==
  /\ Gated /\ (~SpinPatient \/ ~Publishes)
  /\ stall' = TRUE /\ armed' = 0
  /\ UNCHANGED <<vars, kernel, stage_wm, drain_wm, st_seen>>

\* on_st: arming the k-th full-column descriptor means k-1 weight tiles have
\* drained; a descriptor of another shape ends the drain watermark.
ByCount(seen) == seen                   \* mutant of Drained
Drained(seen) == seen - 1
AnyRows(full)  == TRUE                  \* mutant of Trusted
Trusted(full)  == full /\ st_seen < TilesW

OnSt(full) ==
  \/ armed < 2 /\ UNCHANGED hooks
  \/ /\ armed = 2 /\ Trusted(full)
     /\ st_seen' = st_seen + 1 /\ drain_wm' = Drained(st_seen + 1)
     /\ UNCHANGED <<armed, stage_wm, stall>>
  \/ /\ armed = 2 /\ ~Trusted(full)
     /\ st_seen' = (IF full THEN st_seen + 1 ELSE st_seen)
     /\ drain_wm' = 0 /\ armed' = 1
     /\ UNCHANGED <<stage_wm, stall>>

HookedArm == ArmStrided /\ OnSt(WOuter \/ TilesA = 1) /\ UNCHANGED kernel

\* the flat descriptor counts blocks, which may happen to be npix
HookedStart ==
  /\ Start /\ UNCHANGED kernel
  /\ IF Strided THEN UNCHANGED hooks ELSE \E full \in BOOLEAN : OnSt(full)

Unhooked ==
  /\ \/ AwaitIdle \/ LoadWgt \/ AwaitReady \/ Compute \/ NestDone \/ PadTile
     \/ Finish \/ PlaceEarly \/ PlaceLate \/ TimeOut
  /\ UNCHANGED <<kernel, hooks>>

PipeHart1 == HookedLoad \/ SpinOut \/ HookedArm \/ HookedStart \/ Unhooked
PipeUnit  == Unit /\ UNCHANGED <<kernel, hooks>>
-----------------------------------------------------------------------------
(* HART 0 *)

\* The call arms the hooks for its staging arena.
Arm ==
  /\ h = "idle" /\ pc = "idle" /\ r + 2 <= MaxRuns
  /\ h' = "stage" /\ call' = call + 1 /\ staged' = 0 /\ done' = 0
  /\ armed' = 2 /\ stage_wm' = 0 /\ drain_wm' = 0 /\ st_seen' = 0 /\ stall' = FALSE
  /\ UNCHANGED <<vars, tensor>>

\* the number of the run the input is staged for
ForRun == IF staged = 0 THEN r + 1 ELSE r

\* Chunk 0 is staged before the job is issued, the others while it runs.
StageChunk ==
  /\ h = "stage" /\ staged < TilesA /\ MayStage
  /\ staged > 0 => pc # "idle" \/ rc # "none"
  /\ inp' = [inp EXCEPT ![staged] = ForRun] /\ staged' = staged + 1
  /\ h' = "publish"
  /\ UNCHANGED <<plan, engine, store, mem, call, done, tensor, hooks>>

OneMore(tiles) == tiles + 1             \* mutant of Claim, MBP_B102_POISON 1
Claim(tiles)   == tiles

\* After the first chunk the job is issued.
PublishStage ==
  /\ h = "publish" /\ stage_wm' = Claim(staged)
  /\ IF staged = 1 THEN Enter ELSE UNCHANGED plan
  /\ h' = "stage"
  /\ UNCHANGED <<engine, store, inp, mem, call, staged, done, tensor,
                 armed, drain_wm, st_seen, stall>>

\* mbxr_stage_tr_j of weight tile t's columns
Columns(t) == IF \A a \in ATiles : mem[<<a, t>>] = Right(r, <<a, t>>) THEN call ELSE 0

TransposeTile ==
  /\ h = "stage" /\ staged = TilesA /\ done < drain_wm
  /\ tensor' = [tensor EXCEPT ![done] = Columns(done)] /\ done' = done + 1
  /\ UNCHANGED <<vars, h, call, staged, hooks>>

\* run_poll: hart 1 is done with the job
AllTransposed == pc \in {"idle", "software"} /\ done = TilesW  \* mutant of JobDone
JobDone       == pc \in {"idle", "software"}

TransposeRest(from) == [t \in WTiles |-> IF t >= from THEN Columns(t) ELSE tensor[t]]

\* b102_finish; a failure or a stall sends the kernel down the shipping path
KeepsStalled == rc = "OK"               \* mutant of Keeps
Keeps        == rc = "OK" /\ ~stall

Collect ==
  /\ h = "stage" /\ staged = TilesA /\ JobDone
  /\ drain_wm' = TilesW /\ armed' = 0 /\ pc' = "idle"
  /\ IF Keeps THEN h' = "idle" /\ tensor' = TransposeRest(done) /\ done' = TilesW
              ELSE h' = "ship" /\ UNCHANGED <<tensor, done>>
  /\ UNCHANGED <<r, mode, k, aIn, wIn, cab, cwb, placed, rc, engine, store, inp, mem,
                 call, staged, stage_wm, st_seen, stall>>

\* the shipping path: stage everything, then run
Ship ==
  /\ h = "ship" /\ Enter /\ inp' = [a \in ATiles |-> r + 1] /\ h' = "wait"
  /\ UNCHANGED <<engine, store, mem, call, staged, done, tensor, hooks>>

CollectShipped ==
  /\ h = "wait" /\ JobDone /\ pc' = "idle" /\ h' = "idle" /\ done' = TilesW
  /\ tensor' = (IF rc = "OK" THEN TransposeRest(0) ELSE [t \in WTiles |-> call])
  /\ UNCHANGED <<r, mode, k, aIn, wIn, cab, cwb, placed, rc, engine, store, inp, mem,
                 call, staged, hooks>>

Hart0 == StageChunk \/ PublishStage \/ TransposeTile \/ Collect \/ Ship
         \/ CollectShipped
-----------------------------------------------------------------------------
\* hart 1 spins on a fence or on the watermark, hart 0 polls; no call is left
Spins == (Masked \/ Gated \/ h \in {"wait", "stage"}) /\ UNCHANGED pvars
Over  == h = "idle" /\ r + 2 > MaxRuns /\ UNCHANGED pvars

PipeNext == Arm \/ Hart0 \/ PipeHart1 \/ PipeUnit \/ Spins \/ Over
PipeSpec == PipeInit /\ [][PipeNext]_pvars

\* both harts keep running and the engine moves when it can
FairPipe == PipeSpec /\ WF_pvars(Hart0) /\ WF_pvars(PipeHart1) /\ WF_pvars(PipeUnit)
-----------------------------------------------------------------------------
(* PROPERTIES *)

PipeTypeOK ==
  /\ TypeOK
  /\ h \in {"idle", "stage", "publish", "ship", "wait"} /\ call \in 0 .. MaxRuns
  /\ staged \in 0 .. TilesA /\ done \in 0 .. TilesW
  /\ tensor \in [WTiles -> 0 .. MaxRuns]
  /\ armed \in 0 .. 2 /\ stage_wm \in 0 .. TilesA /\ drain_wm \in 0 .. TilesW
  /\ st_seen \in 0 .. TilesW + 1 /\ stall \in BOOLEAN

\* "Hart 1's fill never reads a tile hart 0 has not written": unless the spin
\* ran out, what is in the activation buffers was staged for this run.
FillReadsStaged ==
  pc \notin {"idle", "software"} /\ ~stall /\ ~err =>
    \A b \in 0 .. 1 : aIn[b] # None /\ ~(ld.busy /\ ld.client = "A" /\ ld.buf = b) =>
                      bufs["A"][b] = <<r, aIn[b]>>

\* "Hart 0 never transposes output bytes the drain has not written": every
\* tile transposed while the engine runs is already right.
TransposedDrained ==
  h \in {"stage", "publish"} /\ ~stall /\ ~err =>
    \A t \in 0 .. done - 1 : tensor[t] = call

\* "There is no deadlock cycle, by ordering rather than by budget": the bound
\* on the spin is never what ends it.
NoStall == ~stall

\* Whatever happened on the way, each convolution returns its own answer.
Promise0 == INSTANCE Offload WITH
              MaxCalls <- MaxRuns, MaxParts <- TilesW, NBufs <- 1,
              phase <- IF h = "idle" THEN "idle" ELSE "busy", cur <- call,
              parts <- IF call = 0 THEN 1 ELSE TilesW,
              out <- [b \in {0} |-> [t \in 1 .. TilesW |->
                       IF tensor[t - 1] = 0 THEN <<0, 0>> ELSE <<tensor[t - 1], t>>]]
ConvOffloads == Promise0!Spec

\* Each convolution returns.
EveryConvReturns == h # "idle" ~> h = "idle"
=============================================================================
