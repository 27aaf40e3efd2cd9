-------------------------- MODULE StagePipe_proofs --------------------------
(* Theorems about StagePipe, for every number of tiles and of convolutions,  *)
(* every fault of the bus, and any bound of the spin.  HSpec is StagePipe    *)
(* with the history variable of MCStagePipe, which bounds the faults.        *)
EXTENDS MCStagePipe, EngineDriver_proofs

(***************************************************************************)
(* What hart 0 has published.  While it stages, the watermark follows the  *)
(* chunks it has written for the run, and the gate is shut unless the spin *)
(* ran out; on the shipping path everything was written before the run.    *)
(***************************************************************************)
Staging == h \in {"stage", "publish"}
Before  == h = "publish" /\ staged = 1  \* the job is not issued yet

Extents == staged \in 0 .. TilesA /\ stage_wm \in Nat /\ armed \in 0 .. 2
Places  == h \in {"idle", "stage", "publish", "ship", "wait"}
Mark    == /\ h = "stage" => stage_wm = staged
           /\ h = "publish" => stage_wm = staged - 1
Gate    == /\ ~Staging => armed = 0
           /\ Staging /\ ~stall => armed > 0
Waiting == Before \/ h \in {"idle", "ship"} \/ (h = "stage" /\ staged = 0) => pc = "idle"
Staged  == /\ Staging => \A a \in 0 .. staged - 1 : inp[a] = IF Before THEN r + 1 ELSE r
           /\ h = "wait" => \A a \in ATiles : inp[a] = r
StageInv == Extents /\ Places /\ Mark /\ Gate /\ Waiting /\ Staged

(***************************************************************************)
(* What the activation buffers hold.                                       *)
(***************************************************************************)
Shapes  == /\ r \in Int /\ inp = [a \in ATiles |-> inp[a]]
           /\ aIn \in [0 .. 1 -> Int]
           /\ bufs = [c \in {"A", "W"} |-> [b \in 0 .. 1 |-> bufs[c][b]]]
Empty   == pc \in {"busy", "start"} => \A b \in 0 .. 1 : aIn[b] = None
Loading == \A b \in 0 .. 1 : FillingA(b) => ld.tile = aIn[b] /\ ld.tile \in ATiles /\ inp[ld.tile] = r
Loaded  == \A b \in 0 .. 1 : aIn[b] # None /\ ~FillingA(b) => bufs["A"][b] = <<r, aIn[b]>>
FillInv == Shapes /\ Empty /\ (Running /\ ~stall /\ ~err => Loading /\ Loaded)

PipeInv == InNest /\ BufferInv /\ StageInv /\ FillInv
-----------------------------------------------------------------------------
(* THE DRIVER'S STEPS IN THE PIPELINE *)

\* A descriptor may end the drain watermark, never the gate.
LEMMA OnStFrame ==
  ASSUME NEW full, OnSt(full), armed \in 0 .. 2
  PROVE  UNCHANGED <<stage_wm, stall>> /\ armed' \in 0 .. 2 /\ (armed' > 0 <=> armed > 0)
BY DEF OnSt, hooks

\* What hart 1 does to the pipeline: a step of the driver past the gate, or
\* the end of the spin.
LEMMA Hart1Step ==
  ASSUME PipeHart1, armed \in 0 .. 2
  PROVE  /\ UNCHANGED kernel
         /\ \/ SpinOut
            \/ /\ Hart1 /\ (LoadAct \/ Preload => ~Gated)
               /\ UNCHANGED <<stage_wm, stall>> /\ armed' \in 0 .. 2
               /\ (armed' > 0 <=> armed > 0)
<1>1. CASE HookedLoad
  BY <1>1 DEF HookedLoad, Hart1, hooks
<1>2. CASE SpinOut
  BY <1>2 DEF SpinOut
<1>3. CASE HookedArm
  <2>1. ArmStrided /\ UNCHANGED kernel /\ OnSt(WOuter \/ TilesA = 1) /\ pc = "arm"
    BY <1>3 DEF HookedArm, ArmStrided, At
  <2>2. ~LoadAct /\ ~Preload
    BY <2>1 DEF LoadAct, Preload, At
  <2> QED BY <2>1, <2>2, OnStFrame DEF Hart1
<1>4. CASE HookedStart
  <2>1. Start /\ UNCHANGED kernel /\ pc = "start"
    BY <1>4 DEF HookedStart, Start, At
  <2>2. ~LoadAct /\ ~Preload
    BY <2>1 DEF LoadAct, Preload, At
  <2>3. UNCHANGED hooks \/ \E full \in BOOLEAN : OnSt(full)
    BY <1>4 DEF HookedStart
  <2> QED BY <2>1, <2>2, <2>3, OnStFrame DEF Hart1, hooks
<1>5. CASE Unhooked
  <2>1. Hart1 /\ UNCHANGED kernel /\ UNCHANGED hooks
    BY <1>5 DEF Unhooked, Hart1
  <2>2. ~LoadAct /\ ~Preload
    BY <1>5 DEF Unhooked, LoadAct, Preload, At, AwaitIdle, LoadWgt, AwaitReady, Compute, NestDone, PadTile,
           Finish, PlaceEarly, PlaceLate, TimeOut
  <2> QED BY <2>1, <2>2 DEF hooks
<1> QED BY <1>1, <1>2, <1>3, <1>4, <1>5 DEF PipeHart1
-----------------------------------------------------------------------------
(* THE WATERMARK *)

\* A step that leaves hart 0 where it is keeps what was published, unless it
\* opens the gate without ending the spin.
LEMMA StageFrame ==
  ASSUME StageInv, UNCHANGED <<h, staged, stage_wm, r, inp>>, armed' \in 0 .. 2,
         pc = "idle" => pc' = "idle",
         \/ UNCHANGED stall /\ (armed' > 0 <=> armed > 0)
         \/ stall' /\ armed' = 0
  PROVE  StageInv'
<1>1. Extents' /\ Places' /\ Mark' /\ Staged' /\ Waiting'
  BY DEF StageInv, Extents, Places, Mark, Staged, Staging, Before, Waiting
<1>2. Gate'
  BY DEF StageInv, Extents, Gate, Staging
<1> QED BY <1>1, <1>2 DEF StageInv

\* Each step of hart 0 keeps it.
LEMMA Hart0Stages ==
  ASSUME StageInv, Shapes, Arm \/ Hart0
  PROVE  StageInv'
<1> USE EngineShapeAssumption
<1>1. CASE Arm
  <2>1. /\ h' = "stage" /\ staged' = 0 /\ stage_wm' = 0 /\ armed' = 2 /\ stall' = FALSE
        /\ pc' = "idle"
    BY <1>1 DEF Arm, vars, plan
  <2> QED BY <2>1 DEF StageInv, Extents, Places, Mark, Gate, Waiting, Staged, Staging, Before
<1>2. CASE StageChunk
  <2>1. /\ h = "stage" /\ staged < TilesA /\ staged' = staged + 1 /\ h' = "publish"
        /\ inp' = [inp EXCEPT ![staged] = ForRun] /\ pc' = pc /\ r' = r
        /\ UNCHANGED <<stage_wm, armed, stall>>
    BY <1>2 DEF StageChunk, plan, hooks
  <2>2. Extents' /\ Places' /\ Mark' /\ Gate' /\ Waiting'
    BY <2>1 DEF StageInv, Extents, Places, Mark, Gate, Waiting, Staging, Before
  <2>3. \A a \in 0 .. staged : inp'[a] = IF staged = 0 THEN r + 1 ELSE r
    <3>1. staged \in ATiles /\ DOMAIN inp = ATiles
      BY <2>1 DEF StageInv, Extents, Shapes, ATiles
    <3>2. inp'[staged] = ForRun /\ \A a \in ATiles \ {staged} : inp'[a] = inp[a]
      BY <2>1, <3>1
    <3>3. \A a \in 0 .. staged - 1 : inp[a] = r /\ a \in ATiles \ {staged}
      BY <2>1 DEF StageInv, Extents, Staged, Staging, Before, ATiles
    <3> QED BY <3>2, <3>3 DEF ForRun, StageInv, Extents
  <2>4. Staged'
    BY <2>1, <2>3 DEF StageInv, Extents, Staged, Staging, Before
  <2> QED BY <2>2, <2>4 DEF StageInv
<1>3. CASE PublishStage
  <2>1. /\ h = "publish" /\ h' = "stage" /\ stage_wm' = staged
        /\ UNCHANGED <<inp, staged, armed, stall>> /\ (staged # 1 => UNCHANGED <<r, pc>>)
        /\ (staged = 1 => r' = r + 1)
    BY <1>3 DEF PublishStage, Claim, Enter, plan
  <2>2. staged > 0
    BY <2>1 DEF StageInv, Extents, Waiting, Mark, Before, Gate
  <2> QED BY <2>1, <2>2 DEF StageInv, Extents, Places, Mark, Gate, Waiting, Staged, Staging, Before
<1>4. CASE TransposeTile
  BY <1>4, StageFrame DEF TransposeTile, vars, plan, hooks, StageInv, Extents
<1>5. CASE Collect
  <2>1. /\ h = "stage" /\ staged = TilesA /\ h' \in {"idle", "ship"} /\ armed' = 0 /\ pc' = "idle"
        /\ UNCHANGED <<staged, stage_wm>>
    BY <1>5 DEF Collect
  <2> QED BY <2>1 DEF StageInv, Extents, Places, Mark, Gate, Waiting, Staged, Staging, Before
<1>6. CASE Ship
  <2>1. /\ h = "ship" /\ h' = "wait" /\ inp' = [a \in ATiles |-> r + 1] /\ r' = r + 1
        /\ UNCHANGED <<staged, stage_wm, armed>>
    BY <1>6 DEF Ship, Enter, hooks
  <2> QED BY <2>1 DEF StageInv, Extents, Places, Mark, Gate, Waiting, Staged, Staging, Before
<1>7. CASE CollectShipped
  <2>1. /\ h = "wait" /\ h' = "idle" /\ pc' = "idle" /\ UNCHANGED <<staged, stage_wm, armed>>
    BY <1>7 DEF CollectShipped, hooks
  <2> QED BY <2>1 DEF StageInv, Extents, Places, Mark, Gate, Waiting, Staged, Staging, Before
<1> QED BY <1>1, <1>2, <1>3, <1>4, <1>5, <1>6, <1>7 DEF Hart0

\* Every step keeps it.
LEMMA StageKept ==
  ASSUME StageInv, Shapes, [PipeNext]_pvars
  PROVE  StageInv'
<1>1. CASE Arm \/ Hart0
  BY <1>1, Hart0Stages
<1>2. CASE PipeHart1
  <2>1. armed \in 0 .. 2
    BY DEF StageInv, Extents
  <2>2. UNCHANGED <<h, staged>>
    BY <1>2, <2>1, Hart1Step DEF kernel
  <2>3. CASE SpinOut
    BY <2>3, <2>2, StageFrame DEF SpinOut, vars, plan
  <2>4. CASE Hart1 /\ UNCHANGED <<stage_wm, stall>> /\ armed' \in 0 .. 2 /\ (armed' > 0 <=> armed > 0)
    BY <2>4, <2>2, Hart1Frame, StageFrame
  <2> QED BY <1>2, <2>1, <2>3, <2>4, Hart1Step
<1>3. CASE PipeUnit
  BY <1>3, UnitFrame, StageFrame DEF PipeUnit, kernel, hooks, plan, StageInv, Extents
<1>4. CASE UNCHANGED pvars
  BY <1>4, StageFrame DEF pvars, vars, plan, kernel, hooks, StageInv, Extents
<1> QED BY <1>1, <1>2, <1>3, <1>4 DEF PipeNext, Spins, Over

\* While the gate is shut there is something left to publish.
LEMMA GateOpens ==
  ASSUME StageInv, InNest, Gated
  PROVE  Publishes
<1>1. armed > 0 /\ NextAct # None /\ stage_wm < NextAct + 1
  BY DEF Gated
<1>2. NextAct \in ATiles
  <2>1. CASE pc = "act" /\ NeedsA(k)
    BY <2>1, TilesOfPair DEF NextAct, InNest
  <2>2. CASE ~(pc = "act" /\ NeedsA(k))
    <3>1. k < Total /\ NextAct = ATile(k + 1)
      BY <2>2, <1>1 DEF NextAct
    <3>2. k + 1 \in 1 .. Total
      BY <3>1, Sizes DEF InNest
    <3> QED BY <3>1, <3>2, TilesOfPair
  <2> QED BY <2>1, <2>2
<1>3. h \in {"stage", "publish"}
  BY <1>1 DEF StageInv, Gate, Staging
<1>4. h = "stage" => staged < TilesA
  BY <1>1, <1>2, EngineShapeAssumption DEF StageInv, Mark, Extents, ATiles
<1> QED BY <1>3, <1>4 DEF Publishes, MayStage
-----------------------------------------------------------------------------
(* THE ACTIVATION BUFFERS *)

\* A step that leaves the fills, the buffers and the input alone.
LEMMA FillFrame ==
  ASSUME FillInv, UNCHANGED <<r, inp, aIn, bufs, ld>>,
         ~err' => ~err, ~stall' => ~stall, Running' => Running,
         pc' \in {"busy", "start"} => pc \in {"busy", "start"}
  PROVE  FillInv'
BY DEF FillInv, Shapes, Empty, Loading, Loaded, FillingA

\* Past the gate, what the next fill reads was staged for this run.
LEMMA GateHolds ==
  ASSUME StageInv, Running, ~stall, ~Gated, ~Masked, NextAct \in ATiles
  PROVE  inp[NextAct] = r
<1>1. CASE Staging
  <2>1. stage_wm >= NextAct + 1
    BY <1>1 DEF StageInv, Extents, Gate, Gated, None, ATiles
  <2>2. staged >= NextAct + 1 /\ NextAct \in 0 .. staged - 1
    BY <1>1, <2>1, EngineShapeAssumption DEF StageInv, Extents, Mark, Staging, ATiles
  <2>3. ~Before
    BY DEF StageInv, Waiting, Running
  <2> QED BY <1>1, <2>2, <2>3 DEF StageInv, Staged
<1>2. CASE ~Staging
  <2>1. h = "wait"
    BY <1>2 DEF StageInv, Places, Waiting, Staging, Running
  <2> QED BY <2>1 DEF StageInv, Staged
<1> QED BY <1>1, <1>2

\* A fill of an activation tile: the engine takes it when no fill is running.
LEMMA ActFilled ==
  ASSUME FillInv, BufferInv, Running, ~Filling, NEW b \in 0 .. 1, NEW tile \in ATiles,
         ~stall => inp[tile] = r, Load("A", b, tile), aIn' = [aIn EXCEPT ![b] = tile],
         UNCHANGED <<r, inp, stall>>, pc' \notin {"busy", "start"}
  PROVE  FillInv'
<1>1. Shapes' /\ Empty'
  <2>1. aIn' \in [0 .. 1 -> Int]
    BY DEF FillInv, Shapes, ATiles
  <2>2. bufs' = [c \in {"A", "W"} |-> [x \in 0 .. 1 |-> bufs'[c][x]]]
    BY DEF FillInv, Shapes, Load
  <2> QED BY <2>1, <2>2 DEF FillInv, Shapes, Empty
<1>2. ASSUME ~stall', ~err' PROVE Loading' /\ Loaded'
  <2>1. ~LoadClash("A", b)
    BY <1>2 DEF Load
  <2>2. /\ ld' = [busy |-> TRUE, client |-> "A", buf |-> b, tile |-> tile] /\ ~err
        /\ bufs' = [bufs EXCEPT !["A"][b] = <<0, 0>>]
    BY <1>2, <2>1 DEF Load
  <2>3. \A x \in 0 .. 1 : x # b => aIn'[x] = aIn[x] /\ bufs'["A"][x] = bufs["A"][x]
    BY <2>2 DEF FillInv, Shapes
  <2>4. aIn'[b] = tile
    BY DEF FillInv, Shapes
  <2>5. Loaded
    BY <1>2, <2>2 DEF FillInv
  <2>6. \A x \in 0 .. 1 : ~FillingA(x) /\ (FillingA(x)' <=> x = b)
    BY <2>2 DEF FillingA, Filling
  <2>7. Loading'
    BY <2>2, <2>4, <2>6, <1>2 DEF Loading
  <2>8. Loaded'
    BY <2>3, <2>5, <2>6 DEF Loaded
  <2> QED BY <2>7, <2>8
<1> QED BY <1>1, <1>2 DEF FillInv

\* A fill of a weight tile leaves the activations alone.
LEMMA WgtFilled ==
  ASSUME FillInv, BufferInv, Running, ~Filling, NEW b \in 0 .. 1, NEW tile, Load("W", b, tile),
         UNCHANGED <<r, inp, aIn, stall>>, pc' \notin {"busy", "start"}
  PROVE  FillInv'
<1>1. Shapes' /\ Empty'
  <2>1. bufs' = [c \in {"A", "W"} |-> [x \in 0 .. 1 |-> bufs'[c][x]]]
    BY DEF FillInv, Shapes, Load
  <2> QED BY <2>1 DEF FillInv, Shapes, Empty
<1>2. ASSUME ~stall', ~err' PROVE Loading' /\ Loaded'
  <2>1. ~LoadClash("W", b)
    BY <1>2 DEF Load
  <2>2. /\ ld' = [busy |-> TRUE, client |-> "W", buf |-> b, tile |-> tile] /\ ~err
        /\ bufs' = [bufs EXCEPT !["W"][b] = <<0, 0>>]
    BY <1>2, <2>1 DEF Load
  <2>3. bufs'["A"] = bufs["A"]
    BY <2>2 DEF FillInv, Shapes
  <2>4. \A x \in 0 .. 1 : ~FillingA(x) /\ ~FillingA(x)'
    BY <2>2 DEF FillingA, Filling
  <2>5. Loaded
    BY <1>2, <2>2 DEF FillInv
  <2> QED BY <2>3, <2>4, <2>5 DEF Loading, Loaded
<1> QED BY <1>1, <1>2 DEF FillInv

\* Each step of the driver past the gate keeps the activation buffers.
LEMMA Hart1Fills ==
  ASSUME PipeInv, Hart1, LoadAct \/ Preload => ~Gated, UNCHANGED stall
  PROVE  FillInv'
<1> USE DEF At, PipeInv
<1> DEFINE Same == /\ UNCHANGED <<r, inp, aIn, bufs, ld>> /\ (~err' => ~err)
                   /\ (Running' => Running) /\ pc' \notin {"busy", "start"}
<1>1. CASE AwaitIdle
  <2>1. /\ pc = "busy" /\ pc' = "start" /\ ~Filling /\ UNCHANGED <<r, inp, aIn, bufs, ld>>
    BY <1>1 DEF AwaitIdle, Masked, Busy, engine
  <2> QED BY <2>1 DEF FillInv, Shapes, Empty, Loading, Loaded, FillingA, Filling
<1>2. CASE Start
  <2>1. /\ pc = "start" /\ pc' = "act" /\ UNCHANGED <<r, inp, aIn, bufs, ld>>
    BY <1>2 DEF Start
  <2> QED BY <2>1 DEF BufferInv, Filled, Filling, FillInv, Shapes, Empty, Loading, Loaded, FillingA
<1>3. CASE LoadAct
  <2>1. /\ pc = "act" /\ pc' = "wgt" /\ ~Masked /\ ~Gated /\ UNCHANGED <<r, inp>>
    BY <1>3 DEF LoadAct
  <2>2. CASE NeedsA(k)
    <3>1. /\ ~Filling /\ NextAct = ATile(k) /\ ATile(k) \in ATiles
      BY <2>1, <2>2, TilesOfPair DEF Masked, NextAct, InNest
    <3>2. /\ Load("A", Other(cab), ATile(k)) /\ aIn' = [aIn EXCEPT ![Other(cab)] = ATile(k)]
          /\ Other(cab) \in 0 .. 1
      BY <1>3, <2>2 DEF LoadAct, Other
    <3>3. ~stall => inp[ATile(k)] = r
      BY <2>1, <3>1, GateHolds DEF Running
    <3> QED BY <2>1, <3>1, <3>2, <3>3, ActFilled DEF Running
  <2>3. CASE ~NeedsA(k)
    <3>1. Same
      BY <1>3, <2>1, <2>3 DEF LoadAct, Running
    <3> QED BY <3>1, FillFrame
  <2> QED BY <2>2, <2>3
<1>4. CASE LoadWgt
  <2>1. /\ pc = "wgt" /\ pc' = "ready" /\ ~Masked /\ UNCHANGED <<r, inp, aIn>>
    BY <1>4 DEF LoadWgt
  <2>2. CASE NeedsW(k)
    <3>1. ~Filling /\ Load("W", Other(cwb), WTile(k)) /\ Other(cwb) \in 0 .. 1
      BY <1>4, <2>1, <2>2 DEF Masked, LoadWgt, Other
    <3> QED BY <2>1, <3>1, WgtFilled DEF Running
  <2>3. CASE ~NeedsW(k)
    <3>1. Same
      BY <1>4, <2>1, <2>3 DEF LoadWgt, Running
    <3> QED BY <3>1, FillFrame
  <2> QED BY <2>2, <2>3
<1>5. CASE Preload
  <2>1. /\ pc = "pre" /\ pc' = "act" /\ ~Masked /\ ~Gated /\ k < Total /\ UNCHANGED <<r, inp>>
    BY <1>5 DEF Preload
  <2>2. k + 1 \in 1 .. Total
    BY <2>1, Sizes DEF InNest
  <2>3. Other(cab) \in 0 .. 1 /\ Other(cwb) \in 0 .. 1
    BY DEF Other
  <2>4. CASE NeedsA(k + 1)
    <3>1. ~Filling /\ NextAct = ATile(k + 1) /\ ATile(k + 1) \in ATiles
      BY <2>1, <2>2, <2>4, TilesOfPair DEF Masked, NextAct
    <3>2. /\ Load("A", Other(cab), ATile(k + 1))
          /\ aIn' = [aIn EXCEPT ![Other(cab)] = ATile(k + 1)]
      BY <1>5, <2>4 DEF Preload
    <3>3. ~stall => inp[ATile(k + 1)] = r
      BY <2>1, <3>1, GateHolds DEF Running
    <3> QED BY <2>1, <2>3, <3>1, <3>2, <3>3, ActFilled DEF Running
  <2>5. CASE ~NeedsA(k + 1) /\ NeedsW(k + 1)
    <3>1. ~Filling /\ Load("W", Other(cwb), WTile(k + 1)) /\ UNCHANGED aIn
      BY <1>5, <2>1, <2>5 DEF Masked, Preload
    <3> QED BY <2>1, <2>3, <3>1, WgtFilled DEF Running
  <2>6. CASE ~NeedsA(k + 1) /\ ~NeedsW(k + 1)
    <3>1. Same
      BY <1>5, <2>1, <2>6 DEF Preload, Running
    <3> QED BY <3>1, FillFrame
  <2> QED BY <2>4, <2>5, <2>6
<1>6. CASE Compute
  <2>1. Same
    <3>1. UNCHANGED <<r, inp, aIn, bufs, ld>> /\ pc = "mm" /\ pc' = "pre"
      BY <1>6 DEF Compute
    <3>2. Multiply(cab', cwb', 1)
      BY <1>6 DEF Compute
    <3>3. ~err' => ~err
      BY <3>2 DEF Multiply
    <3> QED BY <3>1, <3>3 DEF Running
  <2> QED BY <2>1, FillFrame
<1>7. CASE PadTile
  <2>1. Same
    <3>1. UNCHANGED <<r, inp, aIn, bufs, ld>> /\ pc = "pad" /\ pc' = "end"
      BY <1>7 DEF PadTile
    <3>2. Multiply(cab, cwb, Pad)
      BY <1>7 DEF PadTile
    <3>3. ~err' => ~err
      BY <3>2 DEF Multiply
    <3> QED BY <3>1, <3>3 DEF Running
  <2> QED BY <2>1, FillFrame
<1>8. CASE AwaitReady \/ ArmStrided \/ NestDone
  <2>1. Same
    BY <1>8 DEF AwaitReady, ArmStrided, NestDone, engine, Running
  <2> QED BY <2>1, FillFrame
<1>9. CASE Finish
  <2>1. Same
    BY <1>9 DEF Finish, Return, engine, Running
  <2> QED BY <2>1, FillFrame
<1>10. CASE PlaceEarly
  <2>1. UNCHANGED <<r, inp, aIn, bufs, ld, err, pc>>
    BY <1>10 DEF PlaceEarly, engine
  <2> QED BY <2>1, FillFrame DEF Running
<1>11. CASE PlaceLate \/ TimeOut
  <2>1. UNCHANGED <<r, inp, aIn, bufs, ld, err>> /\ pc' \in {"idle", "software"}
    BY <1>11 DEF PlaceLate, TimeOut, Return, engine
  <2> QED BY <2>1, FillFrame DEF Running
<1>12. CASE Software
  <2>1. UNCHANGED <<r, inp, aIn, bufs, ld, err>> /\ pc' = "idle"
    BY <1>12 DEF Software, engine
  <2> QED BY <2>1, FillFrame DEF Running
<1> QED BY <1>1, <1>2, <1>3, <1>4, <1>5, <1>6, <1>7, <1>8, <1>9, <1>10, <1>11, <1>12 DEF Hart1

\* A fill that ends leaves what was staged for the run in its buffer.
LEMMA UnitFills ==
  ASSUME FillInv, BufferInv, Unit, UNCHANGED stall
  PROVE  FillInv'
<1>1. CASE FillDone /\ ~err'
  <2>1. /\ Filling /\ ld' = [ld EXCEPT !.busy = FALSE] /\ ~err
        /\ UNCHANGED <<r, inp, aIn, pc>>
        /\ bufs' = [bufs EXCEPT ![ld.client][ld.buf] =
                      <<IF ld.client = "A" THEN inp[ld.tile] ELSE r, ld.tile>>]
    BY <1>1 DEF FillDone, plan
  <2>2. ld.client \in {"A", "W"} /\ ld.buf \in 0 .. 1 /\ DOMAIN ld = {"busy", "client", "buf", "tile"}
    BY DEF BufferInv, Units
  <2>3. Shapes' /\ Empty'
    <3>1. bufs' = [c \in {"A", "W"} |-> [x \in 0 .. 1 |-> bufs'[c][x]]]
      BY <2>1, <2>2 DEF FillInv, Shapes
    <3> QED BY <2>1, <3>1 DEF FillInv, Shapes, Empty
  <2>4. ~ld'.busy
    BY <2>1, <2>2
  <2>5. \A x \in 0 .. 1 : bufs'["A"][x] = IF FillingA(x) THEN <<inp[ld.tile], ld.tile>>
                                                        ELSE bufs["A"][x]
    BY <2>1, <2>2 DEF FillInv, Shapes, FillingA, Filling
  <2>6. ASSUME Running', ~stall' PROVE Loading' /\ Loaded'
    <3>1. Loading /\ Loaded
      BY <2>1, <2>6 DEF FillInv, Running
    <3> QED BY <2>1, <2>4, <2>5, <3>1 DEF Loading, Loaded, FillingA
  <2> QED BY <2>3, <2>6 DEF FillInv
<1>2. CASE FillDone /\ err'
  <2>1. /\ UNCHANGED <<r, inp, aIn, pc>>
        /\ \/ UNCHANGED bufs
           \/ bufs' = [bufs EXCEPT ![ld.client][ld.buf] =
                         <<IF ld.client = "A" THEN inp[ld.tile] ELSE r, ld.tile>>]
    BY <1>2 DEF FillDone, plan
  <2>2. bufs' = [c \in {"A", "W"} |-> [x \in 0 .. 1 |-> bufs'[c][x]]]
    BY <2>1 DEF FillInv, Shapes, BufferInv, Units
  <2> QED BY <1>2, <2>1, <2>2 DEF FillInv, Shapes, Empty
<1>3. CASE Emit \/ Pack \/ StartPut
  <2>1. UNCHANGED <<r, inp, aIn, bufs, ld, pc, err>>
    BY <1>3 DEF Emit, Pack, StartPut, plan, engine
  <2> QED BY <2>1, FillFrame DEF Running
<1>4. CASE Ack
  <2>1. UNCHANGED <<r, inp, aIn, bufs, ld, pc>> /\ (err' = TRUE \/ err' = err)
    BY <1>4 DEF Ack, plan
  <2>2. ~err' => ~err
    BY <2>1
  <2> QED BY <2>1, <2>2, FillFrame DEF Running
<1> QED BY <1>1, <1>2, <1>3, <1>4 DEF Unit

\* Each step of hart 0 keeps the activation buffers: what it stages for the run
\* in flight is what a fill of that run is to read.
LEMMA Hart0Fills ==
  ASSUME PipeInv, Arm \/ Hart0
  PROVE  FillInv'
<1> USE DEF PipeInv
<1>1. CASE StageChunk
  <2>1. /\ h = "stage" /\ staged < TilesA /\ inp' = [inp EXCEPT ![staged] = ForRun]
        /\ UNCHANGED <<r, aIn, pc, bufs, ld, err, stall>>
    BY <1>1 DEF StageChunk, plan, engine, hooks
  <2>2. Running => ForRun = r
    BY <2>1 DEF StageInv, Waiting, Running, ForRun
  <2>3. Shapes' /\ Empty'
    BY <2>1 DEF FillInv, Shapes, Empty
  <2>4. \A a \in ATiles : inp'[a] \in {inp[a], ForRun}
    BY <2>1 DEF FillInv, Shapes
  <2> QED BY <2>1, <2>2, <2>3, <2>4 DEF FillInv, Loading, Loaded, FillingA, Running
<1>2. CASE Enter /\ UNCHANGED engine /\ inp' \in {inp, [a \in ATiles |-> r + 1]}
  <2>1. /\ pc' = "busy" /\ r' = r + 1 /\ aIn' = [b \in 0 .. 1 |-> None] /\ bufs' = bufs
    BY <1>2 DEF Enter, engine
  <2> QED BY <1>2, <2>1 DEF FillInv, Shapes, Empty, Running, None
<1>3. CASE UNCHANGED <<r, inp, aIn, bufs, ld, err>> /\ (pc' = "idle" \/ (pc' = pc /\ stall' = stall))
  <2>1. CASE pc' = "idle"
    BY <1>3, <2>1 DEF FillInv, Shapes, Empty, Running
  <2>2. CASE pc' = pc /\ stall' = stall
    BY <1>3, <2>2, FillFrame DEF Running
  <2> QED BY <1>3, <2>1, <2>2
<1> USE DEF vars, plan, engine, hooks
<1>4. CASE Arm
  <2>1. pc' = "idle" /\ UNCHANGED <<r, inp, aIn, bufs, ld, err>>
    BY <1>4 DEF Arm
  <2> QED BY <2>1, <1>3
<1>5. CASE PublishStage
  <2>1. CASE staged = 1
    BY <1>5, <2>1, <1>2 DEF PublishStage
  <2>2. CASE staged # 1
    BY <1>5, <2>2, <1>3 DEF PublishStage
  <2> QED BY <2>1, <2>2
<1>6. CASE TransposeTile
  BY <1>6, <1>3 DEF TransposeTile
<1>7. CASE Collect
  BY <1>7, <1>3 DEF Collect
<1>8. CASE Ship
  BY <1>8, <1>2 DEF Ship
<1>9. CASE CollectShipped
  BY <1>9, <1>3 DEF CollectShipped
<1> QED BY <1>1, <1>4, <1>5, <1>6, <1>7, <1>8, <1>9 DEF Hart0
-----------------------------------------------------------------------------
(* THE INVARIANT *)

\* What a step of the pipeline is to the driver.
LEMMA DriverStep ==
  ASSUME PipeInv, [PipeNext]_pvars
  PROVE  \/ Hart1
         \/ Unit
         \/ Enter /\ UNCHANGED engine
         \/ UNCHANGED <<ld, tseq, cab, cwb, k, err>> /\ pc' \in {pc, "idle"}
<1>1. armed \in 0 .. 2
  BY DEF PipeInv, StageInv, Extents
<1> USE DEF vars, plan, engine
<1>2. CASE Arm
  BY <1>2 DEF Arm
<1>3. CASE Hart0
  BY <1>3 DEF Hart0, StageChunk, PublishStage, TransposeTile, Collect, Ship, CollectShipped
<1>4. CASE PipeHart1
  BY <1>4, <1>1, Hart1Step DEF SpinOut
<1>5. CASE PipeUnit
  BY <1>5 DEF PipeUnit
<1>6. CASE UNCHANGED pvars
  BY <1>6 DEF pvars
<1> QED BY <1>2, <1>3, <1>4, <1>5, <1>6 DEF PipeNext, Spins, Over

\* The same, with what the step leaves alone.
LEMMA DriverRest ==
  ASSUME PipeInv, [PipeNext]_pvars
  PROVE  \/ Hart1
         \/ Unit
         \/ Enter /\ UNCHANGED engine /\ UNCHANGED store
         \/ /\ UNCHANGED <<err, ld, bufs, tseq, pipe, fifo, drain, puts, r, k, mode, aIn, wIn, rc>>
            /\ \/ pc' = pc
               \/ pc' = "idle" /\ pc \in {"idle", "software"}
<1>1. CASE Arm \/ Hart0
  BY <1>1 DEF Arm, Hart0, StageChunk, PublishStage, TransposeTile, Collect, Ship, CollectShipped,
     JobDone, vars, plan, engine, store
<1>2. CASE PipeHart1
  <2>1. armed \in 0 .. 2
    BY DEF PipeInv, StageInv, Extents
  <2> QED BY <1>2, <2>1, Hart1Step DEF SpinOut, vars, plan, engine, store
<1>3. CASE PipeUnit \/ UNCHANGED pvars
  BY <1>3 DEF PipeUnit, pvars, vars, plan, engine, store
<1> QED BY <1>1, <1>2, <1>3 DEF PipeNext, Spins, Over

\* The invariant holds at the start.
LEMMA PipeStarts == PipeInit => PipeInv
<1> SUFFICES ASSUME PipeInit PROVE PipeInv
  OBVIOUS
<1>1. InNest /\ BufferInv
  BY Initially DEF PipeInit
<1>2. StageInv
  BY EngineShapeAssumption
     DEF PipeInit, Init, StageInv, Extents, Places, Mark, Gate, Waiting, Staged, Staging, Before
<1>3. FillInv
  <2>1. /\ pc = "idle" /\ r = 0 /\ inp = [a \in ATiles |-> 0] /\ aIn = [b \in 0 .. 1 |-> None]
        /\ bufs = [c \in {"A", "W"} |-> [b \in 0 .. 1 |-> <<0, 0>>]]
    BY DEF PipeInit, Init
  <2> QED BY <2>1 DEF FillInv, Shapes, Empty, Running, None
<1> QED BY <1>1, <1>2, <1>3 DEF PipeInv

\* Every step of the pipeline keeps the invariant.
LEMMA PipeKept ==
  ASSUME PipeInv, [PipeNext]_pvars
  PROVE  PipeInv'
<1>1. InNest' /\ BufferInv'
  <2>1. CASE Hart1
    BY <2>1, Hart1Keeps, NestKept DEF PipeInv, InNest
  <2>2. CASE Unit
    BY <2>2, UnitKeeps, NestKept DEF PipeInv
  <2>3. CASE Enter /\ UNCHANGED engine
    BY <2>3, Entering, Sizes DEF PipeInv, InNest, Enter
  <2>4. CASE UNCHANGED <<ld, tseq, cab, cwb, k, err>> /\ pc' \in {pc, "idle"}
    BY <2>4, NoCommand, Sizes DEF PipeInv, InNest
  <2> QED BY <2>1, <2>2, <2>3, <2>4, DriverStep
<1>2. StageInv'
  BY StageKept DEF PipeInv, FillInv
<1>3. FillInv'
  <2>1. CASE Arm \/ Hart0
    BY <2>1, Hart0Fills
  <2>2. CASE PipeHart1
    <3>1. armed \in 0 .. 2
      BY DEF PipeInv, StageInv, Extents
    <3>2. CASE SpinOut
      BY <3>2, FillFrame DEF SpinOut, vars, plan, engine, Running, PipeInv
    <3>3. CASE Hart1 /\ (LoadAct \/ Preload => ~Gated) /\ UNCHANGED stall
      BY <3>3, Hart1Fills
    <3> QED BY <2>2, <3>1, <3>2, <3>3, Hart1Step
  <2>3. CASE PipeUnit
    BY <2>3, UnitFills DEF PipeUnit, hooks, PipeInv
  <2>4. CASE UNCHANGED pvars
    BY <2>4, FillFrame DEF pvars, vars, plan, engine, hooks, Running, PipeInv
  <2> QED BY <2>1, <2>2, <2>3, <2>4 DEF PipeNext, Spins, Over
<1> QED BY <1>1, <1>2, <1>3 DEF PipeInv

\* "Hart 1's fill never reads a tile hart 0 has not written": unless the spin
\* ran out or the engine reported an error, an activation buffer that is not
\* being filled holds the tile hart 1 takes it for, staged for this run.
THEOREM FillReadsStagedHolds == PipeSpec => []FillReadsStaged
<1>1. PipeInv => FillReadsStaged
  <2>1. ASSUME PipeInv, pc = "busy" PROVE FillReadsStaged
    BY <2>1 DEF PipeInv, FillInv, Empty, FillReadsStaged
  <2>2. ASSUME PipeInv, pc # "busy" PROVE FillReadsStaged
    BY <2>2 DEF PipeInv, FillInv, Loaded, FillingA, Running, FillReadsStaged
  <2> QED BY <2>1, <2>2
<1> QED BY <1>1, PipeStarts, PipeKept, PTL DEF PipeSpec

\* The history variable only restricts the pipeline.
LEMMA HistoryStep == [HNext]_hvars => [PipeNext]_pvars
BY DEF HNext, Closed, hvars

\* A gate that is shut will open: hart 0 still has something to publish, so the
\* spin of mbxr_b102.h ends by its bound only when staging is slower than it.
THEOREM NoStallUntilFaultHolds == HSpec => []NoStallUntilFault
<1> DEFINE Inv == PipeInv /\ NoStallUntilFault
<1>1. HInit => Inv
  BY PipeStarts DEF HInit, PipeInit, NoStallUntilFault, NoStall
<1>2. Inv /\ [HNext]_hvars => Inv'
  <2> SUFFICES ASSUME Inv, [HNext]_hvars PROVE Inv'
    OBVIOUS
  <2>1. PipeInv' /\ [PipeNext]_pvars
    BY HistoryStep, PipeKept
  <2>2. ASSUME stall', ~stall PROVE SpinOut
    <3>1. ~(UNCHANGED stall)
      BY <2>2
    <3>2. armed \in 0 .. 2
      BY DEF PipeInv, StageInv, Extents
    <3>3. CASE Arm \/ Hart0
      BY <2>2, <3>1, <3>3 DEF Arm, Hart0, StageChunk, PublishStage, TransposeTile, Collect,
                       Ship, CollectShipped, hooks
    <3>4. CASE PipeHart1
      BY <3>1, <3>2, <3>4, Hart1Step
    <3>5. CASE PipeUnit \/ UNCHANGED pvars
      BY <3>1, <3>5 DEF PipeUnit, hooks, pvars
    <3> QED BY <2>1, <3>3, <3>4, <3>5 DEF PipeNext, Spins, Over
  <2>3. ASSUME stall', ~stall PROVE Fault
    <3>1. Publishes
      BY <2>2, <2>3, GateOpens DEF SpinOut, PipeInv
    <3> QED BY <2>3, <3>1 DEF Fault
  <2>4. CASE HNext
    BY <2>1, <2>3, <2>4 DEF HNext, NoStallUntilFault, NoStall, Healthy
  <2>5. CASE UNCHANGED hvars
    BY <2>1, <2>5 DEF hvars, pvars, hooks, NoStallUntilFault, NoStall, Healthy
  <2> QED BY <2>4, <2>5
<1>3. Inv => NoStallUntilFault
  OBVIOUS
<1> QED BY <1>1, <1>2, <1>3, PTL DEF HSpec

\* Only the bus raises the sticky bit.
LEMMA RaisedByFault ==
  ASSUME PipeInv, [PipeNext]_pvars, err', ~err
  PROVE  Fault
<1>1. ~Hart1
  BY Hart1Keeps DEF PipeInv, InNest, Accepted
<1>2. Unit
  BY <1>1, DriverStep DEF engine
<1> QED BY <1>2, UnitFrame DEF Fault

\* Until the bus reports an error the engine is never given a command it
\* refuses, whatever hart 0 stages meanwhile.
THEOREM NeverRefusedUntilFault == HSpec => [](Healthy => NeverRefused)
<1> DEFINE Inv == PipeInv /\ (Healthy => NeverRefused)
<1>1. HInit => Inv
  BY PipeStarts, Initially DEF HInit, PipeInit, NeverRefused
<1>2. Inv /\ [HNext]_hvars => Inv'
  <2> SUFFICES ASSUME Inv, [HNext]_hvars PROVE Inv'
    OBVIOUS
  <2>1. PipeInv' /\ [PipeNext]_pvars
    BY HistoryStep, PipeKept
  <2>2. ASSUME err', ~err PROVE Fault
    BY <2>1, <2>2, RaisedByFault
  <2>3. CASE HNext
    BY <2>1, <2>2, <2>3 DEF HNext, NeverRefused, Healthy
  <2>4. CASE UNCHANGED hvars
    BY <2>1, <2>4 DEF hvars, pvars, vars, engine, NeverRefused, Healthy
  <2> QED BY <2>3, <2>4
<1>3. Inv => (Healthy => NeverRefused)
  OBVIOUS
<1> QED BY <1>1, <1>2, <1>3, PTL DEF HSpec
-----------------------------------------------------------------------------
(* TYPES AND COUNTS IN THE PIPELINE *)

\* A run that hart 0 is preparing fits the bound.
Room == (h = "stage" /\ staged = 0) \/ Before => r + 1 <= MaxRuns

\* Hart 0's steps keep the driver's types; the run it prepares fits the bound.
LEMMA Hart0Typed ==
  ASSUME PipeInv, Typed, Room, Arm \/ Hart0
  PROVE  Typed' /\ Room'
<1>a. /\ PlanOK /\ UnitOK /\ StoreOK /\ MemOK /\ r \in 0 .. MaxRuns /\ MaxRuns \in Nat
      /\ staged \in 0 .. TilesA
  BY EngineBoundsAssumption DEF Typed, PlanOK, PipeInv, StageInv, Extents
<1>1. CASE Arm
  BY <1>a, <1>1, FrameTyped DEF Arm, Typed, Room, Before, vars, plan, engine, store
<1>2. CASE StageChunk
  <2>1. /\ h = "stage" /\ h' = "publish" /\ staged' = staged + 1 /\ r' = r
        /\ UNCHANGED plan /\ UNCHANGED engine /\ UNCHANGED store /\ mem' = mem
        /\ inp' = [inp EXCEPT ![staged] = ForRun]
    BY <1>2 DEF StageChunk, plan
  <2>2. ForRun \in 0 .. MaxRuns
    BY <1>a, <2>1 DEF ForRun, Room
  <2>3. MemOK'
    BY <1>a, <2>1, <2>2 DEF MemOK
  <2>4. Room'
    BY <1>a, <2>1 DEF Room, Before
  <2> QED BY <1>a, <2>1, <2>3, <2>4, FrameTyped DEF Typed, engine, store
<1>3. CASE PublishStage
  <2>1. UNCHANGED engine /\ UNCHANGED store /\ UNCHANGED <<inp, mem>> /\ (Enter \/ UNCHANGED plan)
        /\ h = "publish" /\ h' = "stage" /\ staged' = staged
    BY <1>3 DEF PublishStage
  <2>2. PlanOK'
    BY <1>a, <2>1, EnterTyped, FrameTyped
  <2>3. Room'
    <3>1. staged # 0
      BY <2>1 DEF PipeInv, StageInv, Mark, Extents
    <3> QED BY <2>1, <3>1 DEF Room, Before
  <2> QED BY <1>a, <2>1, <2>2, <2>3, FrameTyped DEF Typed, engine, store
<1>4. CASE TransposeTile
  BY <1>a, <1>4, FrameTyped DEF TransposeTile, Typed, Room, Before, vars, plan, engine, store
<1>5. CASE Collect \/ CollectShipped
  <2>1. UNCHANGED engine /\ UNCHANGED store /\ UNCHANGED <<inp, mem>>
        /\ UNCHANGED <<r, mode, k, aIn, wIn, cab, cwb, placed, rc>> /\ pc' = "idle"
        /\ h' \in {"idle", "ship"}
    BY <1>5 DEF Collect, CollectShipped
  <2>2. PlanOK'
    BY <1>a, <2>1 DEF PlanOK, Steps
  <2> QED BY <1>a, <2>1, <2>2, FrameTyped DEF Typed, engine, store, Room, Before
<1>6. CASE Ship
  <2>1. Enter /\ UNCHANGED engine /\ UNCHANGED store /\ mem' = mem /\ h' = "wait"
        /\ inp' = [a \in ATiles |-> r + 1]
    BY <1>6 DEF Ship
  <2>2. PlanOK' /\ r + 1 \in 0 .. MaxRuns
    BY <1>a, <2>1, EnterTyped
  <2>3. MemOK'
    BY <1>a, <2>1, <2>2 DEF MemOK
  <2> QED BY <1>a, <2>1, <2>2, <2>3, FrameTyped DEF Typed, engine, store, Room, Before
<1> QED BY <1>1, <1>2, <1>3, <1>4, <1>5, <1>6 DEF Hart0

PipeRun == PipeInv /\ Typed /\ Room /\ CountInv

\* Every step of the pipeline keeps the driver's types and counts.
LEMMA RunKept ==
  ASSUME PipeRun, [PipeNext]_pvars
  PROVE  PipeRun'
<1> USE DEF PipeRun
<1>1. PipeInv'
  BY PipeKept
<1>2. Typed' /\ Room'
  <2>1. CASE Arm \/ Hart0
    BY <2>1, Hart0Typed
  <2>2. CASE UNCHANGED kernel /\ (Hart1 \/ Unit \/ UNCHANGED vars)
    <3>1. Typed'
      <4>1. k \in 1 .. Total /\ PlanOK /\ UnitOK /\ StoreOK /\ MemOK
        BY DEF Typed, PlanOK
      <4>2. CASE UNCHANGED vars
        BY <4>1, <4>2, FrameTyped DEF Typed, vars, plan, engine, store
      <4> QED BY <2>2, <4>2, Hart1Typed, UnitTyped DEF PipeInv
    <3>2. r' = r
      BY <2>2, Hart1Frame, UnitFrame DEF vars, plan
    <3> QED BY <2>2, <3>1, <3>2 DEF Room, Before, kernel
  <2>3. PipeHart1 => UNCHANGED kernel /\ (Hart1 \/ Unit \/ UNCHANGED vars)
    BY Hart1Step DEF PipeInv, StageInv, Extents, SpinOut
  <2> QED BY <2>1, <2>2, <2>3 DEF PipeNext, PipeUnit, Spins, Over, pvars
<1>3. CountInv'
  <2>1. CASE Hart1 \/ Unit
    BY <2>1, Hart1Counts, UnitCounts DEF PipeInv
  <2>2. CASE Enter /\ UNCHANGED engine /\ UNCHANGED store
    BY <2>2, EnterCounts
  <2>3. CASE /\ UNCHANGED <<ld, tseq, pipe, fifo, drain, puts, k, mode>>
             /\ pc' = "idle" \/ pc' = pc
    <3>1. CASE pc' = "idle"
      BY <2>3, <3>1, CountFrame DEF Running, Nest
    <3>2. CASE pc' = pc
      BY <2>3, <3>2 DEF CountInv, Balance, Nest, Quiet, Owed, Col, InMotion, Running, Strided, WOuter,
         Pad, Busy, Filling, Computing, Draining, InPipe
    <3> QED BY <2>3, <3>1, <3>2
  <2> QED BY <2>1, <2>2, <2>3, DriverRest
<1> QED BY <1>1, <1>2, <1>3

\* The kernel promises the driver's promises until the first fault: no command
\* is refused and, with a poll limit that outlasts the engine's own work, no
\* wait of a run ends by it.
THEOREM CleanUntilFaultHolds ==
  ASSUME Patient
  PROVE  HSpec => []CleanUntilFault
<1> DEFINE Inv == PipeRun /\ (Healthy => Smooth)
<1>1. HInit => Inv
  <2> SUFFICES ASSUME HInit PROVE Inv
    OBVIOUS
  <2>1. PipeInit /\ Init
    BY DEF HInit, PipeInit
  <2>2. PipeInv /\ Typed /\ RunInv /\ Smooth
    BY <2>1, PipeStarts, InitRuns, TypedInitially
  <2>3. Room
    BY <2>1 DEF PipeInit, Room, Before
  <2> QED BY <2>2, <2>3 DEF PipeRun, RunInv
<1>2. Inv /\ [HNext]_hvars => Inv'
  <2> SUFFICES ASSUME Inv, [HNext]_hvars PROVE Inv'
    OBVIOUS
  <2>1. PipeRun' /\ [PipeNext]_pvars
    BY HistoryStep, RunKept
  <2>2. ASSUME Smooth, ~Fault PROVE Smooth'
    <3>1. PipeInv /\ RunInv /\ ~err
      BY <2>2 DEF PipeRun, RunInv, Smooth, PipeInv
    <3>2. ~err'
      BY <2>1, <2>2, <3>1, RaisedByFault
    <3>3. CASE Hart1
      BY <2>2, <3>1, <3>2, <3>3, Hart1Smooth
    <3>4. CASE Unit
      BY <2>2, <3>1, <3>2, <3>4, UnitSmooth DEF Fault
    <3>5. CASE Enter /\ UNCHANGED engine /\ UNCHANGED store
      BY <2>2, <3>5, EnterSmooth
    <3>6. CASE UNCHANGED <<err, ld, tseq, pipe, drain, puts, rc, pc>>
      BY <2>2, <3>6 DEF Smooth, NoLoss, Calm, Busy, Filling, Computing, Draining, InPipe
    <3>7. CASE /\ UNCHANGED <<err, ld, tseq, pipe, drain, puts, rc>>
               /\ pc' = "idle" /\ pc \in {"idle", "software"}
      BY <2>2, <3>6, <3>7 DEF Smooth
    <3> QED BY <2>1, <3>1, <3>3, <3>4, <3>5, <3>6, <3>7, DriverRest
  <2>3. CASE HNext
    BY <2>1, <2>2, <2>3 DEF HNext, Healthy
  <2>4. CASE UNCHANGED hvars
    <3>1. UNCHANGED plan /\ UNCHANGED engine /\ UNCHANGED store /\ faulted' = faulted
      BY <2>4 DEF hvars, pvars, vars
    <3> QED BY <2>1, <3>1, RestKeeps DEF PipeRun, Healthy
  <2> QED BY <2>3, <2>4
<1>3. Inv => CleanUntilFault
  BY DEF CleanUntilFault, NeverRefused, NoTimeout, Smooth
<1> QED BY <1>1, <1>2, <1>3, PTL DEF HSpec
-----------------------------------------------------------------------------
(* TYPES OF THE PIPELINE *)

Preparing == (h = "stage" /\ staged = 0) \/ Before
Calls   == call \in Nat /\ call <= IF Preparing THEN r + 1 ELSE r
Marks   == /\ armed \in 0 .. 2 /\ stage_wm \in 0 .. TilesA /\ drain_wm \in 0 .. TilesW
           /\ st_seen \in 0 .. TilesW + 1 /\ (armed = 2 => st_seen <= TilesW) /\ stall \in BOOLEAN
Columned == done \in 0 .. TilesW /\ tensor \in [WTiles -> 0 .. MaxRuns]
KernelOK == Calls /\ Marks /\ Columned

\* A descriptor publishes no more weight tiles than there are.
LEMMA OnStTyped ==
  ASSUME Marks, NEW full \in BOOLEAN, OnSt(full)
  PROVE  Marks'
BY EngineShapeAssumption DEF Marks, OnSt, Trusted, Drained, hooks

\* Hart 1's hooks keep the watermarks within the tiles they count.
LEMMA Hart1Marks ==
  ASSUME Marks, PipeHart1
  PROVE  Marks'
<1>1. CASE HookedArm
  <2>1. OnSt(WOuter \/ TilesA = 1) /\ (WOuter \/ TilesA = 1) \in BOOLEAN
    BY <1>1 DEF HookedArm
  <2> QED BY <2>1, OnStTyped
<1>2. CASE HookedStart /\ ~UNCHANGED hooks
  <2>1. PICK full \in BOOLEAN : OnSt(full)
    BY <1>2 DEF HookedStart
  <2> QED BY <2>1, OnStTyped
<1>3. CASE UNCHANGED hooks
  BY <1>3 DEF Marks, hooks
<1>4. CASE SpinOut
  BY <1>4 DEF SpinOut, Marks
<1> QED BY <1>1, <1>2, <1>3, <1>4 DEF PipeHart1, HookedLoad, Unhooked

\* Hart 0's steps keep the kernel's own types.
LEMMA Hart0Kernel ==
  ASSUME PipeRun, KernelOK, Arm \/ Hart0
  PROVE  KernelOK'
<1> USE DEF KernelOK
<1>a. /\ staged \in 0 .. TilesA /\ r \in 0 .. MaxRuns /\ MaxRuns \in Nat /\ TilesA \in Nat \ {0}
      /\ TilesW \in Nat \ {0} /\ call \in 0 .. MaxRuns
  <2>1. staged \in 0 .. TilesA /\ r \in 0 .. MaxRuns /\ MaxRuns \in Nat
    BY EngineBoundsAssumption DEF PipeRun, Typed, PlanOK, PipeInv, StageInv, Extents
  <2> QED BY <2>1, EngineShapeAssumption DEF PipeRun, Calls, Preparing, Room
<1>b. \A t \in WTiles : Columns(t) \in 0 .. MaxRuns
  BY <1>a DEF Columns
<1>1. CASE Arm
  <2>1. /\ h = "idle" /\ h' = "stage" /\ call' = call + 1 /\ staged' = 0 /\ r' = r
        /\ done' = 0 /\ tensor' = tensor
    BY <1>1 DEF Arm, vars, plan
  <2>2. Calls'
    BY <1>a, <2>1 DEF Calls, Preparing, Before
  <2>3. Marks'
    <3>1. stall' \in BOOLEAN
      BY <1>1, Zenon DEF Arm
    <3>2. armed' = 2 /\ stage_wm' = 0 /\ drain_wm' = 0 /\ st_seen' = 0
      BY <1>1 DEF Arm
    <3> QED BY <1>a, <3>1, <3>2 DEF Marks
  <2> QED BY <1>a, <2>1, <2>2, <2>3 DEF Columned
<1>2. CASE StageChunk
  BY <1>a, <1>2 DEF StageChunk, Calls, Marks, Columned, Preparing, Before, hooks, plan
<1>3. CASE PublishStage
  <2>1. staged # 0
    BY <1>3 DEF PublishStage, PipeRun, PipeInv, StageInv, Mark, Extents
  <2>2. Calls'
    BY <1>a, <1>3, <2>1 DEF PublishStage, Enter, Calls, Preparing, Before, plan
  <2> QED BY <1>a, <1>3, <2>2 DEF PublishStage, Marks, Columned, Claim
<1>4. CASE TransposeTile
  <2>1. /\ done < drain_wm /\ done' = done + 1 /\ tensor' = [tensor EXCEPT ![done] = Columns(done)]
        /\ UNCHANGED <<h, call, staged, r>> /\ UNCHANGED hooks
    BY <1>4 DEF TransposeTile, vars, plan
  <2>2. done \in WTiles /\ done + 1 \in 0 .. TilesW
    BY <1>a, <2>1 DEF Marks, Columned, WTiles
  <2> QED BY <1>b, <2>1, <2>2 DEF Calls, Marks, Columned, Preparing, Before, hooks
<1>5. CASE Collect \/ CollectShipped
  <2>1. /\ UNCHANGED <<call, r, staged>> /\ h \in {"stage", "wait"} /\ h' \in {"idle", "ship"}
        /\ (h = "stage" => staged # 0) /\ done' \in {done, TilesW}
        /\ \/ tensor' = tensor
           \/ \E from \in Nat : tensor' = TransposeRest(from)
           \/ tensor' = [t \in WTiles |-> call]
    BY <1>a, <1>5 DEF Collect, CollectShipped, Columned
  <2>2. tensor' \in [WTiles -> 0 .. MaxRuns]
    BY <1>a, <1>b, <2>1 DEF TransposeRest, Columned
  <2>3. Marks'
    BY <1>a, <1>5 DEF Collect, CollectShipped, Marks, hooks
  <2> QED BY <1>a, <2>1, <2>2, <2>3 DEF Calls, Columned, Preparing, Before
<1>6. CASE Ship
  BY <1>a, <1>6 DEF Ship, Enter, Calls, Marks, Columned, Preparing, Before, hooks
<1> QED BY <1>1, <1>2, <1>3, <1>4, <1>5, <1>6 DEF Hart0

\* The kernel's own state has its types at the start.
LEMMA KernelStarts == PipeInit => PipeRun /\ KernelOK
<1> SUFFICES ASSUME PipeInit PROVE PipeRun /\ KernelOK
  OBVIOUS
<1>1. Init /\ PipeInv /\ Typed /\ CountInv
  BY PipeStarts, InitRuns DEF PipeInit, RunInv
<1>2. h = "idle" /\ r = 0 /\ MaxRuns \in Nat /\ TilesW \in Nat /\ TilesA \in Nat
  BY EngineShapeAssumption, EngineBoundsAssumption DEF PipeInit, Init
<1>3. KernelOK
  <2>1. Calls
    BY <1>2 DEF PipeInit, Calls, Preparing, Before
  <2>2. Marks
    <3>1. stall \in BOOLEAN
      BY Zenon DEF PipeInit
    <3>2. armed = 0 /\ stage_wm = 0 /\ drain_wm = 0 /\ st_seen = 0
      BY DEF PipeInit
    <3> QED BY <1>2, <3>1, <3>2 DEF Marks
  <2>3. Columned
    BY <1>2 DEF PipeInit, Columned
  <2> QED BY <2>1, <2>2, <2>3 DEF KernelOK
<1> QED BY <1>1, <1>2, <1>3 DEF PipeRun, Room, Before

\* Every step of the pipeline keeps the kernel's types beside the driver's.
LEMMA KernelKept ==
  ASSUME PipeRun, KernelOK, [PipeNext]_pvars
  PROVE  PipeRun' /\ KernelOK'
<1>1. PipeRun'
  BY RunKept
<1>2. CASE Arm \/ Hart0
  BY <1>1, <1>2, Hart0Kernel
<1>3. CASE PipeHart1
  <2>1. Marks'
    BY <1>3, Hart1Marks DEF KernelOK
  <2>2. UNCHANGED kernel /\ r' = r
    BY <1>3, Hart1Step, Hart1Frame DEF PipeRun, PipeInv, StageInv, Extents, SpinOut, vars, plan
  <2> QED BY <1>1, <2>1, <2>2 DEF KernelOK, Calls, Columned, Preparing, Before, kernel
<1>4. CASE UNCHANGED <<kernel, hooks>> /\ r' = r
  BY <1>1, <1>4 DEF KernelOK, Calls, Marks, Columned, Preparing, Before, kernel, hooks
<1>5. PipeUnit \/ UNCHANGED pvars => UNCHANGED <<kernel, hooks>> /\ r' = r
  BY UnitFrame DEF PipeUnit, pvars, vars, plan
<1> QED BY <1>2, <1>3, <1>4, <1>5 DEF PipeNext, Spins, Over

\* Every quantity of the pipeline has its type: no watermark passes the number
\* of tiles it counts, no column is transposed twice, and the driver's types
\* hold whatever hart 0 stages while it runs.
THEOREM PipeTypeCorrect == PipeSpec => []PipeTypeOK
<1> DEFINE Inv == PipeRun /\ KernelOK
<1>1. PipeInit => Inv
  BY KernelStarts
<1>2. Inv /\ [PipeNext]_pvars => Inv'
  BY KernelKept
<1>3. Inv => PipeTypeOK
  <2> SUFFICES ASSUME Inv PROVE PipeTypeOK
    OBVIOUS
  <2>1. TypeOK /\ h \in {"idle", "stage", "publish", "ship", "wait"} /\ staged \in 0 .. TilesA
    BY TypedIsTypeOK DEF PipeRun, PipeInv, StageInv, Places, Extents
  <2>2. call \in 0 .. MaxRuns
    BY EngineBoundsAssumption DEF PipeRun, Typed, PlanOK, KernelOK, Calls, Preparing, Room
  <2> QED BY <2>1, <2>2 DEF PipeTypeOK, KernelOK, Marks, Columned
<1> QED BY <1>1, <1>2, <1>3, PTL DEF PipeSpec
-----------------------------------------------------------------------------
(* WHICH WEIGHT TILES HAVE DRAINED.  Only a run whose descriptors are whole  *)
(* columns publishes any.                                                    *)

Full == Strided /\ (WOuter \/ TilesA = 1)

\* descriptors armed when the k-th pair is at its place in the loop
Row == IF Col # 0 \/ pc \notin {"act", "wgt", "ready", "arm"} THEN WTile(k) + 1 ELSE WTile(k)

Fresh  == Staging /\ (Preparing \/ pc \in {"busy", "start"}) =>
            ~stall /\ st_seen = 0 /\ drain_wm = 0 /\ done = 0
Water  == Staging /\ ~stall =>
            drain_wm = IF armed = 2 /\ st_seen > 0 THEN st_seen - 1 ELSE 0
Seen   == Staging /\ ~stall /\ armed = 2 =>
            /\ ~Full => st_seen <= IF Strided THEN 0 ELSE 1
            /\ Full /\ Running /\ pc # "start" => st_seen = Row
MarkInv == Fresh /\ Water /\ Seen

\* In whole columns, a pair's tiles are its column and row of the nest.
LEMMA NextRow ==
  ASSUME Full, NEW j \in 1 .. Total
  PROVE  /\ ATile(j) = (j - 1) % TilesA /\ WTile(j) \in WTiles
         /\ j = 1 => WTile(j) = 0
         /\ j < Total => WTile(j + 1) = IF (j - 1) % TilesA = TilesA - 1 THEN WTile(j) + 1 ELSE WTile(j)
<1>1. TilesA \in Nat \ {0} /\ TilesW \in Nat \ {0} /\ Total \in Nat /\ j - 1 \in Nat
  BY EngineShapeAssumption, Sizes
<1>2. ATile(j) \in ATiles /\ WTile(j) \in WTiles
  BY TilesOfPair
<1>3. CASE WOuter
  <2>1. \A i \in Nat : i \div TilesA \in Int /\ i % TilesA \in 0 .. TilesA - 1
                       /\ i = (TilesA * (i \div TilesA)) + (i % TilesA)
    BY <1>1
  <2>2. PICK q \in Int, x \in 0 .. TilesA - 1 :
          j - 1 = (TilesA * q) + x /\ (j - 1) % TilesA = x /\ (j - 1) \div TilesA = q
    BY <1>1, <2>1
  <2>3. ATile(j) = x /\ WTile(j) = q
    BY <1>3, <2>2 DEF ATile, WTile
  <2>4. j = 1 => q = 0
    <3>1. ASSUME j = 1 PROVE q = 0
      <4>1. 0 \div TilesA = 0
        BY <1>1, Quotient
      <4> QED BY <2>2, <3>1, <4>1
    <3> QED BY <3>1
  <2>5. WTile(j + 1) = j \div TilesA
    BY <1>1, <1>3 DEF WTile
  <2>6. CASE x = TilesA - 1
    <3>1. j = (TilesA * (q + 1)) + 0
      BY <1>1, <2>2, <2>6
    <3>2. j \div TilesA = q + 1
      BY <1>1, <2>2, <3>1, Quotient
    <3> QED BY <1>2, <2>2, <2>3, <2>4, <2>5, <2>6, <3>2
  <2>7. CASE x # TilesA - 1
    <3>1. j = (TilesA * q) + (x + 1) /\ x + 1 \in 0 .. TilesA - 1
      BY <1>1, <2>2, <2>7
    <3>2. j \div TilesA = q
      BY <1>1, <2>2, <3>1, Quotient
    <3> QED BY <1>2, <2>2, <2>3, <2>4, <2>5, <2>7, <3>2
  <2> QED BY <2>6, <2>7
<1>4. CASE ~WOuter
  <2>1. TilesA = 1 /\ Total = TilesW
    BY <1>1, <1>4 DEF Full, Total
  <2>2. (j - 1) % TilesA = 0
    <3>1. j - 1 = (TilesA * (j - 1)) + 0
      BY <1>1, <2>1
    <3> QED BY <1>1, <2>1, <3>1, Remainder
  <2>3. ATile(j) = 0
    BY <1>2, <2>1 DEF ATiles
  <2>4. \A i \in 0 .. TilesW - 1 : i % TilesW = i
    <3>1. \A i \in 0 .. TilesW - 1 : i = (TilesW * 0) + i
      BY <1>1
    <3> QED BY <1>1, <3>1, Remainder
  <2>5. WTile(j) = j - 1
    <3>1. j - 1 \in 0 .. TilesW - 1
      BY <1>1, <2>1
    <3> QED BY <1>4, <2>4, <3>1 DEF WTile
  <2>6. ASSUME j < Total PROVE WTile(j + 1) = j
    <3>1. j \in 0 .. TilesW - 1 /\ j + 1 - 1 = j
      BY <1>1, <2>1, <2>6
    <3> QED BY <1>4, <2>4, <3>1 DEF WTile
  <2> QED BY <1>2, <2>1, <2>2, <2>3, <2>5, <2>6
<1> QED BY <1>3, <1>4

\* Hart 0 starts the count afresh with each run it stages.
LEMMA Hart0Drained ==
  ASSUME PipeRun, KernelOK, MarkInv, Arm \/ Hart0
  PROVE  MarkInv'
<1>a. staged \in 0 .. TilesA /\ TilesA \in Nat \ {0} /\ done \in 0 .. TilesW
  BY EngineShapeAssumption DEF PipeRun, PipeInv, StageInv, Extents, KernelOK, Columned
<1>1. CASE Arm
  <2>1. ~stall' /\ pc' = "idle"
    BY <1>1, Zenon DEF Arm, vars, plan
  <2>2. armed' = 2 /\ st_seen' = 0 /\ drain_wm' = 0 /\ done' = 0
    BY <1>1 DEF Arm
  <2> QED BY <2>1, <2>2 DEF MarkInv, Fresh, Water, Seen, Running
<1>2. CASE StageChunk
  <2>1. /\ h = "stage" /\ h' = "publish" /\ staged' = staged + 1
        /\ UNCHANGED <<done, stall, armed, st_seen, drain_wm, pc, k, mode>>
    BY <1>2 DEF StageChunk, plan, hooks
  <2>2. Staging /\ Staging' /\ (Preparing' => Preparing)
    BY <1>a, <2>1 DEF Staging, Preparing, Before
  <2>3. Full' = Full /\ Row' = Row /\ Running' = Running /\ Strided' = Strided
    BY <2>1 DEF Full, Strided, WOuter, Row, Col, WTile, Running
  <2> QED BY <2>1, <2>2, <2>3 DEF MarkInv, Fresh, Water, Seen
<1>3. CASE PublishStage /\ staged = 1
  <2>1. /\ h = "publish" /\ h' = "stage" /\ pc' = "busy"
        /\ UNCHANGED <<done, stall, armed, st_seen, drain_wm>>
    BY <1>3 DEF PublishStage, Enter
  <2>2. Staging /\ Preparing
    BY <1>3, <2>1 DEF Staging, Preparing, Before
  <2> QED BY <2>1, <2>2 DEF MarkInv, Fresh, Water, Seen, Staging, Running
<1>4. CASE PublishStage /\ staged # 1
  <2>1. /\ h = "publish" /\ h' = "stage" /\ staged' = staged /\ staged # 0
        /\ UNCHANGED <<done, stall, armed, st_seen, drain_wm, pc, k, mode>>
    BY <1>4 DEF PublishStage, plan, PipeRun, PipeInv, StageInv, Mark, Extents
  <2>2. Staging /\ Staging' /\ ~Preparing'
    BY <1>a, <2>1 DEF Staging, Preparing, Before
  <2>3. Full' = Full /\ Row' = Row /\ Running' = Running /\ Strided' = Strided
    BY <2>1 DEF Full, Strided, WOuter, Row, Col, WTile, Running
  <2> QED BY <2>1, <2>2, <2>3 DEF MarkInv, Fresh, Water, Seen
<1>5. CASE TransposeTile
  <2>1. /\ done < drain_wm /\ UNCHANGED <<h, staged, stall, armed, st_seen, drain_wm, pc, k, mode>>
    BY <1>5 DEF TransposeTile, vars, plan, hooks
  <2>2. Staging' = Staging /\ Preparing' = Preparing /\ Full' = Full /\ Row' = Row
        /\ Running' = Running /\ Strided' = Strided
    BY <2>1 DEF Staging, Preparing, Before, Full, Strided, WOuter, Row, Col, WTile, Running
  <2>3. ~(Staging /\ (Preparing \/ pc \in {"busy", "start"}))
    BY <1>a, <2>1 DEF MarkInv, Fresh
  <2> QED BY <2>1, <2>2, <2>3 DEF MarkInv, Fresh, Water, Seen
<1>6. CASE Collect \/ Ship \/ CollectShipped
  BY <1>6 DEF Collect, Ship, CollectShipped, MarkInv, Fresh, Water, Seen, Staging
<1> QED BY <1>1, <1>2, <1>3, <1>4, <1>5, <1>6 DEF Hart0

\* Where the run is in its nest says how many descriptors it has armed.
LEMMA RowKept ==
  ASSUME PipeRun, Hart1, ~ArmStrided, Full', Running', pc' # "start"
  PROVE  Full /\ Running /\ (pc # "start" => Row' = Row) /\ (pc = "start" => Row' = 0)
<1> USE DEF At
<1>a. k \in 1 .. Total /\ TilesA \in Nat \ {0} /\ Col \in 0 .. TilesA - 1 /\ Total \in Nat
  BY EngineShapeAssumption, Counts, Sizes DEF PipeRun, Typed, PlanOK
<1>b. mode' = mode /\ Full
  BY DEF Hart1, AwaitIdle, Start, LoadAct, LoadWgt, AwaitReady, ArmStrided, Compute, Preload, NestDone,
     PadTile, Finish, PlaceEarly, PlaceLate, TimeOut, Software, Full, Strided, WOuter
<1>1. CASE Start
  <2>1. pc = "start" /\ pc' = "act" /\ k' = k /\ k = 1
    BY <1>1 DEF Start, PipeRun, CountInv, Nest
  <2>2. Col' = 0
    <3>1. 0 % TilesA = 0
      BY <1>a, Remainder
    <3> QED BY <2>1, <3>1 DEF Col
  <2>3. WTile(k) = 0
    BY <1>a, <1>b, <2>1, NextRow
  <2>4. WTile(k)' = WTile(k)
    BY <1>b, <2>1 DEF WTile, WOuter
  <2> QED BY <1>b, <2>1, <2>2, <2>3, <2>4 DEF Row, Running
<1>2. CASE Preload
  <2>1. pc = "pre" /\ pc' = "act" /\ k < Total /\ k' = k + 1
    BY <1>2 DEF Preload
  <2>2. Col' = IF Col = TilesA - 1 THEN 0 ELSE Col + 1
    <3>1. k - 1 \in Nat /\ k - 1 + 1 = k' - 1
      BY <1>a, <2>1
    <3> QED BY <1>a, <3>1, NextColumn DEF Col
  <2>3. WTile(k)' = WTile(k + 1)
    BY <1>b, <2>1 DEF WTile, WOuter
  <2>4. WTile(k + 1) = IF Col = TilesA - 1 THEN WTile(k) + 1 ELSE WTile(k)
    BY <1>a, <1>b, <2>1, NextRow DEF Col
  <2> QED BY <1>a, <1>b, <2>1, <2>2, <2>3, <2>4 DEF Row, Running
<1>3. CASE UNCHANGED k /\ pc # "start"
  <2>1. Col' = Col /\ WTile(k)' = WTile(k)
    BY <1>b, <1>3 DEF Col, WTile, WOuter
  <2>2. CASE AwaitReady
    <3>1. pc = "ready" /\ pc' = IF ArmsDrain(k) THEN "arm" ELSE "mm"
      BY <2>2 DEF AwaitReady
    <3>2. ~ArmsDrain(k) => Col # 0
      BY <1>b DEF ArmsDrain, Full, Inner, Col
    <3> QED BY <1>b, <2>1, <3>1, <3>2 DEF Row, Running
  <2>3. CASE AwaitIdle \/ Finish \/ PlaceLate \/ TimeOut \/ Software
    <3>1. pc' \in {"start", "idle", "software"} \/ (Finish /\ pc' = "late" /\ ~Strided)
      BY <2>3 DEF AwaitIdle, Finish, PlaceLate, TimeOut, Software, Return
    <3> QED BY <1>b, <3>1 DEF Full, Running
  <2>4. CASE LoadAct \/ LoadWgt \/ Compute \/ NestDone \/ PadTile \/ PlaceEarly
    <3>1. /\ pc \in {"act", "wgt", "ready", "arm"} <=> pc' \in {"act", "wgt", "ready", "arm"}
          /\ pc' = pc \/ pc \notin {"idle", "busy", "software"}
      BY <2>4 DEF LoadAct, LoadWgt, Compute, NestDone, PadTile, PlaceEarly
    <3> QED BY <1>b, <1>3, <2>1, <3>1 DEF Row, Running
  <2>5. ~Start /\ ~Preload
    BY <1>a, <1>3 DEF Start, Preload
  <2> QED BY <2>2, <2>3, <2>4, <2>5 DEF Hart1
<1>4. ASSUME ~Start, ~Preload PROVE UNCHANGED k /\ pc # "start"
  BY <1>4 DEF Hart1, AwaitIdle, LoadAct, LoadWgt, AwaitReady, Compute, NestDone, PadTile, Finish,
     PlaceEarly, PlaceLate, TimeOut, Software, Masked
<1> QED BY <1>1, <1>2, <1>3, <1>4

\* Each descriptor of whole columns is counted, and publishes the one before.
LEMMA Hart1Drained ==
  ASSUME PipeRun, KernelOK, MarkInv, PipeHart1
  PROVE  MarkInv'
<1> USE DEF At
<1>a. /\ st_seen \in Nat /\ armed \in 0 .. 2 /\ k \in 1 .. Total /\ TilesA \in Nat \ {0}
      /\ TilesW \in Nat
  BY EngineShapeAssumption DEF KernelOK, Marks, PipeRun, Typed, PlanOK
<1>b. UNCHANGED kernel
  BY <1>a, Hart1Step
<1>c. Staging' = Staging /\ Preparing' = Preparing /\ done' = done
  BY <1>b DEF kernel, Staging, Preparing, Before
<1>d. Preparing => pc = "idle"
  BY DEF PipeRun, PipeInv, StageInv, Waiting, Preparing
<1>1. CASE SpinOut
  <2>1. pc \in {"act", "pre"} /\ stall' /\ UNCHANGED vars
    BY <1>1 DEF SpinOut, Gated, NextAct
  <2>2. pc' = pc
    BY <2>1 DEF vars, plan
  <2> QED BY <1>c, <1>d, <2>1, <2>2 DEF MarkInv, Fresh, Water, Seen
<1>2. CASE HookedArm
  <2>1. /\ pc = "arm" /\ pc' = "mm" /\ UNCHANGED <<k, mode>> /\ OnSt(WOuter \/ TilesA = 1)
    BY <1>2 DEF HookedArm, ArmStrided
  <2>2. ArmsDrain(k) /\ Strided
    BY <2>1 DEF PipeRun, Typed, PlanOK, ArmsDrain
  <2>3. ~Preparing
    BY <1>d, <2>1
  <2>4. Full' = Full /\ Strided' = Strided /\ Running /\ Running'
    BY <2>1 DEF Full, Strided, WOuter, Running
  <2>5. Full => Col = 0
    <3>1. CASE Full /\ WOuter
      BY <2>2, <3>1 DEF ArmsDrain, Inner, Col
    <3>2. CASE TilesA = 1
      BY <1>a, <3>2, Counts DEF PipeRun
    <3> QED BY <3>1, <3>2 DEF Full
  <2>6. Full => Row' = WTile(k) + 1 /\ Row = WTile(k)
    <3>1. WTile(k)' = WTile(k)
      BY <2>1 DEF WTile, WOuter
    <3> QED BY <2>1, <2>5, <3>1 DEF Row
  <2>7. CASE armed < 2
    <3>1. UNCHANGED hooks
      BY <2>1, <2>7 DEF OnSt
    <3> QED BY <1>c, <2>1, <2>3, <2>7, <3>1 DEF MarkInv, Fresh, Water, Seen, hooks
  <2>8. CASE armed = 2 /\ Trusted(WOuter \/ TilesA = 1)
    <3>1. /\ st_seen' = st_seen + 1 /\ drain_wm' = st_seen /\ armed' = 2 /\ stall' = stall
          /\ Full
      BY <1>a, <2>1, <2>2, <2>8 DEF OnSt, Drained, Trusted, Full
    <3>2. Staging /\ ~stall => st_seen = WTile(k)
      BY <2>1, <2>4, <2>6, <2>8, <3>1 DEF MarkInv, Seen
    <3> QED BY <1>a, <1>c, <2>1, <2>3, <2>4, <2>6, <3>1, <3>2 DEF MarkInv, Fresh, Water, Seen
  <2>9. CASE armed = 2 /\ ~Trusted(WOuter \/ TilesA = 1)
    <3>1. drain_wm' = 0 /\ armed' = 1 /\ stall' = stall
      BY <2>1, <2>9 DEF OnSt
    <3> QED BY <1>c, <2>1, <2>3, <3>1 DEF MarkInv, Fresh, Water, Seen
  <2> QED BY <1>a, <2>7, <2>8, <2>9
<1>3. CASE Hart1 /\ UNCHANGED hooks /\ ~ArmStrided
  <2>1. pc' \in {"busy", "start"} => pc \in {"busy", "start"}
    BY <1>3 DEF Hart1, AwaitIdle, Start, LoadAct, LoadWgt, AwaitReady, ArmStrided, Compute, Preload,
       NestDone, PadTile, Finish, PlaceEarly, PlaceLate, TimeOut, Software, Return
  <2>2. Fresh' /\ Water'
    BY <1>3, <1>c, <2>1 DEF MarkInv, Fresh, Water, hooks
  <2>3. mode' = mode
    BY <1>3 DEF Hart1, AwaitIdle, Start, LoadAct, LoadWgt, AwaitReady, ArmStrided, Compute, Preload,
       NestDone, PadTile, Finish, PlaceEarly, PlaceLate, TimeOut, Software
  <2>4. Full' = Full /\ Strided' = Strided
    BY <2>3 DEF Full, Strided, WOuter
  <2>5. ASSUME Staging', ~stall', armed' = 2, Full', Running', pc' # "start" PROVE st_seen' = Row'
    <3>1. Staging /\ ~stall /\ armed = 2 /\ st_seen' = st_seen
      BY <1>3, <1>c, <2>5 DEF hooks
    <3>2. Full /\ Running /\ (pc # "start" => Row' = Row) /\ (pc = "start" => Row' = 0)
      BY <1>3, <2>5, RowKept
    <3> QED BY <3>1, <3>2 DEF MarkInv, Fresh, Seen
  <2>6. Seen'
    BY <1>3, <1>c, <2>4, <2>5 DEF MarkInv, Seen, hooks
  <2> QED BY <2>2, <2>6 DEF MarkInv
<1>4. CASE HookedStart /\ ~Strided
  <2>1. pc = "start" /\ pc' = "act" /\ mode' = mode /\ \E full \in BOOLEAN : OnSt(full)
    BY <1>4 DEF HookedStart, Start
  <2>2. PICK full \in BOOLEAN : OnSt(full)
    BY <2>1
  <2>3. ~Strided' /\ ~Full' /\ ~Preparing
    BY <1>4, <1>d, <2>1 DEF Full, Strided
  <2>4. CASE Staging
    <3>1. ~stall /\ st_seen = 0 /\ drain_wm = 0
      BY <2>1, <2>4 DEF MarkInv, Fresh
    <3>2. CASE armed < 2
      BY <1>c, <2>1, <2>2, <2>3, <3>1, <3>2 DEF OnSt, hooks, MarkInv, Fresh, Water, Seen
    <3>3. CASE armed = 2
      BY <1>a, <1>c, <2>1, <2>2, <2>3, <3>1, <3>3 DEF OnSt, Drained, MarkInv, Fresh, Water, Seen
    <3> QED BY <1>a, <3>2, <3>3
  <2>5. CASE ~Staging
    BY <1>c, <2>5 DEF MarkInv, Fresh, Water, Seen
  <2> QED BY <2>4, <2>5
<1>5. CASE (HookedStart /\ Strided) \/ HookedLoad \/ Unhooked
  <2>1. Hart1 /\ UNCHANGED hooks
    BY <1>5 DEF HookedStart, HookedLoad, Unhooked, Hart1
  <2>2. ~ArmStrided
    BY <1>5 DEF HookedStart, HookedLoad, Unhooked, Start, LoadAct, Preload, AwaitIdle, LoadWgt, AwaitReady,
       Compute, NestDone, PadTile, Finish, PlaceEarly, PlaceLate, TimeOut, Return, ArmStrided, Masked
  <2> QED BY <1>3, <2>1, <2>2
<1> QED BY <1>1, <1>2, <1>4, <1>5 DEF PipeHart1
-----------------------------------------------------------------------------
(* WHERE EACH CELL OF A COLUMN IS: in memory, in a Put, in the FIFO, in the  *)
(* pipe, being computed or still to come, in this order and in the order of  *)
(* the descriptor.                                                           *)

Begun == st_seen > 0 \/ (Running /\ pc # "start")
Live  == Staging /\ ~stall /\ ~err /\ Full /\ armed = 2 /\ Begun

InFifo == \A i \in 1 .. Len(fifo) : fifo[i] = Right(r, drain.dst[i])
InPack == Len(pipe) = 1 => pipe[1] = Right(r, drain.dst[Len(fifo) + 1])
InSeq  == tseq.left > 0 => tseq.left = 1 /\ Result = Right(r, drain.dst[Len(fifo) + Len(pipe) + 1])
ToCome == \A i \in 1 .. Owed : drain.dst[InMotion + i] = <<TilesA - Owed + i - 1, WTile(k)>>
InPuts == \A p \in puts : \A i \in 1 .. Len(p.dst) : p.val[i] = Right(r, p.dst[i])
OnItsWay(x) == \/ mem[x] = Right(r, x)
               \/ \E i \in 1 .. Len(drain.dst) : drain.dst[i] = x
               \/ \E p \in puts : \E i \in 1 .. Len(p.dst) : p.dst[i] = x
Arrived == \A a \in ATiles, t \in WTiles : /\ t < drain_wm => mem[<<a, t>>] = Right(r, <<a, t>>)
                                           /\ t < st_seen => OnItsWay(<<a, t>>)
Data    == InFifo /\ InPack /\ InSeq /\ ToCome /\ InPuts /\ Arrived
DataInv == Live => Data

\* A step that sends, stores and publishes nothing, and owes the same cells.
LEMMA DataFrame ==
  ASSUME DataInv, Live' => Live, UNCHANGED <<tseq, pipe, fifo, drain, puts, mem, r, drain_wm, st_seen>>,
         tseq.left > 0 => Result' = Result,
         Live' => Owed' = 0 \/ (Owed' = Owed /\ WTile(k)' = WTile(k))
  PROVE  DataInv'
<1> SUFFICES ASSUME Live' PROVE Data'
  BY DEF DataInv
<1>1. Data
  BY DEF DataInv
<1>2. InFifo' /\ InPack' /\ InSeq' /\ InPuts'
  BY <1>1 DEF Data, InFifo, InPack, InSeq, InPuts, Right
<1>3. Arrived'
  BY <1>1 DEF Data, Arrived, OnItsWay, Right
<1>4. InMotion' = InMotion /\ drain' = drain
  BY DEF InMotion
<1>5. CASE Owed' = 0
  BY <1>2, <1>3, <1>5 DEF Data, ToCome
<1>6. CASE Owed' = Owed /\ WTile(k)' = WTile(k)
  BY <1>1, <1>2, <1>3, <1>4, <1>6 DEF Data, ToCome
<1> QED BY <1>5, <1>6

\* Hart 0 changes none of it within a run.
LEMMA Hart0Data ==
  ASSUME PipeRun, KernelOK, MarkInv, MarkInv', DataInv, Arm \/ Hart0
  PROVE  DataInv'
<1>a. st_seen \in Nat
  BY DEF KernelOK, Marks
<1>1. CASE Arm
  <2>1. st_seen' = 0 /\ pc' = "idle"
    BY <1>1 DEF Arm, vars, plan
  <2> QED BY <2>1 DEF DataInv, Live, Begun, Running
<1>2. CASE PublishStage /\ staged = 1
  <2>1. st_seen' = st_seen /\ pc' = "busy" /\ Staging /\ Preparing
    BY <1>2 DEF PublishStage, Enter, Staging, Preparing, Before
  <2>2. st_seen = 0
    BY <2>1 DEF MarkInv, Fresh
  <2> QED BY <2>1, <2>2 DEF DataInv, Live, Begun, Running
<1>3. CASE Collect \/ Ship \/ CollectShipped
  BY <1>3 DEF Collect, Ship, CollectShipped, DataInv, Live, Staging
<1>4. CASE StageChunk \/ (PublishStage /\ staged # 1) \/ TransposeTile
  <2>1. /\ h \in {"stage", "publish"} /\ UNCHANGED <<stall, armed, st_seen, drain_wm>>
        /\ UNCHANGED plan /\ UNCHANGED engine /\ UNCHANGED store /\ mem' = mem
    <3>1. CASE StageChunk
      BY <3>1 DEF StageChunk, hooks
    <3>2. CASE PublishStage /\ staged # 1
      BY <3>2 DEF PublishStage
    <3>3. CASE TransposeTile
      BY <3>3 DEF TransposeTile, hooks, vars
    <3> QED BY <1>4, <3>1, <3>2, <3>3
  <2>2. /\ UNCHANGED <<pc, k, mode, r, err, bufs, tseq, pipe, fifo, drain, puts>>
    BY <2>1 DEF plan, engine, store
  <2>3. Live' => Live
    BY <2>1, <2>2 DEF Live, Begun, Staging, Full, Strided, WOuter, Running
  <2>4. Owed' = Owed /\ WTile(k)' = WTile(k) /\ Result' = Result
    BY <2>2 DEF Owed, Col, Strided, WOuter, Pad, WTile, Result
  <2> QED BY <2>1, <2>2, <2>3, <2>4, DataFrame
<1> QED BY <1>1, <1>2, <1>3, <1>4 DEF Hart0

\* What the engine sends on keeps its place in the descriptor.
LEMMA UnitData ==
  ASSUME PipeRun, Apart, DataInv, PipeUnit
  PROVE  DataInv'
<1>a. UNCHANGED <<pc, k, mode, r, stall, armed, st_seen, drain_wm>> /\ Staging' = Staging /\ Unit
  BY UnitFrame DEF PipeUnit, plan, kernel, hooks, Staging
<1>b. Owed' = Owed /\ WTile(k)' = WTile(k)
  BY <1>a DEF Owed, Col, Strided, WOuter, Pad, WTile
<1>c. ASSUME ~err' => ~err PROVE Live' => Live
  BY <1>a, <1>c DEF Live, Begun, Full, Strided, WOuter, Running
<1>d. /\ tseq \in [left : Nat, ab : 0 .. 1, wb : 0 .. 1] /\ pipe \in Seq(Values) /\ Len(pipe) <= 1
      /\ fifo \in Seq(Values) /\ drain.dst \in Seq(Cells) /\ Len(fifo) \in Nat /\ Len(pipe) \in Nat
      /\ Len(drain.dst) \in Nat /\ Owed \in Nat /\ InMotion = Len(fifo) + Len(pipe) + tseq.left
  BY Counts DEF PipeRun, Typed, UnitOK, StoreOK, DrainOK, InMotion
<1>e. Len(drain.dst) >= InMotion
  BY <1>d DEF PipeRun, CountInv, Balance
<1>1. CASE FillDone
  <2>1. /\ UNCHANGED <<tseq, pipe, fifo, drain, puts, mem>> /\ Filling /\ (~err' => ~err)
        /\ \/ bufs' = bufs
           \/ bufs' = [bufs EXCEPT ![ld.client][ld.buf] =
                         <<IF ld.client = "A" THEN inp[ld.tile] ELSE r, ld.tile>>]
    <3>1. /\ UNCHANGED <<tseq, pipe, fifo, drain, puts, mem>> /\ Filling /\ (err' = err \/ err' = TRUE)
          /\ \/ bufs' = bufs
             \/ bufs' = [bufs EXCEPT ![ld.client][ld.buf] =
                           <<IF ld.client = "A" THEN inp[ld.tile] ELSE r, ld.tile>>]
      BY <1>1 DEF FillDone, store
    <3> QED BY <3>1
  <2>2. tseq.left > 0 => bufs'["A"][tseq.ab] = bufs["A"][tseq.ab] /\ bufs'["W"][tseq.wb] = bufs["W"][tseq.wb]
    <3>1. /\ bufs \in [{"A", "W"} -> [0 .. 1 -> (0 .. MaxRuns) \X Nat]]
          /\ ld.client \in {"A", "W"} /\ ld.buf \in 0 .. 1
      BY DEF PipeRun, Typed, UnitOK
    <3> QED BY <1>d, <2>1, <3>1, SMTT(30) DEF Apart, LoadClash, Computing
  <2>3. tseq.left > 0 => Result' = Result
    BY <2>1, <2>2 DEF Result
  <2> QED BY <1>a, <1>b, <1>c, <2>1, <2>3, DataFrame
<1>2. CASE Emit
  <2>1. /\ tseq.left > 0 /\ Len(pipe) = 0 /\ tseq' = [tseq EXCEPT !.left = tseq.left - 1]
        /\ pipe' = << Result >> /\ UNCHANGED <<err, fifo, drain, puts, mem>>
    BY <1>2, <1>d DEF Emit, CanEmit, Computing, InPipe, store
  <2> SUFFICES ASSUME Live' PROVE Data'
    BY DEF DataInv
  <2>2. Data
    BY <1>c, <2>1 DEF DataInv
  <2>3. tseq.left = 1 /\ Result = Right(r, drain.dst[Len(fifo) + 1])
    BY <1>d, <2>1, <2>2 DEF Data, InSeq
  <2>4. tseq'.left = 0 /\ Len(pipe') = 1 /\ pipe'[1] = Result
    BY <1>d, <2>1, <2>3
  <2>5. InFifo' /\ InPack' /\ InSeq' /\ InPuts'
    BY <1>a, <2>1, <2>2, <2>3, <2>4 DEF Data, InFifo, InPack, InSeq, InPuts, Right
  <2>6. InMotion' = InMotion
    BY <1>d, <2>1, <2>3, <2>4 DEF InMotion
  <2>7. ToCome'
    BY <1>b, <2>1, <2>2, <2>6 DEF Data, ToCome
  <2>8. Arrived'
    BY <1>a, <2>1, <2>2 DEF Data, Arrived, OnItsWay, Right
  <2> QED BY <2>5, <2>7, <2>8 DEF Data
<1>3. CASE Pack
  <2>1. /\ pipe # << >> /\ fifo' = fifo \o pipe /\ pipe' = << >>
        /\ UNCHANGED <<err, bufs, tseq, drain, puts, mem>>
    BY <1>3 DEF Pack, InPipe
  <2> SUFFICES ASSUME Live' PROVE Data'
    BY DEF DataInv
  <2>2. Data
    BY <1>c, <2>1 DEF DataInv
  <2>3. Len(pipe) = 1 /\ Len(pipe') = 0
    <3>1. Len(pipe) # 0
      BY <2>1, Counts DEF PipeRun
    <3>2. Len(pipe') = 0
      BY <2>1
    <3>3. Len(pipe) \in Nat /\ Len(pipe) <= 1
      BY <1>d
    <3> QED BY SMTT(30), <3>1, <3>2, <3>3
  <2>4. /\ Len(fifo') = Len(fifo) + 1 /\ \A i \in 1 .. Len(fifo) : fifo'[i] = fifo[i]
        /\ fifo'[Len(fifo) + 1] = pipe[1]
    <3>1. fifo \in Seq(Values) /\ pipe \in Seq(Values) /\ Len(pipe) <= 1
      BY <1>d
    <3>2. /\ Len(fifo \o pipe) = Len(fifo) + Len(pipe)
          /\ \A i \in 1 .. Len(fifo) : (fifo \o pipe)[i] = fifo[i]
          /\ Len(pipe) = 1 => (fifo \o pipe)[Len(fifo) + 1] = pipe[1]
      BY <3>1, Joined
    <3>3. fifo' = fifo \o pipe
      BY <2>1
    <3> QED BY <2>3, <3>2, <3>3
  <2>5. InFifo'
    BY SMTT(30), <1>a, <1>d, <2>1, <2>2, <2>3, <2>4 DEF Data, InFifo, InPack, Right
  <2>6. Result' = Result
    BY <2>1 DEF Result
  <2>7. InPack' /\ InSeq' /\ InPuts'
    BY <1>a, <1>d, <2>1, <2>2, <2>3, <2>4, <2>6 DEF Data, InPack, InSeq, InPuts, Right
  <2>8. InMotion' = InMotion
    BY <1>d, <2>1, <2>3, <2>4 DEF InMotion
  <2>9. ToCome'
    BY <1>b, <2>1, <2>2, <2>8 DEF Data, ToCome
  <2>10. Arrived'
    BY <1>a, <2>1, <2>2 DEF Data, Arrived, OnItsWay, Right
  <2> QED BY <2>5, <2>7, <2>9, <2>10 DEF Data
<1>4. CASE StartPut
  <2> DEFINE n == drain.per
  <2>1. CanPut /\ UNCHANGED <<err, bufs, tseq, pipe, mem>> /\ StoreOK
    BY <1>4 DEF StartPut, engine, PipeRun, Typed
  <2>2. n \in 1 .. Len(fifo) /\ n \in 1 .. Len(drain.dst)
    BY <2>1, PutTaken
  <2>3. /\ fifo' = SubSeq(fifo, n + 1, Len(fifo)) /\ drain'.dst = SubSeq(drain.dst, n + 1, Len(drain.dst))
    BY <1>4, <2>1 DEF StartPut, StoreOK, DrainOK
  <2>4. PICK lost : puts' = puts \cup {[dst |-> SubSeq(drain.dst, 1, n), lost |-> lost,
                                        val |-> SubSeq(fifo, 1, n), i |-> drain.issued]}
    BY <1>4 DEF StartPut
  <2> DEFINE q == [dst |-> SubSeq(drain.dst, 1, n), lost |-> lost, val |-> SubSeq(fifo, 1, n),
                   i |-> drain.issued]
  <2>5. /\ Len(q.dst) = n /\ \A i \in 1 .. n : q.dst[i] = drain.dst[i] /\ q.val[i] = fifo[i]
    <3>1. n \in 0 .. Len(fifo) /\ n \in 0 .. Len(drain.dst)
      BY <1>d, <2>2
    <3>2. Len(SubSeq(drain.dst, 1, n)) = n /\ \A i \in 1 .. n : SubSeq(drain.dst, 1, n)[i] = drain.dst[i]
      BY <1>d, <3>1, Halves
    <3>3. \A i \in 1 .. n : SubSeq(fifo, 1, n)[i] = fifo[i]
      BY <1>d, <3>1, Halves
    <3>4. q.dst = SubSeq(drain.dst, 1, n) /\ q.val = SubSeq(fifo, 1, n)
      OBVIOUS
    <3> HIDE DEF q
    <3> QED BY <3>2, <3>3, <3>4
  <2>6. /\ Len(fifo') = Len(fifo) - n /\ \A i \in 1 .. Len(fifo) - n : fifo'[i] = fifo[n + i]
    <3>1. n \in 0 .. Len(fifo) /\ fifo \in Seq(Values)
      BY <1>d, <2>2
    <3>2. /\ Len(SubSeq(fifo, n + 1, Len(fifo))) = Len(fifo) - n
          /\ \A i \in 1 .. Len(fifo) - n : SubSeq(fifo, n + 1, Len(fifo))[i] = fifo[n + i]
      BY <3>1, Halves
    <3>3. fifo' = SubSeq(fifo, n + 1, Len(fifo))
      BY <2>3
    <3> QED BY <3>2, <3>3
  <2>7. /\ Len(drain'.dst) = Len(drain.dst) - n
        /\ \A i \in 1 .. Len(drain.dst) - n : drain'.dst[i] = drain.dst[n + i]
    <3>1. n \in 0 .. Len(drain.dst) /\ drain.dst \in Seq(Cells)
      BY <1>d, <2>2
    <3>2. /\ Len(SubSeq(drain.dst, n + 1, Len(drain.dst))) = Len(drain.dst) - n
          /\ \A i \in 1 .. Len(drain.dst) - n : SubSeq(drain.dst, n + 1, Len(drain.dst))[i] = drain.dst[n + i]
      BY <3>1, Halves
    <3>3. drain'.dst = SubSeq(drain.dst, n + 1, Len(drain.dst))
      BY <2>3
    <3> QED BY <3>2, <3>3
  <2>8. puts' = puts \cup {q}
    BY <2>4
  <2>9. Result' = Result /\ n \in Nat /\ n <= Len(fifo)
    BY <1>d, <2>1, <2>2 DEF Result
  <2> HIDE DEF n, q
  <2> SUFFICES ASSUME Live' PROVE Data'
    BY DEF DataInv
  <2>10. Data /\ (Len(drain.dst) = InMotion + Owed \/ Owed = 0)
    <3>1. Data
      BY <1>c, <2>1 DEF DataInv
    <3>2. Running => Len(drain.dst) = InMotion + Owed
      BY DEF PipeRun, CountInv, Balance
    <3>3. ~Running => Owed = 0
      BY DEF Running, Owed
    <3> QED BY <3>1, <3>2, <3>3
  <2>11. InFifo'
    <3>1. \A i \in 1 .. Len(fifo) - n : n + i \in 1 .. Len(fifo) /\ i \in 1 .. Len(drain.dst) - n
      BY <1>d, <1>e, <2>9
    <3> QED BY <1>a, <1>d, <2>6, <2>7, <2>9, <2>10, <3>1 DEF Data, InFifo, Right
  <2>12. InPack'
    <3>1. Len(pipe) = 1 => /\ n + (Len(fifo) - n + 1) = Len(fifo) + 1
                           /\ Len(fifo) - n + 1 \in 1 .. Len(drain.dst) - n
      BY <1>d, <1>e, <2>9
    <3> QED BY <1>a, <1>d, <2>1, <2>6, <2>7, <2>10, <3>1 DEF Data, InPack, Right
  <2>13. InSeq'
    <3>1. tseq.left > 0 => /\ n + (Len(fifo) - n + Len(pipe) + 1) = Len(fifo) + Len(pipe) + 1
                           /\ Len(fifo) - n + Len(pipe) + 1 \in 1 .. Len(drain.dst) - n
      BY <1>d, <1>e, <2>9
    <3>2. tseq' = tseq /\ pipe' = pipe /\ r' = r
      BY <1>a, <2>1
    <3>3. tseq.left > 0 => /\ drain'.dst[Len(fifo') + Len(pipe) + 1] = drain.dst[Len(fifo) + Len(pipe) + 1]
                           /\ tseq.left = 1 /\ Result = Right(r, drain.dst[Len(fifo) + Len(pipe) + 1])
      <4>1. Len(fifo') = Len(fifo) - n
        BY <2>6
      <4>2. tseq.left > 0 => drain'.dst[Len(fifo) - n + Len(pipe) + 1] = drain.dst[Len(fifo) + Len(pipe) + 1]
        BY <2>7, <3>1
      <4> QED BY <2>10, <4>1, <4>2 DEF Data, InSeq
    <3> QED BY <2>9, <3>2, <3>3 DEF InSeq, Right
  <2>14. ToCome'
    <3>1. InMotion' = InMotion - n /\ InMotion \in Nat /\ Owed' = Owed
      BY <1>b, <1>d, <2>1, <2>6, <2>9 DEF InMotion
    <3>2. \A i \in 1 .. Owed : /\ n + (InMotion - n + i) = InMotion + i
                               /\ InMotion - n + i \in 1 .. Len(drain.dst) - n
      <4>1. Owed > 0 => Len(drain.dst) = InMotion + Owed
        BY <2>10
      <4>2. n \in Nat /\ n <= InMotion /\ InMotion \in Nat /\ Owed \in Nat
        BY <1>d, <2>9
      <4> QED BY <4>1, <4>2
    <3> QED BY <1>b, <2>7, <2>10, <3>1, <3>2 DEF Data, ToCome
  <2>15. InPuts'
    <3>1. \A i \in 1 .. n : i \in 1 .. Len(fifo)
      BY <1>d, <2>9
    <3>2. \A i \in 1 .. Len(q.dst) : q.val[i] = Right(r, q.dst[i])
      BY <2>5, <2>10, <3>1 DEF Data, InFifo
    <3> QED BY <1>a, <2>8, <2>10, <3>2 DEF Data, InPuts, Right
  <2>16. ASSUME NEW x, OnItsWay(x) PROVE OnItsWay(x)'
    <3>1. CASE mem[x] = Right(r, x)
      BY <1>a, <2>1, <3>1 DEF OnItsWay, Right
    <3>2. CASE \E p \in puts : \E i \in 1 .. Len(p.dst) : p.dst[i] = x
      BY <2>8, <3>2 DEF OnItsWay
    <3>3. ASSUME NEW i \in 1 .. Len(drain.dst), drain.dst[i] = x PROVE OnItsWay(x)'
      <4>1. CASE i \in 1 .. n
        BY <2>5, <2>8, <3>3, <4>1 DEF OnItsWay
      <4>2. CASE i \notin 1 .. n
        <5>1. i - n \in 1 .. Len(drain.dst) - n /\ n + (i - n) = i
          BY <1>d, <2>9, <4>2
        <5> QED BY <2>7, <3>3, <5>1 DEF OnItsWay
      <4> QED BY <4>1, <4>2
    <3> QED BY <2>16, <3>1, <3>2, <3>3 DEF OnItsWay
  <2>17. Arrived'
    BY <1>a, <2>1, <2>10, <2>16 DEF Data, Arrived, Right
  <2> QED BY <2>11, <2>12, <2>13, <2>14, <2>15, <2>17 DEF Data
<1>5. CASE Ack
  <2>1. PICK p \in Answered : /\ puts' = puts \ {p}
                              /\ (mem' = Lands(p) /\ err' = err) \/ err' = TRUE
    BY <1>5 DEF Ack
  <2>2. UNCHANGED <<bufs, tseq, pipe, fifo, drain>> /\ p \in puts
    BY <1>5 DEF Ack, Answered
  <2> SUFFICES ASSUME Live' PROVE Data'
    BY DEF DataInv
  <2>3. mem' = Lands(p) /\ err' = err
    BY <2>1 DEF Live
  <2>4. Data
    BY <1>c, <2>3 DEF DataInv
  <2>5. /\ p.dst \in Seq(Cells) /\ mem \in [Cells -> Values]
        /\ DOMAIN p.dst = 1 .. Len(p.dst)
    BY <2>2 DEF PipeRun, Typed, StoreOK, PutSet, MemOK
  <2>6. \A x \in Cells : mem'[x] = mem[x] \/ mem'[x] = Right(r, x)
    <3>1. ASSUME NEW x \in Cells, NEW i \in DOMAIN p.dst, p.dst[i] = x
          PROVE  p.val[CHOOSE j \in DOMAIN p.dst : p.dst[j] = x] = Right(r, x)
      BY <2>2, <2>4, <2>5, <3>1 DEF Data, InPuts
    <3> QED BY <2>3, <2>5, <3>1 DEF Lands
  <2>7. \A x \in Cells : (\E i \in 1 .. Len(p.dst) : p.dst[i] = x) => mem'[x] = Right(r, x)
    <3>1. ASSUME NEW x \in Cells, NEW i \in DOMAIN p.dst, p.dst[i] = x
          PROVE  p.val[CHOOSE j \in DOMAIN p.dst : p.dst[j] = x] = Right(r, x)
      BY <2>2, <2>4, <2>5, <3>1 DEF Data, InPuts
    <3> QED BY <2>3, <2>5, <3>1 DEF Lands
  <2>8. InFifo' /\ InPack' /\ InSeq' /\ InPuts'
    <3>1. Result' = Result
      BY <2>2 DEF Result
    <3> QED BY <1>a, <2>1, <2>2, <2>4, <3>1 DEF Data, InFifo, InPack, InSeq, InPuts, Right
  <2>9. ToCome'
    BY <1>b, <2>2, <2>4 DEF Data, ToCome, InMotion
  <2>10. ASSUME NEW x \in Cells, OnItsWay(x) PROVE OnItsWay(x)'
    BY <1>a, <2>1, <2>2, <2>6, <2>7, <2>10 DEF OnItsWay, Right
  <2>11. Arrived'
    <3>1. \A a \in ATiles, t \in WTiles : <<a, t>> \in Cells
      BY DEF Cells, Output
    <3> QED BY <1>a, <2>4, <2>6, <2>10, <3>1 DEF Data, Arrived, Right
  <2> QED BY <2>8, <2>9, <2>11 DEF Data
<1> QED BY <1>a, <1>1, <1>2, <1>3, <1>4, <1>5 DEF Unit

\* A pair in the pipe was computed from the run's own tiles, for the next cell
\* of the column.
LEMMA ComputeData ==
  ASSUME PipeRun, PipeRun', Held, WgtInv, DataInv, Compute, UNCHANGED <<kernel, hooks>>
  PROVE  DataInv'
<1> USE DEF At
<1> SUFFICES ASSUME Live' PROVE Data'
  BY DEF DataInv
<1>1. /\ pc = "mm" /\ pc' = "pre" /\ UNCHANGED <<r, mode, k, aIn, wIn, ld, bufs, pipe, fifo, drain, puts, mem>>
      /\ cab' = Find(aIn, ATile(k)) /\ cwb' = Find(wIn, WTile(k)) /\ Multiply(cab', cwb', 1)
  BY DEF Compute, store
<1>2. cab' \in 0 .. 1 /\ cwb' \in 0 .. 1 /\ aIn[cab'] = ATile(k) /\ wIn[cwb'] = WTile(k)
  BY <1>1 DEF Held, Holds, Find
<1>3. ~Filling /\ ~Computing
  BY <1>1 DEF PipeRun, PipeInv, BufferInv, Filled, Still
<1>4. tseq' = [left |-> 1, ab |-> cab', wb |-> cwb'] /\ err' = err
  BY <1>1, <1>3 DEF Multiply, MmClash
<1>5. tseq.left = 0
  BY <1>3, Counts DEF PipeRun, Computing
<1>6. Staging /\ ~stall /\ ~err /\ Full /\ armed = 2 /\ Running
  BY <1>1, <1>4 DEF Live, Staging, Full, Strided, WOuter, kernel, hooks, Running
<1>7. Data
  BY <1>1, <1>6 DEF DataInv, Live, Begun
<1>8. k \in 1 .. Total /\ ATile(k) = Col /\ ATile(k) \in ATiles /\ WTile(k) \in WTiles
  BY <1>6, NextRow, TilesOfPair DEF PipeRun, Typed, PlanOK, Col
<1>9. bufs["A"][cab'] = <<r, ATile(k)>> /\ bufs["W"][cwb'] = <<r, WTile(k)>>
  <2>1. aIn[cab'] # None /\ wIn[cwb'] # None
    BY <1>2, <1>8, EngineShapeAssumption DEF None, ATiles, WTiles
  <2>2. ~FillingA(cab') /\ ~FillingW(cwb')
    BY <1>3 DEF FillingA, FillingW, Filling
  <2>3. Loaded
    BY <1>6 DEF PipeRun, PipeInv, FillInv
  <2>4. WgtRight
    BY <1>6 DEF WgtInv
  <2> QED BY <1>2, <2>1, <2>2, <2>3, <2>4 DEF Loaded, WgtRight
<1>10. Result' = <<r, ATile(k), WTile(k)>>
  <2>1. r > 0
    BY <1>1 DEF PipeRun, Typed, PlanOK
  <2>2. tseq'.ab = cab' /\ tseq'.wb = cwb'
    BY <1>4
  <2>3. bufs'["A"][tseq'.ab] = <<r, ATile(k)>> /\ bufs'["W"][tseq'.wb] = <<r, WTile(k)>>
    BY <1>1, <1>9, <2>2
  <2> QED BY <2>1, <2>3 DEF Result
<1>11. /\ Len(drain.dst) = InMotion + Owed /\ Len(drain.dst) = InMotion' + Owed'
  BY <1>1 DEF PipeRun, CountInv, Balance, Running
<1>12. InMotion = Len(fifo) + Len(pipe) /\ InMotion' = InMotion + 1 /\ Owed' = Owed - 1
       /\ InMotion \in Nat /\ Owed \in Nat /\ Owed' \in Nat
  <2>1. Owed \in Nat /\ Owed' \in Nat /\ Len(fifo) \in Nat /\ Len(pipe) \in Nat
    BY Counts, OwedNext DEF PipeRun
  <2>2. InMotion = Len(fifo) + Len(pipe) /\ InMotion' = Len(fifo) + Len(pipe) + 1
    BY <1>1, <1>4, <1>5, <2>1 DEF InMotion
  <2>3. InMotion' = InMotion + 1 /\ InMotion \in Nat
    BY <2>1, <2>2
  <2> QED BY <1>11, <2>1, <2>2, <2>3
<1>13. Owed = TilesA - Col
  BY <1>1, <1>6, <1>8, EngineShapeAssumption DEF Owed, Full, ATiles
<1>14. WTile(k)' = WTile(k) /\ Right(r, CellOf(k))' = Right(r, CellOf(k))
  BY <1>1 DEF WTile, WOuter, Right, CellOf, ATile
<1>15. drain.dst[Len(fifo) + Len(pipe) + 1] = CellOf(k)
  <2>1. 1 \in 1 .. Owed /\ TilesA - Owed + 1 - 1 = Col
    <3>1. Owed \in Nat /\ Owed >= 1
      <4>1. Owed' = Owed - 1 /\ Owed' \in Nat /\ Owed \in Nat
        BY <1>12
      <4> QED BY <4>1
    <3>2. Col \in Int /\ TilesA \in Int /\ Owed = TilesA - Col
      BY <1>8, <1>13, EngineShapeAssumption DEF ATiles
    <3> QED BY <3>1, <3>2
  <2> QED BY <1>7, <1>8, <1>12, <2>1 DEF Data, ToCome, CellOf
<1>16. InSeq'
  <2>1. tseq'.left = 1
    BY <1>4
  <2>2. Result' = Right(r, CellOf(k))
    BY <1>8, <1>10 DEF Right, CellOf
  <2> QED BY <1>1, <1>15, <2>1, <2>2 DEF InSeq, Right
<1>17. ToCome'
  <2>1. \A i \in 1 .. Owed' : /\ i + 1 \in 1 .. Owed /\ InMotion' + i = InMotion + (i + 1)
                              /\ TilesA - Owed' + i - 1 = TilesA - Owed + (i + 1) - 1
    <3>1. Owed \in Nat /\ Owed' = Owed - 1 /\ InMotion \in Nat /\ InMotion' = InMotion + 1 /\ TilesA \in Nat
      BY <1>12, EngineShapeAssumption
    <3> QED BY <3>1
  <2> QED BY <1>1, <1>7, <1>14, <2>1 DEF Data, ToCome
<1>18. InFifo' /\ InPack' /\ InPuts'
  BY <1>1, <1>7 DEF Data, InFifo, InPack, InPuts, Right
<1>19. Arrived'
  BY <1>1, <1>7 DEF Data, Arrived, OnItsWay, Right, hooks
<1> QED BY <1>16, <1>17, <1>18, <1>19 DEF Data

\* A descriptor of a whole column names its cells from the first tile to the last.
LEMMA ColumnNamed ==
  ASSUME Full, NEW j \in 1 .. Total
  PROVE  Len(StridedDst(j)) = TilesA /\ \A i \in 1 .. TilesA : StridedDst(j)[i] = <<i - 1, WTile(j)>>
<1>1. CASE WOuter
  BY <1>1, RowDescriptors
<1>2. CASE ~WOuter
  <2>1. TilesA = 1
    BY <1>2 DEF Full
  <2>2. ATile(j) = 0
    BY <2>1, TilesOfPair DEF ATiles
  <2> QED BY <1>2, <2>1, <2>2, RowDescriptors DEF CellOf
<1> QED BY <1>1, <1>2

\* When a column is armed the one before has left the drain, so all of it is in
\* memory.
LEMMA ArmData ==
  ASSUME PipeRun, PipeRun', KernelOK, MarkInv, DataInv, HookedArm
  PROVE  DataInv'
<1> USE DEF At
<1> SUFFICES ASSUME Live' PROVE Data'
  BY DEF DataInv
<1>1. /\ pc = "arm" /\ pc' = "mm" /\ ~Draining /\ ~InPipe
      /\ UNCHANGED <<r, mode, k, err, bufs, tseq, pipe, fifo, puts, mem, kernel>>
      /\ ArmDrain(StridedDst(k)) /\ OnSt(WOuter \/ TilesA = 1)
  BY DEF HookedArm, ArmStrided, Masked, ArmMask, engine
<1>2. Staging /\ ~stall /\ ~err /\ Full /\ armed = 2 /\ st_seen' = st_seen + 1 /\ drain_wm' = st_seen
  <2>1. Staging /\ ~err /\ Full
    BY <1>1 DEF Live, Staging, Full, Strided, WOuter, kernel
  <2>2. armed' = 2 /\ ~stall'
    BY DEF Live
  <2>3. armed \in 0 .. 2 /\ st_seen \in Nat
    BY DEF KernelOK, Marks
  <2>4. /\ armed < 2 => armed' = armed
        /\ armed = 2 /\ ~Trusted(WOuter \/ TilesA = 1) => armed' = 1
        /\ armed = 2 /\ Trusted(WOuter \/ TilesA = 1) => st_seen' = st_seen + 1 /\ drain_wm' = Drained(st_seen + 1)
        /\ stall' = stall
    BY <1>1, <2>3 DEF OnSt, hooks
  <2> QED BY <2>1, <2>2, <2>3, <2>4 DEF Drained
<1>3. Data /\ Running
  BY <1>1, <1>2 DEF DataInv, Live, Begun, Running
<1>4. k \in 1 .. Total /\ TilesA \in Nat \ {0} /\ st_seen \in Nat
  BY EngineShapeAssumption DEF PipeRun, Typed, PlanOK, KernelOK, Marks
<1>5. Col = 0
  <2>1. ArmsDrain(k)
    BY <1>1 DEF PipeRun, Typed, PlanOK
  <2>2. TilesA = 1 => Col = 0
    BY Counts DEF PipeRun
  <2> QED BY <1>2, <2>1, <2>2 DEF ArmsDrain, Full, Inner, Col
<1>6. st_seen = WTile(k)
  BY <1>1, <1>2, <1>3, <1>5 DEF MarkInv, Seen, Row
<1>7. puts = {} /\ Len(drain.dst) = 0 /\ InMotion = 0 /\ Len(fifo) = 0 /\ Len(pipe) = 0 /\ tseq.left = 0
  <2>1. puts = {} /\ Len(drain.dst) = 0
    BY <1>1, Counts DEF PipeRun, Draining
  <2>2. InMotion = 0
    BY <1>3, <2>1, Counts DEF PipeRun, CountInv, Balance
  <2> QED BY <2>1, <2>2, Counts DEF PipeRun, InMotion
<1>8. Len(drain'.dst) = TilesA /\ \A i \in 1 .. TilesA : drain'.dst[i] = <<i - 1, WTile(k)>>
  <2>1. drain'.dst = StridedDst(k)
    BY <1>1 DEF ArmDrain
  <2> QED BY <1>2, <1>4, <2>1, ColumnNamed
<1>9. InMotion' = 0 /\ Owed' = TilesA
  <2>1. InMotion' = 0
    BY <1>1, <1>7 DEF InMotion
  <2>2. Len(drain'.dst) = InMotion' + Owed'
    BY <1>1 DEF PipeRun, CountInv, Balance, Running
  <2>3. Owed' \in Nat
    BY OwedNext DEF PipeRun
  <2>4. Len(drain'.dst) = TilesA
    BY <1>8
  <2> QED BY <2>1, <2>2, <2>3, <2>4
<1>10. ToCome'
  <2>1. WTile(k)' = WTile(k)
    BY <1>1 DEF WTile, WOuter
  <2>2. \A i \in 1 .. TilesA : 0 + i = i /\ TilesA - TilesA + i - 1 = i - 1
    BY <1>4
  <2> QED BY <1>8, <1>9, <2>1, <2>2 DEF ToCome
<1>11. InFifo' /\ InPack' /\ InSeq' /\ InPuts'
  BY <1>1, <1>7 DEF InFifo, InPack, InSeq, InPuts
<1>12. Arrived'
  <2> SUFFICES ASSUME NEW a \in ATiles, NEW t \in WTiles
               PROVE  /\ t < drain_wm' => mem'[<<a, t>>] = Right(r, <<a, t>>)'
                      /\ t < st_seen' => OnItsWay(<<a, t>>)'
    BY DEF Arrived, ATiles, WTiles
  <2>1. t < st_seen => mem[<<a, t>>] = Right(r, <<a, t>>)
    BY <1>3, <1>7 DEF Data, Arrived, OnItsWay
  <2>2. t = st_seen => OnItsWay(<<a, t>>)'
    <3>1. PICK i \in 1 .. TilesA : i = a + 1
      BY <1>4 DEF ATiles
    <3>2. i - 1 = a
      BY <3>1 DEF ATiles
    <3>3. drain'.dst[i] = <<i - 1, WTile(k)>> /\ Len(drain'.dst) = TilesA
      BY <1>8
    <3> QED BY <1>6, <3>2, <3>3 DEF OnItsWay
  <2>3. mem' = mem /\ Right(r, <<a, t>>)' = Right(r, <<a, t>>)
    BY <1>1 DEF Right
  <2>4. t \in Nat
    BY EngineShapeAssumption DEF WTiles
  <2> QED BY <1>2, <1>4, <2>1, <2>2, <2>3, <2>4 DEF OnItsWay
<1> QED BY <1>10, <1>11, <1>12 DEF Data

\* Hart 1 sends, arms and publishes in the order of the nest.
LEMMA Hart1Data ==
  ASSUME PipeRun, PipeRun', KernelOK, Held, WgtInv, MarkInv, DataInv, PipeHart1
  PROVE  DataInv'
<1> USE DEF At
<1>a. armed \in 0 .. 2
  BY DEF KernelOK, Marks
<1>1. CASE SpinOut
  BY <1>1 DEF SpinOut, DataInv, Live
<1>2. CASE HookedArm
  BY <1>2, ArmData
<1>3. CASE HookedStart
  <2> SUFFICES ASSUME Live' PROVE Data'
    BY DEF DataInv
  <2>1. /\ pc = "start" /\ pc' = "act" /\ UNCHANGED <<r, mode, k, tseq, pipe, fifo, puts, mem, kernel>>
        /\ (Strided => drain' = drain /\ UNCHANGED hooks)
    BY <1>3 DEF HookedStart, Start
  <2>2. Full /\ Strided
    BY <2>1 DEF Live, Full, Strided, WOuter
  <2>3. Staging /\ UNCHANGED hooks
    BY <2>1, <2>2 DEF Live, Staging, kernel
  <2>4. st_seen = 0 /\ drain_wm = 0
    BY <2>1, <2>3 DEF MarkInv, Fresh
  <2>5. puts = {} /\ Len(drain.dst) = 0 /\ ~Computing
    BY <2>1, Counts DEF PipeRun, CountInv, Quiet, Busy, Draining
  <2>6. Len(fifo) = 0 /\ Len(pipe) = 0 /\ tseq.left = 0
    <3>1. InMotion = 0
      BY <2>1, <2>5, Counts DEF PipeRun, CountInv, Balance, Running
    <3> QED BY <3>1, Counts DEF PipeRun, InMotion
  <2>7. Owed' = 0
    <3>1. Len(drain'.dst) = InMotion' + Owed'
      BY <2>1 DEF PipeRun, CountInv, Balance, Running
    <3>2. InMotion' = 0 /\ Len(drain'.dst) = 0
      BY <2>1, <2>2, <2>5, <2>6 DEF InMotion
    <3> QED BY <3>1, <3>2, OwedNext DEF PipeRun
  <2>8. InFifo' /\ InPack' /\ InSeq' /\ InPuts'
    BY <2>1, <2>5, <2>6 DEF InFifo, InPack, InSeq, InPuts
  <2>9. Arrived'
    <3>1. \A t \in WTiles : ~(t < drain_wm') /\ ~(t < st_seen')
      BY <2>3, <2>4, EngineShapeAssumption DEF WTiles, hooks
    <3> QED BY <3>1 DEF Arrived
  <2> QED BY <2>7, <2>8, <2>9 DEF Data, ToCome
<1>4. CASE HookedLoad
  <2>1. /\ UNCHANGED <<kernel, hooks>> /\ UNCHANGED <<r, mode, tseq, pipe, fifo, drain, puts, mem>>
        /\ Running /\ pc # "start" /\ Running' /\ pc' # "start" /\ (LoadAct \/ Preload)
    BY <1>4 DEF HookedLoad, LoadAct, Preload, store, Running
  <2>2. (tseq.left > 0 => Result' = Result) /\ (~err' => ~err)
    <3>1. Other(cab) \in 0 .. 1 /\ Other(cwb) \in 0 .. 1 /\ Typed
      BY DEF Other, PipeRun
    <3>2. CASE UNCHANGED <<err, bufs>>
      BY <2>1, <3>2 DEF Result
    <3>3. CASE ~UNCHANGED <<err, bufs>>
      <4>1. PICK c \in {"A", "W"}, b \in 0 .. 1, tile \in {ATile(k), ATile(k + 1), WTile(k + 1)} :
                Load(c, b, tile)
        BY <2>1, <3>1, <3>3 DEF LoadAct, Preload
      <4> QED BY <2>1, <3>1, <4>1, SameResult
    <3> QED BY <3>2, <3>3
  <2>3. Owed' = Owed
    BY <2>1, OwedSame DEF PipeRun
  <2>4. Live' => Live
    <3>1. mode' = mode /\ h' = h /\ stall' = stall /\ armed' = armed /\ st_seen' = st_seen
      BY <2>1 DEF kernel, hooks
    <3>2. (Full' <=> Full) /\ (Staging' <=> Staging)
      BY <3>1 DEF Full, Strided, WOuter, Staging
    <3>3. Begun
      BY <2>1 DEF Begun
    <3> QED BY <2>2, <3>1, <3>2, <3>3 DEF Live
  <2>5. Live' => Owed' = 0 \/ WTile(k)' = WTile(k)
    <3>1. CASE LoadAct
      BY <3>1 DEF LoadAct, WTile, WOuter
    <3>2. ASSUME Preload, Full, Owed # 0 PROVE WTile(k)' = WTile(k)
      <4>1. pc = "pre" /\ k < Total /\ k' = k + 1 /\ mode' = mode
        BY <3>2 DEF Preload
      <4>2. k \in 1 .. Total
        BY DEF PipeRun, Typed, PlanOK
      <4>3. Col # TilesA - 1
        BY <3>2, <4>1, EngineShapeAssumption DEF Owed, Full
      <4>4. WTile(k + 1) = WTile(k)
        BY <3>2, <4>1, <4>2, <4>3, NextRow DEF Col
      <4>5. WTile(k)' = WTile(k + 1)
        BY <4>1 DEF WTile, WOuter
      <4> QED BY <4>4, <4>5
    <3> QED BY <2>1, <2>3, <2>4, <3>1, <3>2 DEF Live
  <2> QED BY <2>1, <2>2, <2>3, <2>4, <2>5, DataFrame DEF hooks
<1>5. CASE Compute /\ UNCHANGED <<kernel, hooks>>
  BY <1>5, ComputeData
<1>6. CASE Unhooked /\ ~Compute
  <2>1. UNCHANGED <<kernel, hooks>> /\ UNCHANGED <<r, mode, k>>
    BY <1>6 DEF Unhooked, AwaitIdle, LoadWgt, AwaitReady, NestDone, PadTile, Finish, PlaceEarly,
       PlaceLate, TimeOut, Return
  <2>2. (Full' <=> Full) /\ (Staging' <=> Staging) /\ stall' = stall /\ armed' = armed /\ st_seen' = st_seen
    BY <2>1 DEF Full, Strided, WOuter, Staging, kernel, hooks
  <2>3. CASE PadTile \/ PlaceEarly \/ PlaceLate
    <3>1. ~Full
      BY <2>3 DEF PadTile, PlaceEarly, PlaceLate, PipeRun, CountInv, Nest, Full
    <3> QED BY <2>2, <3>1 DEF DataInv, Live
  <2>4. CASE ~(PadTile \/ PlaceEarly \/ PlaceLate)
    <3>1. /\ UNCHANGED <<tseq, pipe, fifo, drain, puts, mem>>
          /\ Running' /\ pc' # "start" => Running /\ pc # "start"
      BY <1>6, <2>4 DEF Unhooked, AwaitIdle, LoadWgt, AwaitReady, NestDone, Finish, TimeOut, Return,
         Running, engine, store, Masked
    <3>2. (tseq.left > 0 => Result' = Result) /\ (~err' => ~err)
      <4>1. CASE UNCHANGED <<err, bufs>>
        BY <3>1, <4>1 DEF Result
      <4>2. CASE ~UNCHANGED <<err, bufs>>
        <5>1. Load("W", Other(cwb), WTile(k)) /\ Other(cwb) \in 0 .. 1
          BY <1>6, <2>4, <4>2 DEF Unhooked, AwaitIdle, LoadWgt, AwaitReady, NestDone, Finish, TimeOut,
             engine, Other
        <5> QED BY <3>1, <5>1, SameResult DEF PipeRun
      <4> QED BY <4>1, <4>2
    <3>3. Live' => Live
      BY <2>2, <3>1, <3>2 DEF Live, Begun
    <3>4. Owed' = 0 \/ Owed' = Owed
      <4>1. CASE Running'
        <5>1. CASE pc' # "start"
          BY <3>1, <4>1, <5>1, OwedSame DEF PipeRun
        <5>2. CASE pc' = "start"
          BY <5>2 DEF Owed
        <5> QED BY <5>1, <5>2
      <4>2. CASE ~Running'
        BY <4>2 DEF Owed, Running
      <4> QED BY <4>1, <4>2
    <3>5. WTile(k)' = WTile(k)
      BY <2>1 DEF WTile, WOuter
    <3> QED BY <2>1, <3>1, <3>2, <3>3, <3>4, <3>5, DataFrame DEF hooks
  <2> QED BY <2>3, <2>4
<1> QED BY <1>1, <1>2, <1>3, <1>4, <1>5, <1>6 DEF PipeHart1, Unhooked

-----------------------------------------------------------------------------
(* WHAT HART 0 HAS TRANSPOSED                                                *)

Turned == Staging /\ ~stall /\ ~err => \A t \in 0 .. done - 1 : tensor[t] = call
DrainInv == Held /\ Apart /\ WgtInv /\ MarkInv /\ DataInv /\ Turned

\* A step that touches neither the plan, the hooks nor the kernel.
LEMMA RestDrained ==
  ASSUME MarkInv, DataInv, UNCHANGED pvars
  PROVE  MarkInv' /\ DataInv'
<1>1. /\ UNCHANGED <<h, staged, done, stall, armed, st_seen, drain_wm, pc, k, mode, r, err, bufs>>
      /\ UNCHANGED <<tseq, pipe, fifo, drain, puts, mem>>
  BY DEF pvars, vars, plan, engine, store, kernel, hooks
<1>2. (Staging' <=> Staging) /\ (Preparing' <=> Preparing) /\ (Full' <=> Full) /\ (Running' <=> Running)
      /\ Row' = Row /\ Strided' = Strided
  BY <1>1 DEF Staging, Preparing, Before, Full, Strided, WOuter, Running, Row, Col, WTile
<1>3. MarkInv'
  BY <1>1, <1>2 DEF MarkInv, Fresh, Water, Seen
<1>4. Owed' = Owed /\ WTile(k)' = WTile(k) /\ Result' = Result
  BY <1>1 DEF Owed, Col, Strided, WOuter, Pad, WTile, Result
<1>5. Live' => Live
  BY <1>1, <1>2 DEF Live, Begun
<1> QED BY <1>1, <1>3, <1>4, <1>5, DataFrame

\* The unit moves no watermark.
LEMMA UnitDrained ==
  ASSUME MarkInv, PipeUnit
  PROVE  MarkInv'
<1>1. UNCHANGED <<pc, mode, k, kernel, hooks>>
  BY UnitFrame DEF PipeUnit, plan
<1> QED BY <1>1 DEF kernel, hooks, MarkInv, Fresh, Water, Seen, Staging, Preparing, Before, Full, Strided,
   WOuter, Row, Col, WTile, Running

\* What hart 0 transposes is below the watermark, where every cell has arrived.
LEMMA TurnedKept ==
  ASSUME PipeRun, KernelOK, MarkInv, DataInv, Turned, [PipeNext]_pvars
  PROVE  Turned'
<1>1. CASE Arm
  <2>1. done' = 0
    BY <1>1 DEF Arm
  <2> QED BY <2>1 DEF Turned
<1>2. CASE StageChunk \/ PublishStage
  <2>1. UNCHANGED <<stall, err, done, tensor, call>> /\ Staging
    BY <1>2 DEF StageChunk, PublishStage, engine, hooks, Staging
  <2> QED BY <2>1 DEF Turned
<1>3. CASE TransposeTile
  <2>1. /\ h = "stage" /\ done < drain_wm /\ done' = done + 1 /\ staged = TilesA
        /\ tensor' = [tensor EXCEPT ![done] = Columns(done)]
        /\ UNCHANGED <<h, call, err, stall>>
    BY <1>3 DEF TransposeTile, vars, engine, hooks
  <2> SUFFICES ASSUME Staging', ~stall', ~err', NEW t \in 0 .. done' - 1 PROVE tensor'[t] = call'
    BY DEF Turned
  <2>2. Staging /\ ~stall /\ ~err /\ done \in 0 .. TilesW /\ drain_wm \in 0 .. TilesW
        /\ st_seen \in Nat /\ tensor \in [WTiles -> 0 .. MaxRuns] /\ TilesW \in Nat
    BY <2>1, EngineShapeAssumption DEF Staging, KernelOK, Columned, Marks
  <2>3. armed = 2 /\ st_seen > 1
    BY <2>1, <2>2 DEF MarkInv, Water
  <2>4. Full
    BY <2>2, <2>3 DEF MarkInv, Seen
  <2>5. Data
    BY <2>2, <2>3, <2>4 DEF DataInv, Live, Begun
  <2>6. done \in WTiles
    BY <2>1, <2>2 DEF WTiles
  <2>7. Columns(done) = call
    BY <2>1, <2>5, <2>6 DEF Data, Arrived, Columns
  <2>8. t # done => t \in 0 .. done - 1 /\ tensor'[t] = tensor[t]
    BY <2>1, <2>2
  <2>9. tensor'[done] = call
    BY <2>1, <2>2, <2>6, <2>7
  <2> QED BY <2>1, <2>2, <2>8, <2>9 DEF Turned
<1>4. CASE Collect \/ Ship \/ CollectShipped
  BY <1>4 DEF Collect, Ship, CollectShipped, Turned, Staging
<1>5. CASE UNCHANGED kernel /\ (stall' = stall \/ stall') /\ (~err' => ~err)
  BY <1>5 DEF Turned, kernel, Staging
<1>6. CASE HookedStart
  <2>1. pc = "start" /\ UNCHANGED kernel
    BY <1>6 DEF HookedStart, Start, At
  <2>2. Staging => done = 0
    BY <2>1 DEF MarkInv, Fresh
  <2>3. Staging' => 0 .. done' - 1 = {}
    BY <2>1, <2>2 DEF kernel, Staging
  <2> QED BY <2>3 DEF Turned
<1>7. CASE PipeHart1 /\ ~HookedStart
  <2>1. UNCHANGED kernel /\ (SpinOut \/ (Hart1 /\ ~Start /\ stall' = stall))
    <3>1. Start => HookedStart
      BY <1>7 DEF PipeHart1, HookedLoad, SpinOut, HookedArm, Unhooked, Start, LoadAct, Preload, ArmStrided,
         AwaitIdle, LoadWgt, AwaitReady, Compute, NestDone, PadTile, Finish, PlaceEarly, PlaceLate,
         TimeOut, Return, vars, plan, At, Masked
    <3> QED BY <1>7, <3>1, Hart1Step DEF KernelOK, Marks
  <2>2. CASE SpinOut
    BY <2>1, <2>2 DEF SpinOut, Turned
  <2>3. CASE Hart1 /\ ~Start /\ stall' = stall
    BY <1>5, <2>1, <2>3, StickyKept
  <2> QED BY <2>1, <2>2, <2>3
<1>8. CASE PipeUnit
  BY <1>5, <1>8, StickyKept DEF PipeUnit, hooks
<1>9. CASE UNCHANGED pvars
  BY <1>5, <1>9 DEF pvars, vars, engine, hooks
<1> QED BY <1>1, <1>2, <1>3, <1>4, <1>6, <1>7, <1>8, <1>9 DEF PipeNext, Hart0, Spins, Over

\* The operands of the pair and the weights of the run, in the pipeline.
LEMMA OperandsKept ==
  ASSUME PipeRun, Held, Apart, WgtInv, [PipeNext]_pvars
  PROVE  Held' /\ Apart' /\ WgtInv'
<1> USE DEF PipeRun, PipeInv
<1>1. CASE Hart1
  BY <1>1, HeldKept, ApartKept, Hart1Wgt
<1>2. CASE Unit
  <2>1. Held'
    BY <1>2, UnitFrame DEF plan, Held, Holds, ATile, WTile, WOuter
  <2> QED BY <1>2, <2>1, ApartKept, UnitWgt
<1>3. CASE Enter /\ UNCHANGED engine
  BY <1>3 DEF Enter, engine, Held, Apart, Filling, LoadClash, Computing, WgtInv, NoWgt, Running
<1>4. CASE /\ UNCHANGED <<r, k, mode, aIn, wIn, err, ld, bufs, tseq>>
           /\ pc' = pc \/ pc' = "idle"
  BY <1>4 DEF Held, Holds, ATile, WTile, WOuter, Apart, Filling, LoadClash, Computing, WgtInv, NoWgt,
     WgtRight, FillingW, Running
<1> QED BY <1>1, <1>2, <1>3, <1>4, DriverRest

\* The pipeline's data keeps its places for ever.
LEMMA DrainHolds == PipeSpec => [](PipeRun /\ KernelOK /\ DrainInv)
<1> DEFINE Inv == PipeRun /\ KernelOK /\ DrainInv
<1>1. PipeInit => Inv
  <2> SUFFICES ASSUME PipeInit PROVE Inv
    OBVIOUS
  <2>1. PipeRun /\ KernelOK
    BY KernelStarts
  <2>2. pc = "idle" /\ ~Filling /\ ~Staging
    BY DEF PipeInit, Init, Filling, Staging
  <2> QED BY <2>1, <2>2 DEF DrainInv, Held, Apart, WgtInv, NoWgt, Running, MarkInv, Fresh, Water, Seen,
             DataInv, Live, Turned
<1>2. Inv /\ [PipeNext]_pvars => Inv'
  <2> SUFFICES ASSUME Inv, [PipeNext]_pvars PROVE Inv'
    OBVIOUS
  <2> USE DEF DrainInv
  <2>1. PipeRun' /\ KernelOK'
    BY KernelKept
  <2>2. Held' /\ Apart' /\ WgtInv'
    BY OperandsKept
  <2>3. MarkInv' /\ DataInv'
    <3>1. CASE Arm \/ Hart0
      <4>1. MarkInv'
        BY <3>1, Hart0Drained
      <4> QED BY <3>1, <4>1, Hart0Data
    <3>2. CASE PipeHart1
      BY <2>1, <3>2, Hart1Drained, Hart1Data
    <3>3. CASE PipeUnit
      <4>1. MarkInv'
        BY <3>3, UnitDrained
      <4> QED BY <3>3, <4>1, UnitData
    <3>4. CASE UNCHANGED pvars
      BY <3>4, RestDrained
    <3> QED BY <3>1, <3>2, <3>3, <3>4 DEF PipeNext, Spins, Over
  <2>4. Turned'
    BY TurnedKept
  <2> QED BY <2>1, <2>2, <2>3, <2>4
<1> QED BY <1>1, <1>2, PTL DEF PipeSpec

\* Hart 0 never transposes what the drain has not written, for any number of
\* tiles and calls, any fault and any spin.  The invariant is where every cell
\* of the columns armed so far is.
THEOREM TransposedDrainedHolds == PipeSpec => []TransposedDrained
<1>1. DrainInv => TransposedDrained
  BY DEF DrainInv, Turned, TransposedDrained, Staging
<1> QED BY DrainHolds, <1>1, PTL

-----------------------------------------------------------------------------
(* THE ANSWER: a run hart 0 staged for, past the gate or on the shipping     *)
(* path, ends with the whole output right, and that is what is transposed.   *)

Fed     == (Staging /\ ~Preparing /\ ~stall) \/ h = "wait"
ShipAct == h = "wait" /\ Running /\ ~err => ActRight
Served  == /\ BlocksInv
           /\ Fed => FlowInv /\ PlacedCells
           /\ pc = "late" => ~err
Ended   == rc = "OK" /\ Fed => /\ pc = "idle" /\ ~err /\ ~Busy
                               /\ \A x \in Output : mem[x] = Right(r, x)
Counted == h # "idle" => call > 0
AnswerInv == ShipAct /\ Served /\ Ended /\ Counted

\* Whatever staged it, a run that was fed computes from its own activations.
LEMMA FedActs ==
  ASSUME PipeRun, ShipAct, Fed, Running, ~err
  PROVE  ActRight
<1>1. CASE h = "wait"
  BY <1>1 DEF ShipAct
<1>2. CASE h # "wait"
  BY <1>2 DEF Fed, PipeRun, PipeInv, FillInv, Loading, Loaded, ActRight
<1> QED BY <1>1, <1>2

\* On the shipping path everything was staged, and nothing else is loaded.
LEMMA ShipsAct ==
  ASSUME PipeInv, h = "wait", ShipAct
  PROVE  ActInv /\ Input
<1>1. Input
  BY DEF PipeInv, StageInv, Staged, Input
<1>2. NoAct
  BY DEF PipeInv, FillInv, Empty, NoAct
<1> QED BY <1>1, <1>2 DEF ActInv, ShipAct

\* The end of the spin gives the run up.
LEMMA SpinServed ==
  ASSUME PipeRun, AnswerInv, SpinOut
  PROVE  AnswerInv'
<1>1. armed > 0 /\ stall' = TRUE /\ UNCHANGED <<vars, kernel>>
  BY DEF SpinOut, Gated
<1>2. /\ UNCHANGED <<h, call, staged, done, tensor>>
      /\ UNCHANGED <<pc, r, mode, rc, placed, err, ld, bufs, aIn, drain, puts>>
  BY <1>1 DEF vars, plan, engine, store, kernel
<1>3. h # "wait"
  BY <1>1 DEF PipeRun, PipeInv, StageInv, Gate, Staging
<1>4. ~Fed'
  BY <1>1, <1>2, <1>3 DEF Fed
<1>5. BlocksInv'
  BY <1>2 DEF AnswerInv, Served, BlocksInv, Blocks, Active, Running, Strided
<1> QED BY <1>2, <1>3, <1>4, <1>5 DEF AnswerInv, ShipAct, Served, Ended, Counted

\* Every other step of hart 1.
LEMMA Hart1Served ==
  ASSUME PipeRun, PipeRun', Held, WgtInv, AnswerInv, Hart1, UNCHANGED <<kernel, stall>>
  PROVE  AnswerInv'
<1> USE DEF At
<1>a. Typed /\ Typed' /\ CountInv /\ CountInv' /\ BufferInv /\ PipeInv
  BY DEF PipeRun, PipeInv
<1>b. Fed' = Fed /\ h' = h /\ call' = call
  BY DEF kernel, Fed, Staging, Preparing, Before
<1>c. pc # "idle" /\ r' = r
  BY Hart1Frame
<1>1. ShipAct'
  <2> SUFFICES ASSUME h = "wait" PROVE ShipAct'
    BY <1>b DEF ShipAct
  <2>1. ActInv'
    BY <1>a, ShipsAct, Hart1Act DEF AnswerInv
  <2> QED BY <2>1 DEF ActInv, ShipAct
<1>2. Served'
  <2>1. BlocksInv'
    BY <1>a, Hart1Blocks DEF AnswerInv, Served
  <2>2. ASSUME Fed PROVE FlowInv' /\ PlacedCells'
    <3>1. FlowInv /\ BlocksInv /\ PlacedCells
      BY <2>2 DEF AnswerInv, Served
    <3>2. Running /\ ~err => ActRight /\ WgtRight
      BY <2>2, FedActs DEF AnswerInv, WgtInv
    <3> QED BY <1>a, <3>1, <3>2, Hart1Flow, Hart1Placed
  <2>3. pc' = "late" => ~err'
    <3> SUFFICES ASSUME pc' = "late" PROVE ~err'
      OBVIOUS
    <3>1. Finish
      <4>1. ~PlaceEarly
        BY DEF PlaceEarly, Masked
      <4> QED BY <4>1 DEF Hart1, AwaitIdle, Start, LoadAct, LoadWgt, AwaitReady, ArmStrided, Compute,
           Preload, NestDone, PadTile, PlaceLate, TimeOut, Software, Return
    <3> QED BY <3>1 DEF Finish, HwError, Return, engine
  <2> QED BY <1>b, <2>1, <2>2, <2>3 DEF Served
<1>3. Ended'
  <2> SUFFICES ASSUME rc' = "OK", Fed
               PROVE  pc' = "idle" /\ ~err' /\ ~Busy' /\ \A x \in Output : mem'[x] = Right(r', x)
    BY <1>b DEF Ended
  <2>1. rc # "OK"
    BY <1>c DEF AnswerInv, Ended
  <2>2. Finish \/ PlaceLate
    BY <2>1 DEF Hart1, AwaitIdle, Start, LoadAct, LoadWgt, AwaitReady, ArmStrided, Compute, Preload,
       NestDone, PadTile, PlaceEarly, TimeOut, Software, Return
  <2>3. pc' = "idle"
    BY <2>1, <2>2 DEF Finish, PlaceLate, Return
  <2> QED BY <1>a, <2>2, <2>3, EndsRight DEF AnswerInv, Served
<1> QED BY <1>1, <1>2, <1>3, <1>b DEF AnswerInv, Counted

\* Every step of the engine.
LEMMA UnitServed ==
  ASSUME PipeRun, PipeRun', Apart, AnswerInv, PipeUnit
  PROVE  AnswerInv'
<1>a. Typed /\ Typed' /\ CountInv /\ BufferInv /\ PipeInv /\ Unit
  BY DEF PipeRun, PipeInv, PipeUnit
<1>b. Fed' = Fed /\ h' = h /\ call' = call
  BY DEF PipeUnit, kernel, hooks, Fed, Staging, Preparing, Before
<1>c. UNCHANGED <<pc, r, mode, rc, placed>>
  BY <1>a, UnitFrame DEF plan
<1>d. ~err' => ~err
  BY <1>a, StickyKept
<1>e. Busy
  BY <1>a, StalledStays, NotBusyStalls
<1>1. ShipAct'
  <2> SUFFICES ASSUME h = "wait" PROVE ShipAct'
    BY <1>b DEF ShipAct
  <2>1. ActInv'
    BY <1>a, ShipsAct, UnitAct DEF AnswerInv
  <2> QED BY <2>1 DEF ActInv, ShipAct
<1>2. Served'
  <2>1. BlocksInv'
    BY <1>a, UnitBlocks DEF AnswerInv, Served
  <2>2. ASSUME Fed PROVE FlowInv' /\ PlacedCells'
    <3>1. FlowInv /\ BlocksInv /\ PlacedCells
      BY <2>2 DEF AnswerInv, Served
    <3>2. FlowInv'
      <4> SUFFICES ASSUME Active', ~err' PROVE Flow'
        BY DEF FlowInv
      <4>1. Active /\ Running /\ ~err
        BY <1>c, <1>d DEF Active, Running
      <4> QED BY <1>a, <3>1, <4>1, UnitFlow DEF FlowInv
    <3> QED BY <1>a, <3>1, <3>2, UnitPlaced
  <2>3. pc' # "late"
    BY <1>a, <1>c, <1>e DEF CountInv, Quiet
  <2> QED BY <1>b, <2>1, <2>2, <2>3 DEF Served
<1>3. Ended'
  BY <1>b, <1>c, <1>e DEF AnswerInv, Ended
<1> QED BY <1>1, <1>2, <1>3, <1>b DEF AnswerInv, Counted

\* A run that is only entered has sent nothing.
LEMMA EnterServed ==
  ASSUME Enter, call' > 0
  PROVE  AnswerInv'
<1>1. pc' = "busy" /\ placed' = 0 /\ rc' = "none"
  BY DEF Enter
<1> QED BY <1>1 DEF AnswerInv, ShipAct, Served, Ended, Counted, BlocksInv, FlowInv, PlacedCells, Active,
       Running

\* A step that leaves the run alone, or collects it.
LEMMA RestServed ==
  ASSUME Typed, AnswerInv, UNCHANGED <<r, mode, k, aIn, placed, rc, engine, store, mem>>,
         Fed' => Fed, pc' = pc \/ pc' = "idle", h' # "wait" \/ h' = h, h' # "idle" => call' > 0
  PROVE  AnswerInv'
<1>a. UNCHANGED <<err, ld, bufs, tseq, pipe, fifo, drain, puts>>
  BY DEF engine, store
<1>1. (Active' => Active /\ pc' = pc) /\ (Running' => Running /\ pc' = pc) /\ (Busy' <=> Busy)
  BY <1>a DEF Active, Running, Busy, Filling, Computing, Draining, InPipe
<1>2. ShipAct'
  BY <1>a, <1>1 DEF AnswerInv, ShipAct, ActRight, FillingA
<1>3. BlocksInv'
  BY <1>a, <1>1 DEF AnswerInv, Served, BlocksInv, Blocks, Strided
<1>4. ASSUME Fed' PROVE FlowInv' /\ PlacedCells'
  <2>1. FlowInv /\ PlacedCells
    BY <1>4 DEF AnswerInv, Served
  <2>2. PlacedCells'
    BY <1>a, <2>1 DEF PlacedCells
  <2>3. ASSUME Active', ~err' PROVE Flow'
    <3>1. Flow /\ pc' = pc /\ tseq.left \in Nat
      BY <1>a, <1>1, <2>1, <2>3, Counts DEF FlowInv
    <3>2. Owed' = Owed /\ Given' = Given /\ Result' = Result
      BY <1>a, <3>1 DEF Owed, Col, Strided, WOuter, Pad, Given, Result
    <3> QED BY <1>a, <3>1, <3>2, FlowFrame
  <2> QED BY <2>2, <2>3 DEF FlowInv
<1>5. Ended'
  BY <1>a, <1>1 DEF AnswerInv, Ended
<1> QED BY <1>a, <1>2, <1>3, <1>4, <1>5 DEF AnswerInv, Served, Counted

\* Every step of hart 0.
LEMMA Hart0Served ==
  ASSUME PipeRun, KernelOK, AnswerInv, Arm \/ Hart0
  PROVE  AnswerInv'
<1>a. Typed /\ call \in Nat /\ staged \in 0 .. TilesA /\ TilesA \in Nat \ {0}
  BY EngineShapeAssumption DEF PipeRun, KernelOK, Calls, PipeInv, StageInv, Extents
<1>b. h # "idle" => call > 0
  BY DEF AnswerInv, Counted
<1>1. CASE Arm
  <2>1. /\ UNCHANGED <<r, mode, k, aIn, placed, rc, engine, store, mem, pc>>
        /\ h' = "stage" /\ staged' = 0 /\ call' = call + 1
    BY <1>1 DEF Arm, vars, plan
  <2>2. ~Fed'
    BY <2>1 DEF Fed, Staging, Preparing
  <2> QED BY <1>a, <2>1, <2>2, RestServed
<1>2. CASE StageChunk
  <2>1. /\ UNCHANGED <<r, mode, k, aIn, placed, rc, engine, store, mem, pc>>
        /\ h = "stage" /\ h' = "publish" /\ staged' = staged + 1 /\ UNCHANGED <<call, stall>>
    BY <1>2 DEF StageChunk, plan, hooks
  <2>2. Fed' => Fed
    BY <1>a, <2>1 DEF Fed, Staging, Preparing, Before
  <2> QED BY <1>a, <1>b, <2>1, <2>2, RestServed
<1>3. CASE PublishStage
  <2>1. h = "publish" /\ h' = "stage" /\ UNCHANGED <<call, staged, stall, engine, store, mem>>
    BY <1>3 DEF PublishStage
  <2>2. CASE staged = 1
    BY <1>b, <1>3, <2>1, <2>2, EnterServed DEF PublishStage
  <2>3. CASE staged # 1
    <3>1. UNCHANGED <<r, mode, k, aIn, placed, rc, pc>>
      BY <1>3, <2>3 DEF PublishStage, plan
    <3>2. Fed' => Fed
      BY <2>1, <2>3 DEF Fed, Staging, Preparing, Before
    <3> QED BY <1>a, <1>b, <2>1, <3>1, <3>2, RestServed
  <2> QED BY <2>2, <2>3
<1>4. CASE TransposeTile
  <2>1. UNCHANGED <<r, mode, k, aIn, placed, rc, engine, store, mem, pc, h, call, staged, stall>>
    BY <1>4 DEF TransposeTile, vars, plan, hooks
  <2>2. Fed' => Fed
    BY <2>1 DEF Fed, Staging, Preparing, Before
  <2> QED BY <1>a, <1>b, <2>1, <2>2, RestServed
<1>5. CASE Collect \/ CollectShipped
  <2>1. /\ UNCHANGED <<r, mode, k, aIn, placed, rc, engine, store, mem, call>> /\ pc' = "idle"
        /\ h # "idle" /\ h' \in {"idle", "ship"}
    BY <1>5 DEF Collect, CollectShipped
  <2>2. ~Fed'
    BY <2>1 DEF Fed, Staging
  <2> QED BY <1>a, <1>b, <2>1, <2>2, RestServed
<1>6. CASE Ship
  BY <1>b, <1>6, EnterServed DEF Ship
<1> QED BY <1>1, <1>2, <1>3, <1>4, <1>5, <1>6 DEF Hart0

\* Every step of the pipeline.
LEMMA AnswerKept ==
  ASSUME PipeRun, KernelOK, DrainInv, AnswerInv, [PipeNext]_pvars
  PROVE  AnswerInv'
<1>a. PipeRun' /\ Typed /\ armed \in 0 .. 2
  BY KernelKept DEF PipeRun, KernelOK, Marks
<1>1. CASE Arm \/ Hart0
  BY <1>1, Hart0Served
<1>2. CASE PipeHart1
  <2>1. UNCHANGED kernel /\ (SpinOut \/ (Hart1 /\ stall' = stall))
    BY <1>a, <1>2, Hart1Step
  <2> QED BY <1>a, <2>1, SpinServed, Hart1Served DEF DrainInv
<1>3. CASE PipeUnit
  BY <1>a, <1>3, UnitServed DEF DrainInv
<1>4. CASE UNCHANGED pvars
  <2>1. UNCHANGED <<r, mode, k, aIn, placed, rc, engine, store, mem, pc, h, call, staged, stall>>
    BY <1>4 DEF pvars, vars, plan, kernel, hooks
  <2>2. Fed' => Fed
    BY <2>1 DEF Fed, Staging, Preparing, Before
  <2> QED BY <1>a, <2>1, <2>2, RestServed DEF AnswerInv, Counted
<1> QED BY <1>1, <1>2, <1>3, <1>4 DEF PipeNext, Spins, Over

\* A kernel that returns has every column of its tensor right.
LEMMA ReturnsWhole ==
  ASSUME PipeRun, KernelOK, DrainInv, AnswerInv, Hart0, h # "idle", h' = "idle", NEW t \in WTiles
  PROVE  tensor'[t] = call
<1>1. Collect \/ CollectShipped
  BY DEF Hart0, StageChunk, PublishStage, TransposeTile, Ship
<1>2. ASSUME rc = "OK", Fed, NEW u \in WTiles PROVE Columns(u) = call
  <2>1. \A a \in ATiles : <<a, u>> \in Output
    BY DEF Output
  <2> QED BY <1>2, <2>1 DEF AnswerInv, Ended, Columns
<1>3. CASE Collect
  <2>1. /\ h = "stage" /\ staged = TilesA /\ rc = "OK" /\ ~stall
        /\ tensor' = TransposeRest(done)
    BY <1>3 DEF Collect, Keeps
  <2>2. Fed
    BY <2>1, EngineShapeAssumption DEF Fed, Staging, Preparing, Before
  <2>3. ~err /\ Staging
    BY <2>1, <2>2 DEF AnswerInv, Ended, Staging
  <2>4. t < done => tensor[t] = call
    <3>1. done \in 0 .. TilesW /\ t \in Nat /\ (t < done => t \in 0 .. done - 1)
      BY EngineShapeAssumption DEF KernelOK, Columned, WTiles
    <3> QED BY <2>1, <2>3, <3>1 DEF DrainInv, Turned
  <2>5. t >= done \/ t < done
    BY EngineShapeAssumption DEF KernelOK, Columned, WTiles
  <2> QED BY <1>2, <2>1, <2>2, <2>4, <2>5 DEF TransposeRest
<1>4. CASE CollectShipped
  <2>1. h = "wait" /\ Fed
    BY <1>4 DEF CollectShipped, Fed
  <2>2. t >= 0
    BY EngineShapeAssumption DEF WTiles
  <2> QED BY <1>2, <1>4, <2>1, <2>2 DEF CollectShipped, TransposeRest
<1> QED BY <1>1, <1>3, <1>4

\* There is one tensor, so a call changes no other.
LEMMA OneAnswer == call \in Nat => Promise0!OnlyCurrent
<1> SUFFICES ASSUME call \in Nat PROVE Promise0!OnlyCurrent
  OBVIOUS
<1>1. call % 1 = 0 /\ 0 .. 1 - 1 = {0}
  OBVIOUS
<1>2. Promise0!Bufs \ {Promise0!Buf} = {}
  BY <1>1 DEF Promise0!Bufs, Promise0!Buf
<1> QED BY <1>2 DEF Promise0!OnlyCurrent

\* Before the first call the tensor is empty.
LEMMA InitAnswers == PipeInit => Promise0!Init
<1> SUFFICES ASSUME PipeInit PROVE Promise0!Init
  OBVIOUS
<1>1. 0 .. 1 - 1 = {0} /\ TilesW \in Nat
  BY EngineShapeAssumption
<1>2. \A t \in 1 .. TilesW : t - 1 \in WTiles
  BY <1>1 DEF WTiles
<1>3. h = "idle" /\ call = 0 /\ tensor = [t \in WTiles |-> 0]
  BY DEF PipeInit
<1> QED BY <1>1, <1>2, <1>3 DEF Promise0!Init, Promise0!Bufs, Promise0!Parts, Promise0!None

\* Every step of the two harts is a step of the promise or none.
LEMMA NextAnswers ==
  ASSUME PipeRun, KernelOK, DrainInv, AnswerInv, [PipeNext]_pvars
  PROVE  [Promise0!Next]_Promise0!vars
<1>a. call \in Nat /\ TilesW \in Nat \ {0} /\ armed \in 0 .. 2 /\ MaxRuns \in Nat /\ r \in Nat
  BY EngineShapeAssumption, EngineBoundsAssumption
     DEF KernelOK, Calls, Marks, PipeRun, Typed, PlanOK
<1>1. CASE Arm
  <2>1. /\ h = "idle" /\ h' = "stage" /\ call' = call + 1 /\ tensor' = tensor /\ r + 2 <= MaxRuns
    BY <1>1 DEF Arm
  <2>2. call < MaxRuns
    BY <1>a, <2>1 DEF KernelOK, Calls, Preparing, Before
  <2>3. call' # 0 /\ TilesW \in 1 .. TilesW
    BY <1>a, <2>1
  <2> QED BY <2>1, <2>2, <2>3 DEF Promise0!Next, Promise0!Begin, Promise0!Parts
<1>2. CASE Hart0
  <2>1. h # "idle" /\ call' = call
    BY <1>2 DEF Hart0, StageChunk, PublishStage, TransposeTile, Collect, Ship, CollectShipped
  <2>2. call # 0
    BY <1>a, <2>1 DEF AnswerInv, Counted
  <2>3. CASE h' # "idle"
    BY <1>a, <2>1, <2>3, OneAnswer DEF Promise0!Next, Promise0!Work
  <2>4. CASE h' = "idle"
    <3>1. \A t \in 1 .. TilesW : tensor'[t - 1] = call
      <4>1. \A t \in 1 .. TilesW : t - 1 \in WTiles
        BY <1>a DEF WTiles
      <4> QED BY <1>2, <2>1, <2>4, <4>1, ReturnsWhole
    <3>2. call % 1 = 0
      BY <1>a
    <3>3. Promise0!Right([t \in 1 .. TilesW |->
                       IF tensor'[t - 1] = 0 THEN <<0, 0>> ELSE <<tensor'[t - 1], t>>])
      BY <2>2, <3>1 DEF Promise0!Right
    <3> QED BY <1>a, <2>1, <2>2, <2>4, <3>2, <3>3, OneAnswer
            DEF Promise0!Next, Promise0!Return, Promise0!Buf
  <2> QED BY <2>3, <2>4
<1>3. CASE UNCHANGED kernel
  BY <1>3 DEF kernel, Promise0!vars
<1>4. CASE PipeHart1
  BY <1>a, <1>3, <1>4, Hart1Step
<1> QED BY <1>1, <1>2, <1>3, <1>4 DEF PipeNext, PipeUnit, Spins, Over, pvars

\* At the start no run has returned.
LEMMA AnswerStarts == PipeInit => AnswerInv
<1> SUFFICES ASSUME PipeInit PROVE AnswerInv
  OBVIOUS
<1>1. pc = "idle" /\ rc = "none" /\ placed = 0 /\ h = "idle"
  BY DEF PipeInit, Init
<1> QED BY <1>1 DEF AnswerInv, ShipAct, Served, Ended, Counted, BlocksInv, Fed, Staging, Active, Running

\* The convolution kernel keeps its promise to the network whatever the bus
\* does, however slow hart 0 stages and whenever the spin or the poll limit
\* gives up: it returns with every column right, from the pipeline or from the
\* shipping path, and changes nothing between two calls.
THEOREM ConvOffloadsHolds == PipeSpec => ConvOffloads
<1>1. PipeRun /\ KernelOK /\ DrainInv /\ AnswerInv /\ [PipeNext]_pvars => AnswerInv'
  BY AnswerKept
<1>2. PipeRun /\ KernelOK /\ DrainInv /\ AnswerInv /\ [PipeNext]_pvars => [Promise0!Next]_Promise0!vars
  BY NextAnswers
<1> QED BY DrainHolds, AnswerStarts, InitAnswers, <1>1, <1>2, PTL
        DEF PipeSpec, ConvOffloads, Promise0!Spec
=============================================================================
