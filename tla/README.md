# A TLA+ model of the RoCC runtime

This directory models the part of the robotics stack that runs a neural network
on the two-hart Rocket system of the PYNQ-Z2 board with the RoCC matrix engine:
the hand-off of work between the harts, the dispatchers and drivers on hart 1,
the engine they drive, and the pipeline that overlaps the two harts; the tables
of weight images hart 0 keeps; the camera whose frames the network looks at; and
the queue in which the team's sessions share the one board.  TLC checks
the modules on small instances; TLAPS proves their safety properties and
refinements for every value of the constants, some under named hypotheses.

Paths below are relative to the repository; `RT` is
`fpga/pynq-z2/sw/roccmoon/mbxr_rt.h`, `LH` is `mbxr_lanes.h`, `LD` is
`mbxr_lane_dispatch.h` and `B102` is `mbxr_b102.h` beside it, `EN` is `mbxr.c`
beside it, and the RTL is `fpga/pynq-z2/src/lanes_engine_b98nch8b`; `ATT` is the
attention kernel `fpga/pynq-z2/modelblaster/kernels/roccmoon/
roccmoon_attention_s8_roccmoon_lane.c`.

## Inventory

### The hart hand-off (`RT` and the kernels that call it)

Hart 0 runs the network, one operator kernel after another.  Only hart 1 has the
RoCC port, so a kernel stages its input, fills the one global `mbxr_rt_job`,
clears `mbxr_rt_done`, bumps `mbxr_rt_seq`, gives the semaphore `mbxr_rt_go`
and polls `done`.  The worker thread on hart 1 takes the token, compares `seq`
with the last number it ran, runs the job and sets `done`.  A poll that is late
gives the semaphore again (a kick) and past a bound gives the worker up:
`mbxr_rt_state` becomes -1 and the kernels compute in software.  Nothing
cancels the abandoned job.

- State: `mbxr_rt_state`, `_go`, `_seq`, `_started_seq`, `_done`, `_job`,
  `_b126_run`, `_b126_redo_now`; staging images; output tensors.
- Hard: every word is shared and unlocked; kicks leave tokens behind; a give-up
  races a late completion; the next attention head is staged while hart 1 may
  still fill the current one; the B126 repair relies on hart 0's count of what
  hart 1's unit did.
- Correct when: a caller takes only its own completion, the job does not change
  under hart 1, every job starts once, no job follows a give-up, every call
  returns, and the network sees for each call exactly its answer.

### The lane dispatchers and the unit (`LH`, `LD`, RTL)

`mbxr_ln_dispatch`, `mbxr_attn_dispatch` and `mbxr_lane_dispatch` (used for the
LUT) are straight lines of RoCC commands: fill, name the buffer, arm the drain,
configure, check, go, wait for ownership, fence.  The unit refuses a command
silently or into one sticky bit, keeps moving between any two of them, gives the
scratchpad back before its last bytes are in memory, and shares buffers, drain
and sticky bit with the engine.

- State: sticky error, named buffer, load DMA, scratchpad buffers, lane
  registers and error bits, ownership, output FIFO, drain descriptor, Puts in
  flight.
- Hard: order of the commands; what an earlier dispatch or engine run left
  behind; out-of-order acknowledgements; refusals half-way.
- Correct when: the tensor the network continues with is right whoever computed
  it and stays right, a failing dispatch does not spoil the next, and every
  dispatch returns.

### The matrix engine and its driver (`EN`, RTL)

`mbxr_run_to` walks activation and weight tiles in one of two loop orders, loads
the next tile into the other buffer while the current one computes, and drains
either with one strided descriptor per tile or flat into a scratch area from
which hart 1 places rows early, behind the acknowledged-blocks watermark.

- Hard: double buffering against silent refusals; the watermark against
  out-of-order Puts; bus faults that only a sticky bit reports.

### The staging pipeline of the convolution (`B102`, `mbxr_stage.inc`, kernel)

Hart 0 gathers input chunks while hart 1 already runs: `stage_wm` gates hart 1's
activation loads, `drain_wm` lets hart 0 transpose the columns of the weight
tiles that have drained.  Both are maintained by hooks in `mbxr_rt_cmd`.  A spin
that runs out drops the result, and the kernel falls through to the shipping
path, then to software.

- Hard: two watermarks in opposite directions, extents rounded to blocks on one
  side and cut to columns on the other, a descriptor that only sometimes stands
  for a weight tile, a wait inside a job that is itself waited for.

### The tables of weight images (`RT`:660-722, `ATT`:522-644)

Hart 0 builds the image a unit reads from a layer's weights once and keeps it.
`mbxr_rt_image_bits` looks through a list of keys, builds at a bump pointer in a
64 MB arena and never frees; `mbxr_rt_forget` empties the list and starts the
arena again.  `mbxa_w_resident` (built with `MBP_B86G`) keeps the packed images
of cross-attention's K and V in an open-addressed table that never evicts.

- Hard: keys are addresses, not bytes: one address with two shapes ("Lab B25 run
  7"), weights rewritten in place, an arena handed out twice, collisions and a
  full table.
- Correct when: a cached image is whole, nobody else's and of the bytes its
  layer has now; a probe finds what was built and ends; what is handed out is
  what was asked for.

### The camera (`modules/ospi_camera`, `fpga/pynq-z2/sw/cam/ospi_cam.c`)

A photo (under the driver's `photo_lock`) and two diagnostics arm one DMA with
two transfers, the first of which takes the rest of the frame the sensor is in,
enable capture and poll FRAMECNT and DMA_STATUS up to a limit.  The DMA cannot
be aborted: whoever times out leaves it armed and must keep the buffer until the
SoC is reset (`reset_required`).

- Hard: the sensor is anywhere in a frame; the line buffer drops beats; two
  registers are read at two moments of a moving DMA; data arrives after the call
  gave up; retries and the next call find the DMA busy.
- Correct when: a frame reported good is one whole frame, the DMA writes no
  buffer that has gone back to its owner, and every call returns.

### The board queue (`scripts/with_board.sh`)

Every session that wants the bench board writes a ticket (arrival time, pid),
polls until its ticket is the oldest live one, takes an flock without blocking,
removes its ticket and becomes its command.  A ticket whose pid is no longer a
`with_board.sh` is removed by whoever finds it at the head.

- Hard: no daemon; every step is several file operations of independent
  processes; kills leave tickets; pids come round again; children keep the
  flock; commands that skip the queue.
- Correct when: one command has the board, nobody loses its ticket or its turn,
  and the queue keeps moving.

### What is around them

Image layout and tile maps (pure layout); the microphone FIFO, the AXI bridge
and control registers (RTL); audio, vision and integer front ends; the sample
applications; the other board scripts (a named lock, bitstream identity, feature
gate); host tools; Python lowering; patches and vendored code.  `PROJECT.json`
lists each with the reason it is not modelled yet or at all.

## Modules

| Module | Models | State and actions in the code's terms |
| --- | --- | --- |
| `Offload` | the abstract promise of an operator call | a call begins, the unit or the software writes parts in any order and any number of times, the call returns only when its tensor holds its answer; afterwards nothing writes |
| `Handoff` | `RT` and the kernels' use of it | one action per access to a shared word: `Call`, `Stage`, `Fill`, `ClearDone`, `Post`, `Give`, `Poll`, `Late` (kick or give-up), `Collect`, `Software`; `Boot`, `Take`, `ReadSeq`, `Start`, `Dispatch`, `Load`, `Run`, `Fault`, `Retire` |
| `LaneUnit` | the three dispatchers against the unit | `Program` is a dispatcher's sequence of steps, one action per kind of step; `FillDone`, `Emit`, `GiveBack`, `StartPut`, `Ack` are the unit |
| `EngineDriver` | `mbxr_run_to` against the engine | `pc` is where the nest is; loads, `Compute`, `ArmStrided`, placement and waits are actions; the unit's are `FillDone`, `Emit`, `Pack`, `StartPut`, `Ack` |
| `StagePipe` | the convolution kernel beside the driver | EXTENDS `EngineDriver` and conjoins the hooks to its steps; adds hart 0's staging, publishing, transposing, collecting, falling through |
| `StageExtent` | the byte extents of a staged chunk | one action, the staging of a chunk; the shape is chosen initially |
| `ImageTables` | the weight-image cache and attention's resident table | `ImageBits` is a hit, a refusal or a build; `RtForget`, `Rewrite`; `WResident` is a bypass, or a probe that ends in a hit, a full table or a miss; a byte of the arena holds the image last built over it |
| `OspiCapture` | a photo and the two diagnostics against the capture core's DMA | `th` is where each call is; `Arm` is the register sequence up to CTRL_ENABLE, during which capture is off; the two reads of a poll are two actions; `Sensor`, `PopEof`, `PopPixel` are the core |
| `BoardQueue` | `with_board.sh` | one action per step of the script that reads or writes the queue directory or the flock; kills, signals, pids given out again |
| `Handoff_proofs`, `LaneUnit_proofs`, `EngineDriver_proofs`, `StagePipe_proofs`, `StageExtent_proofs`, `ImageTables_proofs`, `OspiCapture_proofs`, `BoardQueue_proofs` | theorems | see below |
| `MC*` | instances for TLC | sets that a configuration cannot write down |

`Handoff`, `LaneUnit`, `EngineDriver` and `StagePipe` each instantiate `Offload`
with a refinement mapping (`Offloads`, `DispatchOffloads`, `RunOffloads`,
`ConvOffloads`): the output tensor, seen as which call each part is the answer
of.  `Handoff` treats a dispatch as one `Load` and one `Run`; the other modules
are what happens inside those.

Bytes are abstracted to whose answer they are.  In `LaneUnit` a block is tagged
with its dispatch, 0 being anybody else's; in `EngineDriver` a cell (the output
of a tile pair) carries the run and the two tiles it was computed from, so stale
operands, crossed buffers and lost writes all show.  Shapes are checked before
the modelled programs start.  Statistics, cycle counters and logging are left
out.

In `ImageTables` an image is its key, its shape and the version of the bytes it
was built from.  In `OspiCapture` a beat is the frame (0 or 1) and the pixel it
is, so a partial frame and pieces of two show.  The capture core is not in the
repository; of it the module assumes what the code's comments say and rely on:
FLUSH empties the line buffer, a queued start takes effect on the cycle the
first transfer ends, `sawEof` is per transfer, an end-of-frame marker travels in
the FIFO and is counted when it leaves it, DMA_LEN ends a transfer before it
pops the marker behind, and the measured geometry is the transfer's.  A beat is
lost when the line buffer is full, `MaxDrops` times while a transfer drains it.

## Runs

All bounds are constants of the modules.

| Run | Question | Bounds |
| --- | --- | --- |
| `handoff_steady` | without give-ups, is each answer the caller's own, tensors reused, B126 repair included? | 3 calls of up to 2 dispatches, all four kinds, 2 tensors, kicks up to age 2 |
| `handoff_giveup` | with errors, hangs and give-ups at any point, does every promise hold and every call return? | 3 calls of up to 2 dispatches, no convolution, 3 tensors |
| `handoff_conv_repost`, `handoff_refused` | violations, below | smallest instance that shows them |
| `lane_unit` | until the first fault, does every dispatch return OK and leave nothing; with refused shapes, an absent LUT, data errors and bus errors, is the answer right and does every dispatch return? | 4 dispatches of any lane, 3 blocks, FIFO of 1 block, 2 Puts |
| `lane_poison` | violation, below | 2 dispatches of 2 blocks |
| `engine_errors` | with bus faults, right or fallen back, always returning? | 2x2 tiles, both loop orders and drains, 3-cell blocks and FIFO, 2 Puts, 2 runs |
| `stage_pipe` | until the first fault, do the harts overlap without refusals, time-outs or waiting for each other; with a bus fault or a spin that runs out, is what is used what was staged and drained, and does every call return its own answer? | 3x2 tiles, 4 runs, one fault, in the first call, which is then the last |
| `extent_small` | published is written, filled is covered, tiles fit? | every shape up to 24x24 in a 32-word buffer |
| `board_queue` | is the board held by one command, does nobody lose its ticket or its turn, does the queue move? | 3 pids, 3 callers, 1 kill, 1 command outside the queue |
| `images` | are cached images intact and probes sound, is what is handed out what was asked for? | 2 layers, 3 shapes (0, 1 and 2 bytes), a 4-byte arena, 3 entries; 2 heads, every hash into 4 slots, 2 entries; 1 rewrite |
| `ospi` | is a good frame a whole frame, does the DMA write only what it may, does every call return? | 2 threads, 2 buffers, 2 calls, frames of 2 pixels, buffers of 2 and 3, line buffer of 1 beat, 2 polls, 2 attempts, 1 lost beat |

Why these are enough: two dispatches show what one leaves to the next and a
third what a late completion does to a tensor used since; more than one dispatch
per call makes the look-ahead of an attention happen; more blocks than the FIFO
takes and two Puts in flight give back-pressure and reordering; two tiles a side
exercise both buffers of both operands and the turn of the nest, a third gives
hart 0 something to stage while both buffers are taken; two runs make the second
start on what the first left.  Three callers are the holder of the board, a dead
one at the head of the queue and one that lines up behind both; a pid comes
round once a caller has gone.  The arena of `images` is full after two builds of
the larger shape and its list after three; its constraint `OneTable` drops only
behaviours in which both tables have been used, and the two share no state.  Two
calls make the second start on a DMA the first gave up, from the same thread or
another; a buffer as large as a frame and one larger tell the two ends of a
transfer apart.  The shapes of `extent_small` contain every
residue of a row against the 64-byte block and last tiles of every length.

Every property is paired in `PROJECT.json` with a mutant: a plausible bug in one
definition (a dropped fence, a wait on fewer bits, a stale-token test left out)
under which TLC finds it violated in the same run.  Mutants stand beside the
definition they change and are marked.

What a run leaves out, on purpose.  `handoff_giveup` has no convolution, does
not reuse tensors and lets no B126 repair fall due; `lane_unit` has no fill
errors on the LUT, no data errors on LayerNorm and the LUT, and poll budgets
that outlast a working unit (`Patient`).  `NoWedge` assumes that no dead
caller's pid goes to another `with_board.sh` while its ticket lasts, and the
resident half of `ServesWhatWasAsked` stops at the first inference.  In each
case the code breaks the property; that is the subject of the section on
disagreements, not an assumption about the code.  `ospi` takes the documented
rule that calls are serialised for what it is: a diagnostic runs alone.

## Fairness

`Handoff`: weak fairness of hart 0 (it runs the network at a priority nothing
pre-empts for ever) and of time.  Nothing is assumed of hart 1: its wake-up may
be lost and its engine may hang, which is what the give-up is for; so
`EveryCallReturns` holds though hart 1 may stop anywhere.  `LaneUnit`,
`EngineDriver`, `StagePipe`: weak fairness of hart 1's next step (the worker is
pinned and alone on its hart), of the unit (it moves when it can; a Put that is
never answered is a fault of its own), and in `StagePipe` of hart 0.  A poll
that finds the unit busy is a stuttering action outside the fairness, so a wait
ends because the unit moves or its limit runs out and for no other reason.
`BoardQueue`: a caller polls on (a sleep ends), a command ends and so do its
children; nothing is assumed of kills, signals, deadlines or arrivals.
`OspiCapture`: the threads are scheduled and the holder of `photo_lock` lets go
of it; the sensor and the DMA owe nothing, which is what the poll limit is for.
`ImageTables` is sequential code of hart 0 and claims no liveness: that a probe
ends is part of `TableSound`.

## Proofs

| Theorem | Says |
| --- | --- |
| `TypeCorrect` | `Handoff`: `[]TypeOK`, no assumption beyond the constants' types |
| `ProtocolHolds` | `Handoff` under `ConvSafe`: `[]ProtocolInv` |
| `DoneIsMineHolds`, `FillReadsOwnImageHolds`, `OneInFlightHolds`, `EachJobStartsOnceHolds`, `JobStableHolds` | the same hypothesis: a caller takes only its own completion, hart 1 reads the image staged for its job, one job is in flight and starts once, the job struct does not change under hart 1; for any number of calls, parts, tensors, kicks and faults |
| `NoPostAfterGiveupHolds` | nothing is posted after a give-up; without a convolution |
| `CountHolds`, `RunNotUndercountedHolds` | `ConvSafe` and `RefusalSafe`: when a dispatch is filled hart 0's count of engine dispatches is not below what the unit ran, so an attention that needs its second run has it |
| `AnswersHold`, `LateJobHarmlessHolds`, `OffloadsHolds` | `ConvSafe`, `NoReuse`, and `RefusalSafe` or `FewEngines`: every part of every answer is right when its call returns and stays right, whatever a job that was given up on still writes; and `Handoff` implements `Offload` |
| `LutNeverPoisons` | `LaneUnit`: `mbxr_lane_dispatch` leaves no drain armed after a refusal, whatever the other lanes, budgets and faults |
| `TypeCorrect`, `OKUntilFaultHolds`, `NoOrphanUntilFaultHolds` | `LaneUnit`: types; with `Patient`, until the first fault every dispatch returns OK and leaves neither a drain nor a Put; for any number of dispatches, blocks, FIFO and Puts |
| `DispatchOffloadsHolds` | `LaneUnit` implements `Offload` under `Patient` and `FewFaults`: the tensor is right whoever made it, with bus errors in the fills of attention and LayerNorm and data errors of the attention's lane |
| `NeverRefusedHolds`, `NoTimeoutHolds`, and `TypeCorrect` of `EngineDriver` | a run without faults is refused no command and ends no wait by its poll limit (for the latter, `BusErrs = {}` and `Patient`); for any number of tiles, either loop order and drain, any block, FIFO and number of Puts |
| `PlacedRightHolds` | `EngineDriver`: what is placed behind the watermark while the drain runs is the run's own result; no hypothesis: any order of acknowledgements, any bus fault, any give-up |
| `RunOffloadsHolds` | `EngineDriver` implements `Offload` under `Patient`: a run returns with the whole output right, from the engine or from software, and nothing writes to it afterwards |
| `FillReadsStagedHolds`, `PipeTypeCorrect` | `StagePipe`: what an activation buffer holds was staged for this run; for any number of tiles and calls, any bus fault and any spin |
| `TransposedDrainedHolds` | `StagePipe`: a column hart 0 transposes while the engine runs is complete and right; for any number of tiles and calls, any bus fault and any spin |
| `ConvOffloadsHolds` | `StagePipe` implements `Offload`, no hypothesis: each convolution returns with every column right whatever gave up on the way, and changes nothing between two calls |
| `NoStallUntilFaultHolds`, `NeverRefusedUntilFault`, `CleanUntilFaultHolds` | `StagePipe` until the first fault: the gate always has somebody to open it, no command is refused, no wait runs out |
| `PublishedIsWritten`, `FillIsCovered`, `FillFitsHolds` | `StageExtent`: both halves of the staging contract, and the fill of a tile inside its buffer, for every shape the kernel takes and every buffer size |
| `BoardExclusiveHolds`, `TicketKeptHolds`, `NoOvertakingHolds` | `BoardQueue`: for any number of pids, callers, kills and commands outside the queue |
| `ImagesIntactHolds`, `TableSoundHolds`, `ServesWhatWasAskedHolds` | `ImageTables`: for every planner, arena, hash and table size |
| `NoLateWriteHolds`, `TypeCorrect` | `OspiCapture`: for any number of threads and calls, any frame, line buffer, poll limit and number of lost beats |
| `WholeFrameHolds` | `OspiCapture`: a frame reported good is one whole frame, if no more beats are lost in all than a frame has pixels (`FewDrops`) |

*Hand-off.*  None of the properties is inductive: that `done` is mine needs to
know where the worker is.  `ProtocolInv` says so in three parts.  `StateInv`:
hart 0 prepares and waits only while the worker is trusted, and never after a
give-up.  `NumberInv`: at most one job is posted and not retired (`ran = seq` or
`seq = ran + 1`), hart 1 is in flight only on that one, `started` is its number
once started, and a waiting caller's token is `seq` with `done` exactly when it
has run.  This is what a stale token cannot break, because `NewJob` compares
numbers.  `ImageInv`: from the fill to the collection the image a job names
holds what was staged for it, and the look-ahead's image is the other one.  The
step lemmas are per hart, one case per action.

The hypotheses of these theorems are the disagreements below, each turned into a
condition under which it does not bite.  `ConvSafe`: if the network has
convolutions, hart 1 is never given up on (`AnswersInTime`), because the kernel
posts again afterwards (`handoff_conv_repost`).  `RefusalSafe`: no dispatch is
refused, or the network does not have both attentions and engine jobs
(`handoff_refused`); `FewEngines` instead: it has fewer engine jobs than
`B126_N`.  `NoReuse`: no tensor is used twice, or hart 1 is never given up on
(the late job over a reused tensor).

`CountInv` relates hart 0's count (`_b126_run`) to the engine dispatches the unit
has really run since its last attention.  The fill of an attention clears the
count, so between that fill and the run the invariant is not about the count but
about the job: either the unit has run less than `B126_N`, or the job carries the
second run (`redo`, `reps`).
`AnswerInv` is over all calls at once: every part before the current one is
right; a part whose job is over and not refused is right; a part of a job given
up on is written by software before or by the same answer afterwards.  The
refinement follows, because a write of hart 1 is always of the answer of the
call whose tensor it is in.

*LUT.*  `GoSafe` follows the program counter of a LUT dispatch: past the first
fence no fill is running, from the idle check to `go` the engine owns the
scratchpad (nobody but hart 1 takes it away), past `arm` the configuration is
usable, from the third error clear to the check of `go` the sticky bit is down,
and the drain carries this dispatch's number only past `st`.  So each refusal is
before `st`, and the one check after it cannot fail.

*Lane dispatch.*  A dispatcher is a straight line of commands, so what the unit
is doing follows from the place in the program.  `UnitInv`: outside a dispatch
and up to `st` the lane, the FIFO and the Puts are at rest; after `st` the drain
is armed on this dispatch's tensor and has issued nothing; after `go` the lane is
`Working`, which accounts for every block (issued, in the FIFO, or still to
come), so a unit that has work can always move and `Patient` budgets outlast it;
after the wait for ownership the lane has finished and after the fence the drain
has.  `CleanInv` adds that before the first fault no sticky or lane bit is up,
and `OKUntilFault` and `NoOrphanUntilFault` follow.  For the refinement `FillInv`
says a load that failed is refused at `cfg`, so what the lane is configured on
was loaded by this dispatch, and `LandInv` that each block the drain has issued
is in memory or in a Put, with this dispatch's data unless the lane has raised,
or will raise when it gives the unit back, its error bit.  `FewFaults` and
`Patient` exclude the disagreements below that are about an error read before the
drain is done, one cleared before it is read, and a load still filling.

*Engine driver.*  `BufferInv` follows the two buffers of each operand through
the nest: while the sequencer computes, the buffers it reads are the ones
`cur_ab` and `cur_wb` name and no fill is on them, and no fill is running when a
tile pair is given; `Other` then always names a buffer nobody reads.  Type
correctness already needs the order of the drain: a Put never takes more than
the descriptor has left, because all Puts of a descriptor have the size latched
with it and the length stays a multiple of that size; and the FIFO does not
overflow because a cell is emitted only below `almost_full` and the pipe holds
one.  That no wait is stuck is a count: during a run the destinations the drain
has left are the cells in motion plus the cells the run still owes the
descriptor (`Balance`); at the waits for the drain and at the end nothing is
owed, so whatever is left to drain is in motion and something can move.

What the output holds needs three more parts, together `DataOK`.  `FeedInv`: the
buffers hold, or are being filled with, the tiles the run thinks they hold, of
this run (`WgtInv`, `ActInv`), and a fill never runs on a buffer the sequencer
reads (`Apart`).  `Flow`: the descriptor is a queue of destinations in loop
order, and the cells in the FIFO, in the pipe, in the sequencer and still to be
computed are, in this order, what its entries are for; whatever is in a Put fits
the Put's destinations; and each destination the run has armed holds its result
or is still bound for (in the descriptor or in a Put), so that none is skipped.
Padding cells have a destination no pair has.  `Blocks`: the flat drain's n-th
Put takes the n-th block of the scratch and the descriptor starts at block
`issued`.  From these: a cell below `acked_blocks` is in no Put and not in the
descriptor, so by `Flow` it has landed; and once placed it is not written again,
because what is outstanding are scratch cells (a run that was given up on keeps
its blocks, so this also holds while the engine is still draining for it).

The refinement adds `RestInv`: under `Patient` the engine is stalled whenever
hart 1 is outside a run or in the software behind it, because a run ends with
nothing busy or with a wait that nothing in the engine can end.  The hypothesis
is needed: `engine_errors` with `Patient = FALSE` violates `RunOffloads`, an
engine that was only slow overwrites what the software computed (`EN`:210 and
`EN`:288 count polls, nothing stops the engine).

*Staging pipeline.*  `StageInv` says what the published extent is worth: below
it every tile of the input is the current run's, and the watermark is at most
one chunk behind what is staged.  With `BufferInv` it gives what a fill reads
(`FillInv`).  A shut gate is on a tile hart 0 has not published, so hart 0 is
still staging and its next step opens it: staging waits for nothing.

`TransposedDrained` rests on `MarkInv` (the drain watermark is one less than the
descriptors armed, and those are the row of the nest the run is in) and on
`DataInv`, which says where every cell of the columns armed so far is.  The
descriptor is the queue: the cells in the FIFO, in the pipe, in the sequencer
and still owed are, in this order, the destinations it has left; a cell that has
left it is in a Put or in memory.  A new column is armed only when the drain is
idle, so then everything before it is in memory.  The order among the operands'
tiles comes from `Held` and `WgtInv` (what a pair is computed from), and that a
fill cannot change a result under way from `Apart`.

`ConvOffloads` reuses the driver's lemmas.  A run is `Fed` when hart 0 staged for
it past an unbroken gate, or staged everything before it; `FillInv` or the
shipping path then give what the activation buffers hold, and `Flow`, `Blocks`
and what is placed are kept as in the driver.  `Ended` says what a run that
reports success is worth to hart 0: the engine is at rest, the sticky bit is
clear and the whole output is right, so the columns transposed at the end are
right like those already transposed (`Turned`).  Here no `Patient` is needed:
the network reads the tensor, which only hart 0 writes, and a later run first
waits for the engine to be idle.

*Extents.*  The invariant is the contract itself with the types its arithmetic
needs; the work is in lemmas: rounding to blocks and the end of a tile are
monotone, a chunk's end covers its tile and stays below the arena's end, and the
columns cover the chunk unless the image ends first, when the zero tail does.
A tile starts at most seven words into its first block, and `P` was chosen with
those words counted, so the blocks of the tile fit.

*Board queue.*  Exclusion is inductive: the flock is.  The other two are not,
because a caller acts on a listing that others change under it.  `QueueInv` says
what a listing is still worth: nothing is dated later than now (`Dated`), a
ticket not written yet is in no listing (`Fresh`, so a pid that comes round
brings a new name), the ticket about to be removed is nobody's who waits
(`Doomed`), and whoever p lined up behind and still waits is in the listing p
goes through (`Turn`, which makes the head of an empty remainder p itself).

*Image tables.*  `ImagesIntact` needs that the cached areas lie below the bump
pointer (`Below`), so a build touches none of them, and that a rewrite only
happens after everything is forgotten.  `TableSound` needs that no two slots
name one entry (`OneSlot`): by counting, a slot is then always free, so a probe
ends; and since nothing is removed a path once full stays full.

*Frame capture.*  A call gives its buffer back on the strength of a status it
read some steps ago.  `Rested` says that a transfer seen to be over is over;
nobody else can have armed the master since because calls from the check of
`reset_required` to the end are alone (`Sole`: photos by the lock, diagnostics
by the rule).  `Unarmed` and `Apart` say that a call that has not armed the
master, and a caller that was told to keep a buffer, are not what it writes to;
`Untried` bounds the attempts for `TypeCorrect`.

`WholeFrame` is about the second transfer, so about everything behind the first
marker in the line buffer, and then about memory and line buffer together.
`Shape` says what that sequence can be.  Until a beat is lost it is `Exact`: the
pixels of one frame, its marker, up to where the sensor is.  Afterwards the
first marker comes early (`Short`), or has not come and the sensor is ahead of
what was kept by at most the beats lost (`Lost`), or comes too late (`Long`),
or was lost itself along with enough of the two frames (`Merged`) that as many
pixels as a frame could still precede the next marker.  `Merged` takes N + 1
beats to reach the length of a frame, a marker and a frame's worth of pixels, so
with at most N a transfer that ends on its marker after N pixels is a frame.
The bound is sharp: `ospi` with `MaxDrops = 3` violates the property.
`MaxDrops` counts the losses of a whole behaviour, not of one transfer.

Only model-checked: liveness under fairness (`EveryCallReturns`,
`EveryDispatchReturns`, `EveryRunReturns`, `EveryConvReturns`, `NoWedge`), which
is out of the prover's reach.  Every inductive invariant was checked by TLC
before it was proved.

## Disagreements between the code and what it says

Three have a run of their own, which shows the shortest behaviour.

- `handoff_conv_repost`: after a give-up the convolution kernel posts again;
  `RT`:783 says every later call falls back.
- `handoff_refused`: an attention dispatch refused before the unit runs has
  already cleared the B126 count, and the next attention is wrong with rc OK;
  `RT`:826 says the count errs on the safe side.
- `lane_poison`: attention and LayerNorm arm the drain before `arm` and `go` can
  refuse; `LD`:249 calls st before a refusal the poison.

Others were met and can be reproduced by changing one constant of a run.

- A late job over a reused tensor: `handoff_giveup` with `NBufs = 1` violates
  `LateJobHarmless`; `RT`:784 says the late write is harmless.
- LayerNorm and the LUT return a data error before their drain fence
  (`LH`:764, `LD`:337): `lane_unit` with `Kinds = {"LN"}`, `LaneErrs = {"LN"}`
  and `NoOrphanDrain` as invariant; `LH`:636 says an idle lane is not a finished
  drain.
- A load dropped after a budget ran out: `lane_unit` with `Patient = FALSE`
  violates `DispatchOffloads` (the next dispatch returns OK over the earlier
  fill); `LH`:195 takes the sticky bit to report a load while still filling.
- A bus error during the LUT's fill: `"LUT"` in `BusErrs` violates
  `DispatchOffloads`; `LD`:242 clears the bit before anybody reads it.
- A lane the bitstream lacks (`Optional`): the dispatch returns HANG from the
  fence at `LD`:337 and never reaches the check behind it that would say NOLANE.
- An error an engine run left behind is reported by LayerNorm as its own refused
  load (`LH`:717 does not clear the bit).
- The zero tail of the last staged chunk may pass the end of the 8 MB staging
  area: the kernel's guard asks for `IW*IC + 64` bytes, the tail goes to the
  arena's end, up to a tile of pixels further.  20155 columns of 416 channels do
  it; no shipped model has such a plane.
- `scripts/with_board.sh`:20-22 says nothing can wedge the queue.  A ticket of a
  killed caller whose pid is now another `with_board.sh`'s is taken for live and
  stays at the head as long as that caller waits behind it: `board_queue` with
  the first line of `NoWedge` dropped.  The caller's own deadline ends it.
- `ATT`:520ff: nothing clears the resident table between inputs; its keys are the
  addresses of K and V, which the next inference reuses.  `images` without the
  exemption `kv > 0` of `ServesWhatWasAsked` shows the first input's image
  handed to the second.  `MBP_B86G` is off by default.
- `modules/ospi_camera` `ospi_camera.h`:156 and `ospi_cam.c`:79 accept a buffer
  of exactly one frame.  Such a transfer ends on DMA_LEN before it pops the
  marker, so it never succeeds: `ospi` with `Caps = {2}` reports no frame good.
- `ospi_cam.c`:144-147 says a dropped beat shows as a short count.  True of the
  beats of one frame; a loss of a marker and the right number of pixels of two
  frames, N + 1 beats in all, splices them unseen: `ospi` with `MaxDrops = 3`
  violates `WholeFrame`.  Up to N lost beats `WholeFrameHolds` proves the comment
  right.
- `ospi_cam.c`:122 compares FRAMECNT with `fc0 + 2` without regard to wrapping;
  the photo path subtracts.  The model counts from the call's own start.

## Plan

What would come next, in this order.

1. `MicFifo` with the capture window, and `AxiBridge` (a long burst split into
   short ones, responses merged), as refinements of a queue and of one burst.
2. Pure layout: `mbxr_image_pack6` and the tile maps as recursive functions
   against a reference (each output cell covered exactly once).

## Not modelled

Numeric kernels (front ends, the lanes' and engine's datapaths): their
correctness is bit-exactness against golden vectors.  Image planning, `pack6`
and the tile maps: layout, planned above.  The sensor's programming over I2C and
the processor's read-out of the line buffer: a sequence of register writes with
one error exit each.  `samples/*`: a main loop around the components above.  The
other scripts, the host tools and the Python lowering: single-writer I/O and
offline generation.  Most lines of the repository are generated tables
(`signdet_frames.c`), board initialisation (`ps7_init.c`) and vendored trees,
which is why the map covers a small share of them.

## Running

`tlc -config HandoffGiveup.cfg MCHandoff`, and likewise for the others, checks a
run; `tlapm Handoff_proofs.tla` checks the proofs of a module.
