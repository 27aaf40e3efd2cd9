---------------------------- MODULE EngineDriver ----------------------------
(***************************************************************************)
(* The tiled matrix product on hart 1: mbxr_run_to                         *)
(* (fpga/pynq-z2/sw/roccmoon/mbxr.c) against the engine it drives          *)
(* (mbxr_engine.v, mbxr_st.v).                                             *)
(*                                                                         *)
(* A run is a nest of activation tiles and weight tiles.  Each operand has *)
(* two scratchpad buffers: a tile pair is computed from one of each while  *)
(* the next tile is loaded into the other.  The results leave through a    *)
(* FIFO and a drain, either straight into their rows of the output (the    *)
(* strided drain) or in tile order into a scratch area from which hart 1   *)
(* places them, after the run or, while it would only poll, during it.     *)
(*                                                                         *)
(* One cell stands for the output of one tile pair; what a cell holds is   *)
(* the run, the activation tile and the weight tile it was computed from.  *)
(***************************************************************************)
EXTENDS Integers, Sequences, FiniteSets

CONSTANTS
  TilesA, TilesW,  \* activation and weight tiles of a run
  Modes,           \* loop orders and drains a run may have
  Early,           \* place_early
  BlockCells,      \* cells in a 64-byte block of the flat drain
  Slice,           \* MBXR_PLACE_SLICE, in cells
  FifoCells,       \* cells the drain's FIFO takes before almost_full
  Depth,           \* SDEPTH: Puts in flight
  MaxRuns,         \* bound: runs
  Patient,         \* whether poll_limit outlasts whatever the engine is doing
  BusErrs          \* bus faults: an error of a "fill" or a "put", or a Put that is
                   \* never answered ("hang")

ASSUME EngineShapeAssumption ==
  /\ TilesA \in Nat \ {0} /\ TilesW \in Nat \ {0}
  /\ Modes \subseteq [wOuter : BOOLEAN, strided : BOOLEAN] /\ Modes # {}
  /\ Early \in BOOLEAN /\ BlockCells \in Nat \ {0} /\ Slice \in Nat \ {0}
ASSUME EngineBoundsAssumption ==
  /\ FifoCells \in Nat /\ BlockCells <= FifoCells /\ Depth \in Nat \ {0} /\ MaxRuns \in Nat
  /\ Patient \in BOOLEAN /\ BusErrs \subseteq {"fill", "put", "hang"}

VARIABLES
  \* hart 1: plan_t and the locals of mbxr_run_to
  pc,      \* where the run is; "idle" before and after, "software" after a failure
  r,       \* number of the run
  mode,    \* w_outer, and whether the drain is strided
  k,       \* the tile pair, in loop order
  aIn, wIn,\* a_in, w_in: the tile each buffer was last loaded with
  cab, cwb,\* cur_ab, cur_wb: the buffers of the pair computed last
  placed,  \* pidx: cells placed
  rc,      \* what the run returned
  \* mbxr_engine.v
  err,     \* err_sticky
  ld,      \* the load DMAs: busy, client, buffer, tile
  bufs,    \* what each client's two buffers hold
  tseq,    \* the sequencer: cells left, the buffers it reads
  pipe,    \* requantiser and packer: at most one cell in motion
  \* mbxr_st.v
  fifo,    \* cells waiting to be drained
  drain,   \* the descriptor: destinations not yet issued, cells of a Put, Puts issued
  puts,    \* Puts not yet acknowledged
  \* DRAM
  inp,     \* for which run each activation tile of the input was staged
  mem      \* scratch cells <<j>> and output cells <<a, t>>

plan   == <<pc, r, mode, k, aIn, wIn, cab, cwb, placed, rc>>
engine == <<err, ld, bufs, tseq, pipe>>
store  == <<fifo, drain, puts>>
vars   == <<plan, engine, store, inp, mem>>
-----------------------------------------------------------------------------
(* THE PLAN *)

ATiles == 0 .. TilesA - 1
WTiles == 0 .. TilesW - 1
Total  == TilesA * TilesW
WOuter  == mode.wOuter
Strided == mode.strided
Inner  == IF WOuter THEN TilesA ELSE TilesW

\* the tiles of the j-th pair in loop order
ATile(j) == IF WOuter THEN (j - 1) % TilesA ELSE (j - 1) \div TilesW
WTile(j) == IF WOuter THEN (j - 1) \div TilesA ELSE (j - 1) % TilesW
CellOf(j) == <<ATile(j), WTile(j)>>
PairOf(c) == IF WOuter THEN c[2] * TilesA + c[1] + 1 ELSE c[1] * TilesW + c[2] + 1

\* the flat drain is rounded up to whole blocks by a padding tile
Pad     == IF Strided THEN 0 ELSE (BlockCells - (Total % BlockCells)) % BlockCells
PerPut  == IF Strided THEN 1 ELSE BlockCells
Scratch == {<<j>> : j \in 1 .. Total + BlockCells}
Output  == ATiles \X WTiles
FlatDst == [j \in 1 .. Total + Pad |-> <<j>>]

\* one descriptor per weight tile, or per pair when the activations are outer
StridedDst(j) == IF WOuter THEN [i \in 1 .. TilesA |-> <<i - 1, WTile(j)>>]
                           ELSE << CellOf(j) >>
ArmsDrain(j)  == Strided /\ ((j - 1) % Inner = 0 \/ ~WOuter)

Junk == <<0, 0, 0>>
Right(d, c) == <<d, c[1], c[2]>>
None == -1

Init ==
  /\ pc = "idle" /\ r = 0 /\ mode \in Modes /\ k = 1 /\ placed = 0 /\ rc = "none"
  /\ aIn = [b \in 0 .. 1 |-> None] /\ wIn = [b \in 0 .. 1 |-> None]
  /\ cab = None /\ cwb = None
  /\ err = FALSE /\ ld = [busy |-> FALSE, client |-> "A", buf |-> 0, tile |-> 0]
  /\ bufs = [c \in {"A", "W"} |-> [b \in 0 .. 1 |-> <<0, 0>>]]
  /\ tseq = [left |-> 0, ab |-> 0, wb |-> 0] /\ pipe = << >>
  /\ fifo = << >> /\ drain = [dst |-> << >>, per |-> 1, issued |-> 0] /\ puts = {}
  /\ inp = [a \in ATiles |-> 0] /\ mem = [x \in Scratch \cup Output |-> Junk]

Holds(in, tile) == \E b \in 0 .. 1 : in[b] = tile
Find(in, tile)  == IF in[0] = tile THEN 0 ELSE 1
-----------------------------------------------------------------------------
(* THE FENCE *)

Filling   == ld.busy
Computing == tseq.left > 0
InPipe    == pipe # << >>
Draining  == drain.dst # << >> \/ puts # {}
Busy      == Filling \/ Computing \/ Draining \/ InPipe

Issued == drain.issued                  \* mutant of Acked
\* acked_blocks: every block before it has been acknowledged
Acked == IF puts = {} THEN drain.issued
         ELSE CHOOSE i \in {p.i : p \in puts} : \A p \in puts : i <= p.i

NoHold  == Computing /\ ~InPipe         \* mutant of CanEmit
CanEmit == Computing /\ ~InPipe /\ Len(fifo) < FifoCells
CanPut  == /\ Len(fifo) >= drain.per /\ Cardinality(puts) < Depth
           /\ drain.dst # << >>
Answered == {p \in puts : ~p.lost}
Stalled  == ~Filling /\ ~CanEmit /\ ~InPipe /\ ~CanPut /\ Answered = {}
NeverGivesUp == FALSE                   \* mutant of GiveUp
GiveUp       == ~Patient \/ Stalled

\* what the next pair still needs, and what each wait of the run waits out
NeedsA(j) == ~Holds(aIn, ATile(j))
NeedsW(j) == ~Holds(wIn, WTile(j))

\* MBXR_S_DRAIN | MBXR_S_PIPE before the strided descriptor; MBXR_S_BUSY at
\* the end.  The mutant waits for less.
PipeOnly  == InPipe
ArmMask   == Draining \/ InPipe
EndMask   == Busy
ReadyMask == Filling \/ Computing

Masked ==
  \/ pc = "busy" /\ Busy
  \/ pc = "act" /\ NeedsA(k) /\ Filling
  \/ pc = "wgt" /\ NeedsW(k) /\ Filling
  \/ pc = "ready" /\ ReadyMask
  \/ pc = "arm" /\ ArmMask
  \/ pc = "pre" /\ k < Total /\ (NeedsA(k + 1) \/ NeedsW(k + 1)) /\ Filling
  \/ pc = "pad" /\ Computing
  \/ pc = "end" /\ EndMask

At(step) == pc = step /\ ~Masked
Return(code) == rc' = code /\ pc' = (IF code = "OK" THEN "idle" ELSE "software")
-----------------------------------------------------------------------------
(* COMMANDS, as the engine takes them *)

\* ld_ok: dropped while either DMA is busy; refused, with the sticky bit set,
\* into the buffer the sequencer reads.
LoadClash(c, b) == Computing /\ b = (IF c = "A" THEN tseq.ab ELSE tseq.wb)
Load(c, b, tile) ==
  IF Filling \/ LoadClash(c, b)
    THEN err' = (err \/ LoadClash(c, b)) /\ UNCHANGED <<ld, bufs>>
    ELSE /\ ld' = [busy |-> TRUE, client |-> c, buf |-> b, tile |-> tile]
         /\ bufs' = [bufs EXCEPT ![c][b] = <<0, 0>>]
         /\ UNCHANGED err

\* cfg is ignored while the sequencer runs; mm on a buffer under a fill is refused
MmClash(ab, wb) == Filling /\ ld.buf = (IF ld.client = "A" THEN ab ELSE wb)
Multiply(ab, wb, cells) ==
  LET named == IF Computing THEN tseq ELSE [left |-> 0, ab |-> ab, wb |-> wb] IN
  IF MmClash(named.ab, named.wb)
    THEN err' = TRUE /\ tseq' = named
    ELSE tseq' = [named EXCEPT !.left = cells] /\ UNCHANGED err

\* st is ignored while the drain is busy
ArmDrain(dst) ==
  drain' = IF Draining THEN drain ELSE [dst |-> dst, per |-> PerPut, issued |-> 0]
-----------------------------------------------------------------------------
(* HART 1 *)

\* Hart 1 enters mbxr_run_to; as a rule hart 0 has staged the whole input.
Enter ==
  /\ pc = "idle" /\ r < MaxRuns
  /\ pc' = "busy" /\ r' = r + 1 /\ mode' \in Modes /\ k' = 1 /\ placed' = 0
  /\ aIn' = [b \in 0 .. 1 |-> None] /\ wIn' = [b \in 0 .. 1 |-> None]
  /\ cab' = None /\ cwb' = None /\ rc' = "none"

Begin == Enter /\ inp' = [a \in ATiles |-> r + 1] /\ UNCHANGED <<engine, store, mem>>

AwaitIdle ==
  /\ At("busy") /\ pc' = "start"
  /\ UNCHANGED <<r, mode, k, aIn, wIn, cab, cwb, placed, rc, engine, store, inp, mem>>

\* stat clears the sticky error; the flat drain is armed for the whole run
Start ==
  /\ At("start") /\ pc' = "act" /\ err' = FALSE
  /\ IF Strided THEN UNCHANGED drain ELSE ArmDrain(FlatDst)
  /\ UNCHANGED <<r, mode, k, aIn, wIn, cab, cwb, placed, rc, ld, bufs, tseq, pipe,
                 fifo, puts, inp, mem>>

\* the buffer the pair in flight does not use
SameBuf(cur)  == IF cur = 1 THEN 1 ELSE 0           \* mutant of Other
Other(cur)    == IF cur = 0 THEN 1 ELSE 0

LoadAct ==
  /\ At("act") /\ pc' = "wgt"
  /\ IF NeedsA(k)
       THEN /\ Load("A", Other(cab), ATile(k))
            /\ aIn' = [aIn EXCEPT ![Other(cab)] = ATile(k)]
       ELSE UNCHANGED <<err, ld, bufs, aIn>>
  /\ UNCHANGED <<r, mode, k, wIn, cab, cwb, placed, rc, tseq, pipe, store, inp, mem>>

LoadWgt ==
  /\ At("wgt") /\ pc' = "ready"
  /\ IF NeedsW(k)
       THEN /\ Load("W", Other(cwb), WTile(k))
            /\ wIn' = [wIn EXCEPT ![Other(cwb)] = WTile(k)]
       ELSE UNCHANGED <<err, ld, bufs, wIn>>
  /\ UNCHANGED <<r, mode, k, aIn, cab, cwb, placed, rc, tseq, pipe, store, inp, mem>>

AwaitReady ==
  /\ At("ready") /\ pc' = IF ArmsDrain(k) THEN "arm" ELSE "mm"
  /\ UNCHANGED <<r, mode, k, aIn, wIn, cab, cwb, placed, rc, engine, store, inp, mem>>

ArmStrided ==
  /\ At("arm") /\ pc' = "mm" /\ ArmDrain(StridedDst(k))
  /\ UNCHANGED <<r, mode, k, aIn, wIn, cab, cwb, placed, rc, engine, fifo, puts, inp, mem>>

Compute ==
  /\ At("mm") /\ pc' = "pre"
  /\ cab' = Find(aIn, ATile(k)) /\ cwb' = Find(wIn, WTile(k))
  /\ Multiply(cab', cwb', 1)
  /\ UNCHANGED <<r, mode, k, aIn, wIn, placed, rc, ld, bufs, pipe, store, inp, mem>>

\* One operand of the next pair is loaded while this one computes; when both
\* change, the activations.
Preload ==
  /\ At("pre") /\ k < Total /\ pc' = "act" /\ k' = k + 1
  /\ \/ /\ NeedsA(k + 1)
        /\ Load("A", Other(cab), ATile(k + 1))
        /\ aIn' = [aIn EXCEPT ![Other(cab)] = ATile(k + 1)] /\ UNCHANGED wIn
     \/ /\ ~NeedsA(k + 1) /\ NeedsW(k + 1)
        /\ Load("W", Other(cwb), WTile(k + 1))
        /\ wIn' = [wIn EXCEPT ![Other(cwb)] = WTile(k + 1)] /\ UNCHANGED aIn
     \/ /\ ~NeedsA(k + 1) /\ ~NeedsW(k + 1)
        /\ UNCHANGED <<err, ld, bufs, aIn, wIn>>
  /\ UNCHANGED <<r, mode, cab, cwb, placed, rc, tseq, pipe, store, inp, mem>>

NestDone ==
  /\ At("pre") /\ k = Total /\ pc' = IF Pad > 0 THEN "pad" ELSE "end"
  /\ UNCHANGED <<r, mode, k, aIn, wIn, cab, cwb, placed, rc, engine, store, inp, mem>>

PadTile ==
  /\ At("pad") /\ pc' = "end" /\ Multiply(cab, cwb, Pad)
  /\ UNCHANGED <<r, mode, k, aIn, wIn, cab, cwb, placed, rc, ld, bufs, pipe, store, inp, mem>>

NoCheck == FALSE                        \* mutant of HwError
HwError == err                          \* MBXR_S_ERR

Finish ==
  /\ At("end")
  /\ IF HwError THEN Return("HW")
     ELSE IF Strided THEN Return("OK")
     ELSE pc' = "late" /\ UNCHANGED rc
  /\ UNCHANGED <<r, mode, k, aIn, wIn, cab, cwb, placed, engine, store, inp, mem>>

\* place_upto: the cells before upto move from the scratch to their rows
PlaceUpto(upto) ==
  /\ placed' = upto
  /\ mem' = [x \in DOMAIN mem |->
               IF x \in Output /\ PairOf(x) \in placed + 1 .. upto
                 THEN mem[<<PairOf(x)>>] ELSE mem[x]]

\* while a wait polls, what the watermark covers and at most a slice of it
PlaceEarly ==
  /\ Early /\ ~Strided /\ Masked /\ pc # "busy"
  /\ LET lim == IF Acked * BlockCells < Total THEN Acked * BlockCells ELSE Total IN
       /\ lim > placed
       /\ PlaceUpto(IF lim > placed + Slice THEN placed + Slice ELSE lim)
  /\ UNCHANGED <<pc, r, mode, k, aIn, wIn, cab, cwb, rc, engine, store, inp>>

PlaceLate ==
  /\ At("late") /\ PlaceUpto(Total) /\ Return("OK")
  /\ UNCHANGED <<r, mode, k, aIn, wIn, cab, cwb, engine, store, inp>>

\* poll_limit
TimeOut ==
  /\ Masked /\ GiveUp /\ Return("TIMEOUT")
  /\ UNCHANGED <<r, mode, k, aIn, wIn, cab, cwb, placed, engine, store, inp, mem>>

\* the kernel computes the operator itself
Software ==
  /\ pc = "software" /\ pc' = "idle"
  /\ mem' = [x \in DOMAIN mem |-> IF x \in Output THEN Right(r, x) ELSE mem[x]]
  /\ UNCHANGED <<r, mode, k, aIn, wIn, cab, cwb, placed, rc, engine, store, inp>>
-----------------------------------------------------------------------------
(* THE ENGINE *)

FillDone ==
  /\ Filling /\ ld' = [ld EXCEPT !.busy = FALSE]
  /\ \/ /\ bufs' = [bufs EXCEPT ![ld.client][ld.buf] =
              <<IF ld.client = "A" THEN inp[ld.tile] ELSE r, ld.tile>>]
        /\ UNCHANGED err
     \/ "fill" \in BusErrs /\ err' = TRUE /\ UNCHANGED bufs
  /\ UNCHANGED <<plan, tseq, pipe, store, inp, mem>>

\* the sequencer reads the buffers cfg named
Result == LET a == bufs["A"][tseq.ab] w == bufs["W"][tseq.wb] IN
          IF a[1] = w[1] /\ a[1] > 0 THEN <<a[1], a[2], w[2]>> ELSE Junk

Emit ==
  /\ CanEmit
  /\ tseq' = [tseq EXCEPT !.left = @ - 1] /\ pipe' = << Result >>
  /\ UNCHANGED <<plan, err, ld, bufs, store, inp, mem>>

Pack ==
  /\ InPipe /\ fifo' = fifo \o pipe /\ pipe' = << >>
  /\ UNCHANGED <<plan, err, ld, bufs, tseq, drain, puts, inp, mem>>

StartPut ==
  /\ CanPut
  /\ \E lost \in (IF "hang" \in BusErrs THEN BOOLEAN ELSE {FALSE}) :
       puts' = puts \cup {[dst |-> SubSeq(drain.dst, 1, drain.per), lost |-> lost,
                           val |-> SubSeq(fifo, 1, drain.per), i |-> drain.issued]}
  /\ fifo' = SubSeq(fifo, drain.per + 1, Len(fifo))
  /\ drain' = [drain EXCEPT !.dst = SubSeq(@, drain.per + 1, Len(@)), !.issued = @ + 1]
  /\ UNCHANGED <<plan, engine, inp, mem>>

Lands(p) == [x \in DOMAIN mem |->
               IF \E i \in DOMAIN p.dst : p.dst[i] = x
                 THEN p.val[CHOOSE i \in DOMAIN p.dst : p.dst[i] = x] ELSE mem[x]]

Ack ==
  /\ \E p \in Answered :
       /\ puts' = puts \ {p}
       /\ \/ mem' = Lands(p) /\ UNCHANGED err
          \/ "put" \in BusErrs /\ err' = TRUE /\ UNCHANGED mem
  /\ UNCHANGED <<plan, ld, bufs, tseq, pipe, fifo, drain, inp>>
-----------------------------------------------------------------------------
Hart1 == \/ AwaitIdle \/ Start \/ LoadAct \/ LoadWgt \/ AwaitReady \/ ArmStrided
         \/ Compute \/ Preload \/ NestDone \/ PadTile \/ Finish \/ PlaceEarly
         \/ PlaceLate \/ TimeOut \/ Software
Unit  == FillDone \/ Emit \/ Pack \/ StartPut \/ Ack

\* a poll that finds the engine busy changes nothing
Poll     == Masked /\ UNCHANGED vars
Finished == pc = "idle" /\ r = MaxRuns /\ UNCHANGED vars

Next == Begin \/ Hart1 \/ Unit \/ Poll \/ Finished
Spec == Init /\ [][Next]_vars

\* hart 1 is never descheduled for ever, and the engine moves when it can
FairSpec == Spec /\ WF_vars(Hart1) /\ WF_vars(Unit)
-----------------------------------------------------------------------------
(* PROPERTIES *)

Steps == {"idle", "busy", "start", "act", "wgt", "ready", "arm", "mm", "pre",
          "pad", "end", "late", "software"}
Values == {Junk} \cup ((1 .. MaxRuns) \X ATiles \X WTiles)

TypeOK ==
  /\ pc \in Steps /\ r \in 0 .. MaxRuns /\ mode \in Modes /\ k \in 1 .. Total
  /\ aIn \in [0 .. 1 -> ATiles \cup {None}] /\ wIn \in [0 .. 1 -> WTiles \cup {None}]
  /\ cab \in {None, 0, 1} /\ cwb \in {None, 0, 1} /\ placed \in 0 .. Total
  /\ rc \in {"none", "OK", "HW", "TIMEOUT"} /\ err \in BOOLEAN
  /\ ld \in [busy : BOOLEAN, client : {"A", "W"}, buf : 0 .. 1, tile : Nat]
  /\ bufs \in [{"A", "W"} -> [0 .. 1 -> (0 .. MaxRuns) \X Nat]]
  /\ tseq \in [left : Nat, ab : 0 .. 1, wb : 0 .. 1]
  /\ pipe \in Seq(Values) /\ Len(pipe) <= 1
  /\ fifo \in Seq(Values) /\ Len(fifo) <= FifoCells
  /\ drain.dst \in Seq(Scratch \cup Output) /\ drain.issued \in Nat
  /\ drain.per \in {1, BlockCells}
  /\ Cardinality(puts) <= Depth
  /\ inp \in [ATiles -> 0 .. MaxRuns]
  /\ mem \in [Scratch \cup Output -> Values]

\* What is placed while the drain is still running is final: the watermark
\* never covers a block whose Put has not been acknowledged.
PlacedRight == ~err => \A j \in 1 .. placed : mem[CellOf(j)] = Right(r, CellOf(j))

\* The engine is never given a command it refuses: a load into the buffer it
\* computes from, a tile on a buffer still being filled.
NeverRefused == ~err

\* The commands keep the engine fed and emptied: no wait of a run can only end
\* by its poll limit.
NoTimeout == rc # "TIMEOUT"

\* Whatever happened, the output the network goes on with is right and stays so.
Promise == INSTANCE Offload WITH
             MaxCalls <- MaxRuns, MaxParts <- Total, NBufs <- 1,
             phase <- IF pc = "idle" THEN "idle" ELSE "busy", cur <- r,
             parts <- IF r = 0 THEN 1 ELSE Total,
             out <- [b \in {0} |-> [j \in 1 .. Total |->
                      LET c == <<(j - 1) \div TilesW, (j - 1) % TilesW>> d == mem[c][1] IN
                      IF d > 0 /\ mem[c] = Right(d, c) THEN <<d, j>> ELSE <<0, 0>>]]
RunOffloads == Promise!Spec

\* Every run returns, whatever the engine does.
EveryRunReturns == pc # "idle" ~> pc = "idle"
=============================================================================
