------------------------------ MODULE LaneUnit ------------------------------
(***************************************************************************)
(* The three lane dispatchers of hart 1 against the unit they drive:       *)
(*   mbxr_ln_dispatch, mbxr_attn_dispatch  (fpga/pynq-z2/sw/roccmoon/      *)
(*   mbxr_lanes.h) and mbxr_lane_dispatch (mbxr_lane_dispatch.h), which    *)
(*   the runtime uses for the LUT lane;                                    *)
(*   mbxr_engine.v, mbxr_lanes.v, mbxr_st.v (fpga/pynq-z2/src/             *)
(*   lanes_engine_b98nch8b): the load DMA, the scratchpad buffers, lane    *)
(*   ownership, the output FIFO and the drain.                             *)
(*                                                                         *)
(* A dispatcher is a straight line of RoCC instructions, so it is a        *)
(* sequence of step names (Program) and each step is one action; the unit  *)
(* moves between any two of them.  The unit refuses commands silently or   *)
(* into one sticky bit, which is what makes the order of the steps matter. *)
(* Bytes are abstracted to the number of the dispatch they belong to, and  *)
(* 0 is anybody else's; shapes are checked before a program starts.        *)
(***************************************************************************)
EXTENDS Naturals, Sequences, FiniteSets

CONSTANTS
  Kinds,      \* the lanes the network dispatches to
  MaxN,       \* bound: dispatches issued
  Blocks,     \* 64-byte blocks a dispatch drains
  FifoBlocks, \* blocks the drain's FIFO takes before almost_full
  Depth,      \* SDEPTH: Puts in flight
  Patient,    \* whether a poll budget, and an operator computed in software,
              \* outlast whatever the unit is doing
  Refusable,  \* kinds some shape of which the lane's err[0] refuses
  Optional,   \* lanes the bitstream may have been built without
  LaneErrs,   \* lanes that may raise a data error
  BusErrs     \* whose work may meet a TileLink error: the engine's runs,
              \* the fills of a lane's dispatches

AllKinds == {"LN", "ATTN", "LUT"}
ASSUME LaneKindsAssumption ==
  /\ Kinds \subseteq AllKinds /\ Refusable \subseteq AllKinds
  /\ Optional \subseteq AllKinds /\ LaneErrs \subseteq AllKinds
  /\ BusErrs \subseteq AllKinds \cup {"engine"} /\ Patient \in BOOLEAN
ASSUME LaneBoundsAssumption ==
  /\ MaxN \in Nat /\ Blocks \in Nat \ {0}
  /\ FifoBlocks \in Nat \ {0} /\ Depth \in Nat \ {0}

VARIABLES
  \* hart 1
  phase,    \* "idle", "run" a program, or "software": the kernel's fallback
  pc,       \* the step of the program
  n,        \* dispatches issued; n is the current one
  kind,     \* the lane it is for
  refusal,  \* whether that lane's err[0] will refuse its shape
  held,     \* the code an attention dispatch returns after its last fence
  rc,       \* what each dispatch returned
  \* mbxr_engine.v
  err,      \* err_sticky
  tbuf,     \* t_abuf: the activation buffer the lanes read
  ld,       \* the load DMAs: busy, the buffer filled, for which dispatch
  bufs,     \* whose data each scratchpad buffer holds
  \* mbxr_lanes.v
  conf,     \* the dispatch each lane's registers were last written for
  cfgBad,   \* err[0] of each lane: configuration unusable
  lerr,     \* the other error bits of each lane
  absent,   \* the lanes this bitstream does not have
  own,      \* who owns the scratchpad: "engine" or a lane
  lane,     \* the running lane: the dispatch, blocks left, data error
  \* mbxr_st.v
  fifo,     \* whole blocks waiting to be drained
  drain,    \* the descriptor: run, destination, blocks issued
  puts,     \* Puts not yet acknowledged
  \* DRAM
  mem       \* each dispatch's destination

hart   == <<phase, pc, n, kind, refusal, held, rc>>
loads  == <<tbuf, ld, bufs>>
lanes  == <<conf, cfgBad, lerr, absent, own, lane>>
store  == <<fifo, drain, puts>>
vars   == <<hart, err, loads, lanes, store, mem>>
-----------------------------------------------------------------------------
Disp  == 1 .. MaxN
Tags  == 0 .. MaxN
Spad  == {"a0", "a1", "w"}
Codes == {"none", "OK", "ACTLD", "WGTLD", "CFG", "ST", "GO", "ARM", "BUSY",
          "HANG", "ERR", "NOLANE"}
All(v) == [i \in 1 .. Blocks |-> v]

Init ==
  /\ phase = "idle" /\ pc = 1 /\ n = 0 /\ kind \in Kinds /\ refusal = FALSE
  /\ held = "OK" /\ rc = [d \in Disp |-> "none"]
  /\ err = FALSE /\ tbuf = "a0" /\ ld = [busy |-> FALSE, buf |-> "a0", tag |-> 0]
  /\ bufs = [b \in Spad |-> 0]
  /\ conf = [k \in AllKinds |-> 0] /\ cfgBad = [k \in AllKinds |-> FALSE]
  /\ lerr = [k \in AllKinds |-> FALSE] /\ absent \in SUBSET Optional
  /\ own = "engine"
  /\ lane = [id |-> 0, left |-> 0, bad |-> FALSE]
  /\ fifo = << >> /\ drain = [run |-> FALSE, dst |-> 0, issued |-> 0]
  /\ puts = {} /\ mem = [d \in Disp |-> All(0)]

\* What the unit can do next; when it stands still, what is awaited will
\* not come.
Acked      == IF puts = {} THEN drain.issued
              ELSE CHOOSE i \in {p.i : p \in puts} : \A p \in puts : i <= p.i
NoHold     == own # "engine" /\ lane.left > 0      \* mutant of CanEmit
CanEmit    == own # "engine" /\ lane.left > 0 /\ Len(fifo) < FifoBlocks
CanFinish  == own # "engine" /\ lane.left = 0
CanPut     == drain.run /\ fifo # << >> /\ Cardinality(puts) < Depth
DrainBusy  == drain.run \/ puts # {}
Stalled    == ~ld.busy /\ ~CanEmit /\ ~CanFinish /\ ~CanPut /\ puts = {}
-----------------------------------------------------------------------------
(* THE PROGRAMS.  chk_x reads the sticky error after stage x. *)

\* mutant of LN: the last fence is left out
LNNoFence == << "load_a", "chk_act", "wait_busy", "cfg", "chk_cfg", "st",
                "chk_st", "conf", "arm", "go", "chk_go", "own" >>

LN == << "load_a", "chk_act", "wait_busy", "cfg", "chk_cfg", "st", "chk_st",
         "conf", "arm", "go", "chk_go", "own", "wait_end" >>

\* mutant of ATTN: no last fence
ATTNNoFence == << "clear", "load_a", "chk_act", "wait_fill", "load_w",
                  "chk_wgt", "wait_busy", "cfg", "chk_cfg", "st", "chk_st",
                  "conf", "arm", "go", "chk_go", "own" >>

ATTN == << "clear", "load_a", "chk_act", "wait_fill", "load_w", "chk_wgt",
           "wait_busy", "cfg", "chk_cfg", "st", "chk_st", "conf", "arm", "go",
           "chk_go", "own", "wait_end" >>

\* mutant of LUT: the drain is armed before lgo's conditions are checked
LUTEarlySt == << "clear", "load_a", "chk_act", "wait_busy", "clear", "cfg",
                 "chk_cfg", "clear", "st", "chk_st", "conf", "idle", "arm",
                 "clear", "go", "chk_go", "own", "wait_end", "acked" >>

LUT == << "clear", "load_a", "chk_act", "wait_busy", "clear", "cfg", "chk_cfg",
          "conf", "idle", "arm", "clear", "st", "chk_st", "clear", "go",
          "chk_go", "own", "wait_end", "acked" >>

Program == IF kind = "LN" THEN LN ELSE IF kind = "ATTN" THEN ATTN ELSE LUT

At(step) == phase = "run" /\ Program[pc] = step

\* An OK dispatch has left its answer at the destination; with any other code
\* the kernel computes the operator itself.
Return(code) ==
  /\ rc' = [rc EXCEPT ![n] = code]
  /\ phase' = (IF code = "OK" THEN "idle" ELSE "software")
  /\ UNCHANGED pc

Advance == IF pc = Len(Program) THEN Return(held)
                                ELSE pc' = pc + 1 /\ UNCHANGED <<phase, rc>>
-----------------------------------------------------------------------------
(* HART 1 *)

Issue(k) ==
  /\ phase = "idle" /\ n < MaxN
  /\ Patient /\ n > 0 => rc[n] = "OK" \/ Stalled
  /\ n' = n + 1 /\ kind' = k /\ phase' = "run" /\ pc' = 1 /\ held' = "OK"
  /\ refusal' \in (IF k \in Refusable THEN BOOLEAN ELSE {FALSE})
  /\ UNCHANGED <<rc, err, loads, lanes, store, mem>>

\* An engine dispatch in between leaves its own data and its own buffer
\* choice behind, and its sticky error if it ended in one.
EngineRun ==
  /\ phase = "idle" /\ n < MaxN /\ own = "engine" /\ ~ld.busy /\ ~drain.run
  /\ puts = {}
  /\ tbuf' \in {"a0", "a1"} /\ bufs' = [b \in Spad |-> 0]
  /\ err' \in (IF "engine" \in BusErrs THEN BOOLEAN ELSE {FALSE})
  /\ UNCHANGED <<hart, ld, lanes, store, mem>>

Software ==
  /\ phase = "software"
  /\ mem' = [mem EXCEPT ![n] = All(n)] /\ phase' = "idle"
  /\ UNCHANGED <<pc, n, kind, refusal, held, rc, err, loads, lanes, store>>

ClearErr ==
  /\ At("clear") /\ err' = FALSE /\ Advance
  /\ UNCHANGED <<n, kind, refusal, held, loads, lanes, store, mem>>

\* ld_ok: a load while either DMA is busy is dropped and sets no bit.
LoadAccepted == ~ld.busy

Load(buf) ==
  IF LoadAccepted
    THEN /\ ld' = [busy |-> TRUE, buf |-> buf, tag |-> n]
         /\ bufs' = [bufs EXCEPT ![buf] = 0]
    ELSE UNCHANGED <<ld, bufs>>

LoadStep ==
  /\ \/ At("load_a") /\ Load("a0")
     \/ At("load_w") /\ Load("w")
  /\ Advance
  /\ UNCHANGED <<n, kind, refusal, held, err, tbuf, lanes, store, mem>>

RefusalCode == [chk_act |-> "ACTLD", chk_wgt |-> "WGTLD", chk_cfg |-> "CFG",
                chk_st |-> "ST", chk_go |-> "GO"]

Check ==
  /\ \E s \in DOMAIN RefusalCode :
       At(s) /\ IF err THEN Return(RefusalCode[s]) ELSE Advance
  /\ UNCHANGED <<n, kind, refusal, held, err, loads, lanes, store, mem>>

\* cfg names the buffer the lanes read; no tile sequencer runs here.
NameBuffer ==
  /\ At("cfg") /\ tbuf' = "a0" /\ Advance
  /\ UNCHANGED <<n, kind, refusal, held, err, ld, bufs, lanes, store, mem>>

\* mbxr_st takes a start only when it is not busy, and says nothing otherwise
ArmDrain ==
  /\ At("st")
  /\ drain' = (IF DrainBusy THEN drain
               ELSE [run |-> TRUE, dst |-> n, issued |-> 0])
  /\ Advance
  /\ UNCHANGED <<n, kind, refusal, held, err, loads, lanes, fifo, puts, mem>>

\* The lane's registers.  Writing a running lane sets its error bit, and only
\* LayerNorm's dispatcher ever clears those; the LUT also drops the write.
Configure ==
  /\ At("conf")
  /\ conf' = (IF kind = "LUT" /\ own = "LUT" THEN conf ELSE [conf EXCEPT ![kind] = n])
  /\ cfgBad' = [cfgBad EXCEPT ![kind] = refusal]
  /\ lerr' = [lerr EXCEPT ![kind] = kind # "LN" /\ (@ \/ own = kind)]
  /\ Advance
  /\ UNCHANGED <<n, kind, refusal, held, err, loads, absent, own, lane, store, mem>>

CheckIdle ==
  /\ At("idle")
  /\ IF own # "engine" THEN Return("BUSY") ELSE Advance
  /\ UNCHANGED <<n, kind, refusal, held, err, loads, lanes, store, mem>>

Arm ==
  /\ At("arm")
  /\ IF cfgBad[kind] THEN Return("ARM") ELSE Advance
  /\ UNCHANGED <<n, kind, refusal, held, err, loads, lanes, store, mem>>

\* lgo: a selector no lane answers is not refused; nothing takes ownership
Go ==
  /\ At("go")
  /\ IF own # "engine" THEN Return("BUSY") /\ UNCHANGED <<own, lane>>
     ELSE IF cfgBad[kind] THEN Return("ARM") /\ UNCHANGED <<own, lane>>
     ELSE /\ Advance
          /\ IF kind \in absent THEN UNCHANGED <<own, lane>>
             ELSE /\ own' = kind
                  /\ \E bad \in (IF kind \in LaneErrs THEN BOOLEAN ELSE {FALSE}) :
                       lane' = [id |-> conf[kind], left |-> Blocks, bad |-> bad]
  /\ UNCHANGED <<n, kind, refusal, held, err, loads, conf, cfgBad, lerr, absent,
                 store, mem>>

\* A poll loop runs out of its budget: at any poll, or only if the budget
\* outlasts the unit, when the unit stands still.
NeverGivesUp == FALSE                   \* mutant of GiveUp
GiveUp == ~Patient \/ Stalled

\* fence is a read: the loop ends when the masked bits are clear.  Ownership
\* by a lane is not among them.
Masked == IF At("wait_fill") THEN ld.busy ELSE ld.busy \/ DrainBusy

Fence ==
  /\ At("wait_fill") \/ At("wait_busy") \/ At("wait_end")
  /\ \/ ~Masked /\ Advance
     \/ Masked /\ GiveUp /\ Return("HANG")
  /\ UNCHANGED <<n, kind, refusal, held, err, loads, lanes, store, mem>>

\* After its wait an attention dispatch goes on to the fence whatever it saw.
AfterOwn(code) == IF kind = "ATTN" /\ pc < Len(Program)
                    THEN held' = code /\ pc' = pc + 1 /\ UNCHANGED <<phase, rc>>
                    ELSE Return(code) /\ UNCHANGED held

WaitOwn ==
  /\ At("own")
  /\ \/ /\ own = "engine"
        /\ IF lerr[kind] \/ cfgBad[kind] THEN AfterOwn("ERR")
                                         ELSE Advance /\ UNCHANGED held
     \/ own # "engine" /\ GiveUp /\ AfterOwn("HANG")
  /\ UNCHANGED <<n, kind, refusal, err, loads, lanes, store, mem>>

CheckAcked ==
  /\ At("acked")
  /\ IF Acked # Blocks THEN Return("NOLANE") ELSE Advance
  /\ UNCHANGED <<n, kind, refusal, held, err, loads, lanes, store, mem>>
-----------------------------------------------------------------------------
(* THE UNIT *)

FillDone ==
  /\ ld.busy
  /\ ld' = [ld EXCEPT !.busy = FALSE]
  /\ \/ bufs' = [bufs EXCEPT ![ld.buf] = ld.tag] /\ UNCHANGED err
     \/ kind \in BusErrs /\ err' = TRUE /\ UNCHANGED bufs
  /\ UNCHANGED <<hart, tbuf, lanes, store, mem>>

\* The lane reads the live buffer selection, block by block.
Answer == IF /\ ~lane.bad /\ conf[own] = lane.id
             /\ bufs[tbuf] = lane.id
             /\ own = "ATTN" => bufs["w"] = lane.id
            THEN lane.id ELSE 0

Emit ==
  /\ CanEmit
  /\ fifo' = Append(fifo, Answer)
  /\ lane' = [lane EXCEPT !.left = @ - 1]
  /\ UNCHANGED <<hart, err, loads, conf, cfgBad, lerr, absent, own, drain,
                 puts, mem>>

GiveBack ==
  /\ CanFinish
  /\ own' = "engine"
  /\ lerr' = [lerr EXCEPT ![own] = @ \/ lane.bad]
  /\ UNCHANGED <<hart, err, loads, conf, cfgBad, absent, lane, store, mem>>

\* The drain is armed for exactly the blocks the lane produces.
OneOver     == Blocks + 1               \* mutant of DrainBlocks
DrainBlocks == Blocks

StartPut ==
  /\ CanPut
  /\ puts' = puts \cup {[dst |-> drain.dst, i |-> drain.issued, tag |-> Head(fifo)]}
  /\ fifo' = Tail(fifo)
  /\ drain' = [drain EXCEPT !.issued = @ + 1, !.run = drain.issued + 1 < DrainBlocks]
  /\ UNCHANGED <<hart, err, loads, lanes, mem>>

Ack ==
  /\ \E p \in puts :
       /\ puts' = puts \ {p}
       /\ mem' = [mem EXCEPT ![p.dst][p.i + 1] = p.tag]
  /\ UNCHANGED <<hart, err, loads, lanes, fifo, drain>>
-----------------------------------------------------------------------------
Hart1 == \/ Software \/ ClearErr \/ LoadStep \/ Check \/ NameBuffer
         \/ ArmDrain \/ Configure \/ CheckIdle \/ Arm \/ Go \/ Fence
         \/ WaitOwn \/ CheckAcked

Unit == FillDone \/ Emit \/ GiveBack \/ StartPut \/ Ack

\* a poll that finds the unit busy changes nothing
Poll     == (At("wait_fill") \/ At("wait_busy") \/ At("own") \/ At("wait_end"))
            /\ UNCHANGED vars
Finished == phase = "idle" /\ n = MaxN /\ UNCHANGED vars

Next == \/ \E k \in Kinds : Issue(k)
        \/ EngineRun \/ Hart1 \/ Unit \/ Poll \/ Finished

Spec == Init /\ [][Next]_vars

\* hart 1 is never descheduled for ever, and the unit moves when it can
FairSpec == Spec /\ WF_vars(Hart1) /\ WF_vars(Unit)
-----------------------------------------------------------------------------
(* PROPERTIES *)

TypeOK ==
  /\ phase \in {"idle", "run", "software"} /\ pc \in 1 .. Len(LUT)
  /\ n \in 0 .. MaxN /\ kind \in Kinds /\ refusal \in BOOLEAN
  /\ held \in Codes /\ rc \in [Disp -> Codes]
  /\ err \in BOOLEAN /\ tbuf \in {"a0", "a1"}
  /\ ld \in [busy : BOOLEAN, buf : Spad, tag : Tags] /\ bufs \in [Spad -> Tags]
  /\ conf \in [AllKinds -> Tags] /\ cfgBad \in [AllKinds -> BOOLEAN]
  /\ lerr \in [AllKinds -> BOOLEAN] /\ absent \subseteq Optional
  /\ own \in AllKinds \cup {"engine"}
  /\ lane \in [id : Tags, left : 0 .. Blocks, bad : BOOLEAN]
  /\ fifo \in Seq(Tags) /\ Len(fifo) <= FifoBlocks
  /\ drain \in [run : BOOLEAN, dst : Tags, issued : 0 .. Blocks]
  /\ puts \subseteq [dst : Disp, i : 0 .. Blocks - 1, tag : Tags]
  /\ Cardinality(puts) <= Depth
  /\ mem \in [Disp -> [1 .. Blocks -> Tags]]

\* Whatever a dispatch returned, the tensor the network goes on with is right
\* and stays right: nothing of the unit lands after the return, in particular
\* not on top of the fallback's result.
Promise == INSTANCE Offload WITH
             MaxCalls <- MaxN, MaxParts <- Blocks, NBufs <- MaxN + 1,
             phase <- IF phase = "idle" THEN "idle" ELSE "busy", cur <- n,
             parts <- IF n = 0 THEN 1 ELSE Blocks,
             out <- [b \in 0 .. MaxN |-> [k \in 1 .. Blocks |->
                       IF b = 0 \/ mem[b][k] = 0 THEN <<0, 0>> ELSE <<mem[b][k], k>>]]
DispatchOffloads == Promise!Spec

\* "st before a REFUSAL is the poison": a dispatch that is refused has not
\* left its drain armed.
Refusals == {"ACTLD", "WGTLD", "CFG", "ST", "GO", "ARM", "BUSY"}
LeavesUnarmed ==
  \A d \in Disp : rc[d] = "none" /\ rc'[d] \in Refusals =>
    ~(drain'.run /\ drain'.dst = d)
RefusalUnarmed == [][LeavesUnarmed]_vars

\* The same of the dispatcher that comment is written in, mbxr_lane_dispatch.
LutRefusalUnarmed == [][kind = "LUT" => LeavesUnarmed]_vars

\* One dispatch's failure is not the next one's: a dispatch whose shape the
\* lane takes, on a lane that is there and raises no error, returns OK.
NotContagious ==
  \A d \in Disp : d < n \/ phase # "run" => rc[d] \in {"none", "OK"}

\* Between dispatches no drain is armed and no Put is in flight.
NoOrphanDrain == phase # "run" => ~DrainBusy /\ fifo = << >>

\* Every dispatch returns, whatever the unit does.
EveryDispatchReturns == phase = "run" ~> phase # "run"
-----------------------------------------------------------------------------
(* The inductive invariant behind LutRefusalUnarmed:                           *)
(* from the idle check to lgo nothing can take the unit away from hart 1, and *)
(* the drain is armed for this dispatch only once nothing is left to refuse. *)

GoSafe ==
  /\ phase \in {"idle", "run", "software"} /\ n \in Nat
  /\ drain.dst \in 0 .. n /\ DOMAIN rc = Disp
  /\ phase = "run" /\ kind = "LUT" =>
       /\ pc \in 1 .. 19 /\ held = "OK"
       /\ pc >= 5 => ~ld.busy
       /\ pc \in 10 .. 15 => own = "engine"
       /\ pc \in 11 .. 15 => ~cfgBad["LUT"]
       /\ pc \in 12 .. 16 => ~err
       /\ drain.dst = n => pc >= 13
-----------------------------------------------------------------------------
(* The inductive invariants behind the others.  The dispatchers are straight   *)
(* lines, so what the unit may be doing follows from where hart 1 is.          *)

\* Where the steps of the current program are.
LenAt  == IF kind = "LN" THEN 13 ELSE IF kind = "ATTN" THEN 17 ELSE 19
LoadAt == IF kind = "LN" THEN 1  ELSE 2
BusyAt == IF kind = "LN" THEN 3  ELSE IF kind = "ATTN" THEN 7  ELSE 4
CfgAt  == IF kind = "LN" THEN 4  ELSE IF kind = "ATTN" THEN 8  ELSE 6
StAt   == IF kind = "LN" THEN 6  ELSE IF kind = "ATTN" THEN 10 ELSE 12
ConfAt == IF kind = "LN" THEN 8  ELSE IF kind = "ATTN" THEN 12 ELSE 8
GoAt   == IF kind = "LN" THEN 10 ELSE IF kind = "ATTN" THEN 14 ELSE 15
OwnAt  == IF kind = "LN" THEN 12 ELSE IF kind = "ATTN" THEN 16 ELSE 17
EndAt  == IF kind = "LN" THEN 13 ELSE IF kind = "ATTN" THEN 17 ELSE 18

\* What the types rest on: nothing runs past its program, and the drain is
\* armed for a dispatch that was issued and stops at its last block.
BoundInv ==
  /\ phase = "run" => pc <= LenAt
  /\ phase # "idle" => n >= 1
  /\ drain.run => drain.issued < Blocks /\ drain.dst >= 1
  /\ IsFiniteSet(puts)

TypeInv == TypeOK /\ BoundInv

\* The lane and the drain at rest, but for an armed descriptor.
Rest    == own = "engine" /\ lane.left = 0 /\ fifo = << >> /\ puts = {}
Armed   == drain = [run |-> TRUE, dst |-> n, issued |-> 0]
\* A lane at work: every block is still to come, in the FIFO, or issued.
Working ==
  /\ kind \notin absent /\ own \in {kind, "engine"} /\ drain.dst = n
  /\ drain.issued + Len(fifo) + lane.left = Blocks
  /\ drain.run <=> drain.issued < Blocks
  /\ own = "engine" => lane.left = 0
  /\ \A p \in puts : p.dst = n
  /\ pc > OwnAt => own = "engine"
  /\ pc > EndAt => ~drain.run /\ puts = {}

\* Nothing is under way outside a dispatch, and what is inside follows from
\* the step: the budgets outlast the unit, and every program ends in a fence.
UnitInv ==
  /\ phase # "run" => Rest
  /\ phase = "run" =>
       /\ pc <= StAt => Rest
       /\ pc > BusyAt => ~ld.busy
       /\ pc > BusyAt /\ pc <= StAt => ~drain.run
       /\ pc > StAt + 1 => ~err
       /\ pc > StAt /\ pc <= GoAt => Rest /\ Armed
       /\ pc > GoAt =>
            /\ Working \/ (Rest /\ Armed /\ kind \in absent /\ pc <= EndAt)
            /\ ~cfgBad[kind]
       /\ held = "OK" \/ (held = "ERR" /\ kind = "ATTN" /\ pc = EndAt)

\* Only an attention's lane has raised an error: the other two dispatchers
\* return one before their drain is done.
NoEarlyErr == ~lerr["LN"] /\ ~lerr["LUT"]

\* The data of the current dispatch is in a buffer, or on its way there.
Filling(b) == bufs[b] = n \/ (ld.busy /\ ld.buf = b /\ ld.tag = n)
Failing    == err /\ kind # "LUT"

\* The lane reads what was loaded for it: a load that failed is refused at cfg.
FillInv ==
  /\ phase = "idle" /\ ld.busy => n > 0 /\ rc[n] # "OK"
  /\ phase = "software" => rc[n] # "OK"
  /\ phase = "run" =>
       /\ pc <= LoadAt => ~ld.busy
       /\ ld.busy => ld.tag = n
       /\ pc > LoadAt => Failing \/ Filling("a0")
       /\ kind = "ATTN" /\ pc > 4 => Failing \/ bufs["a0"] = n
       /\ kind = "ATTN" /\ pc = 5 => ~ld.busy
       /\ kind = "ATTN" /\ pc > 5 => Failing \/ Filling("w")
       /\ pc > CfgAt => tbuf = "a0"
       /\ pc > CfgAt + 1 => bufs["a0"] = n /\ (kind = "ATTN" => bufs["w"] = n)
       /\ pc > ConfAt => conf[kind] = n

\* What the lane made is this dispatch's answer, wherever the block is by now,
\* unless the lane has reported an error or will when it gives back the unit.
LandInv ==
  phase = "run" /\ pc > GoAt /\ kind \notin absent =>
    /\ lane.id = n
    /\ IF lane.bad
         THEN kind = "ATTN" /\ (own = "engine" => lerr[kind]) /\ (pc > OwnAt => held = "ERR")
         ELSE /\ \A i \in 1 .. Len(fifo) : fifo[i] = n
              /\ \A p \in puts : p.tag = n
              /\ \A i \in 0 .. drain.issued - 1 :
                   mem[n][i + 1] = n \/ \E p \in puts : p.i = i

\* Before anything has gone wrong no code but OK is returned and the unit is
\* left as it was found.
CleanInv ==
  /\ ~err /\ ~refusal /\ ~lane.bad /\ held = "OK" /\ phase # "software"
  /\ \A k \in AllKinds : ~lerr[k] /\ ~cfgBad[k]
  /\ phase = "run" => kind \notin absent
  /\ phase # "run" \/ pc <= BusyAt => ~drain.run
  /\ \A d \in Disp : rc[d] \in {"none", "OK"}
=============================================================================
