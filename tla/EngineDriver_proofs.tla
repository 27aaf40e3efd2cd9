------------------------ MODULE EngineDriver_proofs ------------------------
(* Theorems about EngineDriver, for every number of tiles and of runs, every *)
(* depth of FIFO and drain, and every poll limit.                            *)
EXTENDS EngineDriver, TLAPS, FiniteSetTheorems, WellFoundedInduction

(***************************************************************************)
(* The two buffers of an operand: while the sequencer computes it reads    *)
(* the buffers the run thinks it reads, and when it is given a tile no     *)
(* fill is running.                                                        *)
(***************************************************************************)
Running == pc \notin {"idle", "busy", "software"}

Units ==
  /\ ld \in [busy : BOOLEAN, client : {"A", "W"}, buf : 0 .. 1, tile : Int]
  /\ tseq \in [left : Nat, ab : 0 .. 1, wb : 0 .. 1]
Named  == Running /\ Computing => tseq.ab = cab /\ tseq.wb = cwb
Filled == pc \in {"start", "arm", "mm", "pre", "pad"} => ~Filling
Still  == pc \in {"start", "arm", "mm"} => ~Computing
Chosen == pc \in {"pre", "pad"} => cab \in 0 .. 1 /\ cwb \in 0 .. 1
BufferInv == Units /\ Named /\ Filled /\ Still /\ Chosen

\* No command of hart 1 raises the sticky bit.
Accepted == err' => err
-----------------------------------------------------------------------------
\* The sizes of a run are numbers.
LEMMA Sizes ==
  /\ Total \in Nat \ {0} /\ Pad \in Nat /\ PerPut \in Nat \ {0} /\ PerPut <= FifoCells
<1>1. Total \in Nat \ {0}
  BY EngineShapeAssumption DEF Total
<1> QED BY <1>1, EngineShapeAssumption, EngineBoundsAssumption DEF Pad, PerPut

\* A place in a table of all pairs names a row and a column, either way round.
LEMMA PlaceOfPair ==
  ASSUME NEW j \in 1 .. Total
  PROVE  /\ (j - 1) \div TilesW \in 0 .. TilesA - 1 /\ (j - 1) % TilesW \in 0 .. TilesW - 1
         /\ (j - 1) \div TilesA \in 0 .. TilesW - 1 /\ (j - 1) % TilesA \in 0 .. TilesA - 1
<1>1. ASSUME NEW n \in Nat \ {0}, NEW m \in Nat \ {0}, NEW i \in Nat, i < n * m
      PROVE  i \div m \in 0 .. n - 1 /\ i % m \in 0 .. m - 1
  <2>1. i \div m \in Nat /\ i % m \in 0 .. m - 1 /\ i = (m * (i \div m)) + (i % m)
    BY <1>1
  <2>2. i \div m < n
    <3> SUFFICES ASSUME i \div m >= n PROVE FALSE
      BY <1>1, <2>1
    <3>1. PICK d \in Nat : i \div m = n + d
      <4>1. (i \div m) - n \in Nat /\ i \div m = n + ((i \div m) - n)
        BY <2>1, <1>1
      <4> QED BY <4>1
    <3>2. m * (i \div m) = m * n + m * d /\ m * d \in Nat /\ m * n = n * m /\ m * n \in Nat
      BY <3>1
    <3> QED BY <3>2, <2>1, <1>1
  <2> QED BY <2>1, <2>2
<1>2. TilesA \in Nat \ {0} /\ TilesW \in Nat \ {0} /\ j - 1 \in Nat /\ j - 1 < TilesA * TilesW
      /\ TilesA * TilesW = TilesW * TilesA
  BY EngineShapeAssumption DEF Total
<1> QED BY <1>2, <1>1

\* The tile numbers are numbers: a pair's place in loop order names a tile of
\* each operand.
LEMMA TilesOfPair ==
  ASSUME NEW j \in 1 .. Total
  PROVE  ATile(j) \in ATiles /\ WTile(j) \in WTiles
BY PlaceOfPair DEF ATile, WTile, ATiles, WTiles

\* A step that gives the engine no command and only moves hart 1 within a run,
\* out of it or to its start, keeps the invariant.
LEMMA NoCommand ==
  ASSUME BufferInv, UNCHANGED <<ld, tseq, cab, cwb>>,
         pc' \in {pc, "busy", "idle", "software"} \/ (Running /\ pc' \in {"late", "act"})
  PROVE  BufferInv'
BY DEF BufferInv, Units, Named, Filled, Still, Chosen, Running, Filling, Computing

\* Hart 1 enters a run: its first fence is still ahead.
LEMMA Entering ==
  ASSUME BufferInv, Enter, UNCHANGED engine
  PROVE  BufferInv'
BY DEF BufferInv, Units, Named, Filled, Still, Chosen, Running, Filling, Computing,
       Enter, engine

\* A load goes to the buffer the pair in flight does not use: the engine takes
\* it, and what it changes is the fill alone.
LEMMA LoadTaken ==
  ASSUME Units, NEW c \in {"A", "W"}, NEW b \in 0 .. 1, NEW tile \in Int, ~LoadClash(c, b),
         Load(c, b, tile)
  PROVE  /\ Accepted
         /\ ld' \in [busy : BOOLEAN, client : {"A", "W"}, buf : 0 .. 1, tile : Int]
<1>1. CASE Filling
  <2>1. ld' = ld /\ (err' <=> err \/ LoadClash(c, b))
    BY <1>1, Zenon DEF Load
  <2> QED BY <2>1 DEF Units, Accepted
<1>2. CASE ~Filling
  <2>1. ld' = [busy |-> TRUE, client |-> c, buf |-> b, tile |-> tile] /\ err' = err
    BY <1>2 DEF Load
  <2> QED BY <2>1 DEF Accepted
<1> QED BY <1>1, <1>2

\* The other buffer is the other buffer.
LEMMA OtherFree ==
  ASSUME Units, Named, Running
  PROVE  /\ Other(cab) \in 0 .. 1 /\ Other(cwb) \in 0 .. 1
         /\ ~LoadClash("A", Other(cab)) /\ ~LoadClash("W", Other(cwb))
BY DEF Units, Named, Running, Other, LoadClash

\* A tile is started when nothing computes and nothing fills.
LEMMA TileTaken ==
  ASSUME Units, ~Filling, ~Computing, NEW a \in 0 .. 1, NEW w \in 0 .. 1, NEW n \in Nat,
         Multiply(a, w, n)
  PROVE  /\ Accepted
         /\ tseq' = [left |-> n, ab |-> a, wb |-> w]
BY DEF Units, Multiply, MmClash, Accepted, Filling, Computing

\* Each step of hart 1 keeps the buffers apart and is taken by the engine.
LEMMA Hart1Keeps ==
  ASSUME BufferInv, Hart1, k \in 1 .. Total
  PROVE  BufferInv' /\ Accepted
<1> USE DEF At
<1>1. CASE AwaitIdle
  BY <1>1 DEF AwaitIdle, BufferInv, Units, Named, Filled, Still, Chosen, Running, Filling,
              Computing, Masked, Busy, engine, Accepted
<1>2. CASE Start
  <2>1. pc = "start" /\ pc' = "act" /\ ~err' /\ UNCHANGED <<ld, tseq, cab, cwb>>
    BY <1>2 DEF Start
  <2> QED BY <2>1, NoCommand DEF Accepted, Running
<1>3. CASE LoadAct
  <2>1. pc = "act" /\ pc' = "wgt" /\ UNCHANGED <<tseq, cab, cwb>>
    BY <1>3 DEF LoadAct
  <2>2. Accepted /\ Units'
    BY <1>3, <2>1, LoadTaken, OtherFree, TilesOfPair
       DEF LoadAct, BufferInv, Running, Units, Accepted, ATiles
  <2> QED BY <2>1, <2>2 DEF BufferInv, Named, Filled, Still, Chosen, Running, Computing
<1>4. CASE LoadWgt
  <2>1. pc = "wgt" /\ pc' = "ready" /\ UNCHANGED <<tseq, cab, cwb>>
    BY <1>4 DEF LoadWgt
  <2>2. Accepted /\ Units'
    BY <1>4, <2>1, LoadTaken, OtherFree, TilesOfPair
       DEF LoadWgt, BufferInv, Running, Units, Accepted, WTiles
  <2> QED BY <2>1, <2>2 DEF BufferInv, Named, Filled, Still, Chosen, Running, Computing
<1>5. CASE AwaitReady
  BY <1>5 DEF AwaitReady, BufferInv, Units, Named, Filled, Still, Chosen, Running, Filling,
              Computing, Masked, ReadyMask, engine, Accepted
<1>6. CASE ArmStrided
  BY <1>6 DEF ArmStrided, BufferInv, Units, Named, Filled, Still, Chosen, Running, Filling,
              Computing, engine, Accepted
<1>7. CASE Compute
  <2>1. /\ pc = "mm" /\ pc' = "pre" /\ UNCHANGED ld /\ Multiply(cab', cwb', 1)
        /\ cab' \in 0 .. 1 /\ cwb' \in 0 .. 1
    BY <1>7 DEF Compute, Find
  <2>2. Accepted /\ tseq' = [left |-> 1, ab |-> cab', wb |-> cwb']
    BY <2>1, TileTaken DEF BufferInv, Filled, Still
  <2> QED BY <2>1, <2>2 DEF BufferInv, Units, Named, Filled, Still, Chosen, Running, Filling
<1>8. CASE Preload
  <2>1. pc = "pre" /\ pc' = "act" /\ UNCHANGED <<tseq, cab, cwb>> /\ k + 1 \in 1 .. Total
    BY <1>8, Sizes DEF Preload
  <2>2. Accepted /\ Units'
    <3>1. CASE Load("A", Other(cab), ATile(k + 1))
      BY <3>1, <2>1, LoadTaken, OtherFree, TilesOfPair DEF BufferInv, Running, Units, ATiles
    <3>2. CASE Load("W", Other(cwb), WTile(k + 1))
      BY <3>2, <2>1, LoadTaken, OtherFree, TilesOfPair DEF BufferInv, Running, Units, WTiles
    <3>3. CASE UNCHANGED <<err, ld>>
      BY <3>3, <2>1 DEF BufferInv, Units, Accepted
    <3> QED BY <1>8, <3>1, <3>2, <3>3 DEF Preload
  <2> QED BY <2>1, <2>2 DEF BufferInv, Named, Filled, Still, Chosen, Running, Computing
<1>9. CASE NestDone
  BY <1>9 DEF NestDone, BufferInv, Units, Named, Filled, Still, Chosen, Running, Filling,
              Computing, engine, Accepted
<1>10. CASE PadTile
  <2>1. /\ pc = "pad" /\ pc' = "end" /\ UNCHANGED <<ld, cab, cwb>> /\ Multiply(cab, cwb, Pad)
        /\ ~Computing
    BY <1>10 DEF PadTile, Masked
  <2>2. Accepted /\ tseq' = [left |-> Pad, ab |-> cab, wb |-> cwb]
    BY <2>1, TileTaken, Sizes DEF BufferInv, Filled, Chosen
  <2> QED BY <2>1, <2>2, Sizes DEF BufferInv, Units, Named, Filled, Still, Chosen, Running, Filling
<1>11. CASE Finish
  <2>1. /\ pc = "end" /\ pc' \in {"idle", "software", "late"}
        /\ UNCHANGED <<ld, tseq, cab, cwb, err>>
    BY <1>11 DEF Finish, Return, engine
  <2> QED BY <2>1, NoCommand DEF Accepted, Running
<1>12. CASE PlaceEarly
  <2>1. pc' = pc /\ UNCHANGED <<ld, tseq, cab, cwb, err>>
    BY <1>12 DEF PlaceEarly, engine
  <2> QED BY <2>1, NoCommand DEF Accepted
<1>13. CASE PlaceLate
  <2>1. pc' \in {"idle", "software"} /\ UNCHANGED <<ld, tseq, cab, cwb, err>>
    BY <1>13 DEF PlaceLate, Return, engine
  <2> QED BY <2>1, NoCommand DEF Accepted
<1>14. CASE TimeOut
  <2>1. pc' \in {"idle", "software"} /\ UNCHANGED <<ld, tseq, cab, cwb, err>>
    BY <1>14 DEF TimeOut, Return, engine
  <2> QED BY <2>1, NoCommand DEF Accepted
<1>15. CASE Software
  <2>1. pc' = "idle" /\ UNCHANGED <<ld, tseq, cab, cwb, err>>
    BY <1>15 DEF Software, engine
  <2> QED BY <2>1, NoCommand DEF Accepted
<1> QED BY <1>1, <1>2, <1>3, <1>4, <1>5, <1>6, <1>7, <1>8, <1>9, <1>10, <1>11, <1>12,
           <1>13, <1>14, <1>15 DEF Hart1

\* The engine ends a fill and counts down; only the bus raises its error bit.
LEMMA UnitKeeps ==
  ASSUME BufferInv, Unit
  PROVE  /\ BufferInv'
         /\ BusErrs \subseteq {"hang"} => Accepted
<1>1. CASE FillDone
  <2>1. /\ UNCHANGED <<pc, cab, cwb, tseq>> /\ ld' = [ld EXCEPT !.busy = FALSE]
        /\ (BusErrs \subseteq {"hang"} => UNCHANGED err)
    BY <1>1 DEF FillDone, plan
  <2>2. Units' /\ ~Filling'
    BY <2>1 DEF BufferInv, Units, Filling
  <2> QED BY <2>1, <2>2 DEF BufferInv, Named, Filled, Still, Chosen, Running, Computing,
              Accepted
<1>2. CASE Emit
  <2>1. /\ tseq.left \in Nat /\ tseq.left > 0 /\ tseq' = [tseq EXCEPT !.left = tseq.left - 1]
        /\ UNCHANGED <<pc, cab, cwb, ld, err>>
    BY <1>2 DEF Emit, CanEmit, Computing, plan, BufferInv, Units
  <2> QED BY <2>1 DEF BufferInv, Units, Named, Filled, Still, Chosen, Running, Filling,
              Computing, Accepted
<1>3. CASE Pack \/ StartPut
  <2>1. UNCHANGED <<pc, ld, tseq, cab, cwb, err>>
    BY <1>3 DEF Pack, StartPut, plan, engine
  <2> QED BY <2>1, NoCommand DEF Accepted
<1>4. CASE Ack
  <2>1. UNCHANGED <<pc, ld, tseq, cab, cwb>> /\ (BusErrs \subseteq {"hang"} => UNCHANGED err)
    BY <1>4 DEF Ack, plan
  <2> QED BY <2>1, NoCommand DEF Accepted
<1> QED BY <1>1, <1>2, <1>3, <1>4 DEF Unit

\* The run's place in the nest.
InNest == k \in 1 .. Total

\* Every step of the driver stays within the nest of tile pairs.
LEMMA NestKept ==
  ASSUME InNest, Begin \/ Hart1 \/ Unit
  PROVE  InNest'
<1>1. k' \in {k, 1} \/ (k < Total /\ k' = k + 1)
  <2>1. CASE Begin
    BY <2>1 DEF Begin, Enter
  <2>2. CASE Unit
    BY <2>2 DEF Unit, FillDone, Emit, Pack, StartPut, Ack, plan
  <2>3. CASE Hart1
    BY <2>3 DEF Hart1, AwaitIdle, Start, LoadAct, LoadWgt, AwaitReady, ArmStrided, Compute,
                Preload, NestDone, PadTile, Finish, PlaceEarly, PlaceLate, TimeOut, Software
  <2> QED BY <2>1, <2>2, <2>3
<1> QED BY <1>1, Sizes DEF InNest

\* Hart 1 acts within a run, and stages nothing.
LEMMA Hart1Frame ==
  ASSUME Hart1
  PROVE  pc # "idle" /\ UNCHANGED <<r, inp>>
BY DEF Hart1, AwaitIdle, Start, LoadAct, LoadWgt, AwaitReady, ArmStrided, Compute, Preload,
       NestDone, PadTile, Finish, PlaceEarly, PlaceLate, TimeOut, Software, At, Masked

\* The engine leaves the plan and the input alone.
LEMMA UnitFrame ==
  ASSUME Unit
  PROVE  UNCHANGED plan /\ UNCHANGED inp
BY DEF Unit, FillDone, Emit, Pack, StartPut, Ack

\* Nothing runs yet.
LEMMA Initially == Init => InNest /\ BufferInv /\ ~err
<1> SUFFICES ASSUME Init PROVE InNest /\ BufferInv /\ ~err
  OBVIOUS
<1>1. /\ pc = "idle" /\ k = 1 /\ ~err
      /\ ld = [busy |-> FALSE, client |-> "A", buf |-> 0, tile |-> 0]
      /\ tseq = [left |-> 0, ab |-> 0, wb |-> 0]
  BY DEF Init
<1> QED BY <1>1, Sizes DEF InNest, BufferInv, Units, Named, Filled, Still, Chosen, Running

\* On a bus that reports no error the engine never refuses a command of
\* mbxr_run_to, whatever its waits and give-ups: no load goes into a buffer a
\* tile is computed from, no tile starts on a buffer still being filled.
THEOREM NeverRefusedHolds ==
  ASSUME BusErrs \subseteq {"hang"}
  PROVE  Spec => []NeverRefused
<1> DEFINE Inv == InNest /\ BufferInv /\ ~err
<1>1. Init => Inv
  BY Initially
<1>2. Inv /\ [Next]_vars => Inv'
  <2> SUFFICES ASSUME Inv, [Next]_vars PROVE Inv'
    OBVIOUS
  <2>1. CASE Begin
    <3>1. Enter /\ UNCHANGED engine
      BY <2>1 DEF Begin
    <3> QED BY <3>1, <2>1, Entering, NestKept DEF engine
  <2>2. CASE Hart1
    BY <2>2, Hart1Keeps, NestKept DEF Accepted, InNest
  <2>3. CASE Unit
    BY <2>3, UnitKeeps, NestKept DEF Accepted
  <2>4. CASE UNCHANGED vars
    <3>1. UNCHANGED <<pc, ld, tseq, cab, cwb, err, k>>
      BY <2>4 DEF vars, plan, engine
    <3> QED BY <3>1, NoCommand, Sizes DEF InNest
  <2> QED BY <2>1, <2>2, <2>3, <2>4 DEF Next, Poll, Finished
<1>3. Inv => NeverRefused
  BY DEF NeverRefused
<1> QED BY <1>1, <1>2, <1>3, PTL DEF Spec
-----------------------------------------------------------------------------
(* TYPES: what every variable holds, by the part of the system it is in.     *)

Cells == Scratch \cup Output
PutSet == {p \in [dst : Seq(Cells), lost : BOOLEAN, val : Seq(Values), i : Nat] :
             Len(p.val) = Len(p.dst)}

PlanOK ==
  /\ pc \in Steps /\ r \in 0 .. MaxRuns /\ mode \in Modes /\ k \in 1 .. Total
  /\ aIn \in [0 .. 1 -> ATiles \cup {None}] /\ wIn \in [0 .. 1 -> WTiles \cup {None}]
  /\ cab \in {None, 0, 1} /\ cwb \in {None, 0, 1} /\ placed \in 0 .. Total
  /\ rc \in {"none", "OK", "HW", "TIMEOUT"}
  /\ pc # "idle" => r > 0
  /\ pc = "arm" => ArmsDrain(k)
UnitOK ==
  /\ err \in BOOLEAN
  /\ ld \in [busy : BOOLEAN, client : {"A", "W"}, buf : 0 .. 1, tile : Nat]
  /\ ld.tile \in IF ld.client = "A" THEN ATiles ELSE WTiles
  /\ bufs \in [{"A", "W"} -> [0 .. 1 -> (0 .. MaxRuns) \X Nat]]
  /\ \A b \in 0 .. 1 : bufs["A"][b][2] \in ATiles /\ bufs["W"][b][2] \in WTiles
  /\ tseq \in [left : Nat, ab : 0 .. 1, wb : 0 .. 1]
DrainOK ==
  /\ drain \in [dst : Seq(Cells), per : {1, BlockCells}, issued : Nat]
  /\ \E n \in Nat : Len(drain.dst) = n * drain.per
StoreOK ==
  /\ pipe \in Seq(Values) /\ Len(pipe) <= 1
  /\ fifo \in Seq(Values) /\ Len(fifo) + Len(pipe) <= FifoCells
  /\ DrainOK
  /\ puts \subseteq PutSet /\ IsFiniteSet(puts) /\ Cardinality(puts) <= Depth
MemOK ==
  /\ inp \in [ATiles -> 0 .. MaxRuns] /\ mem \in [Cells -> Values]
Typed == PlanOK /\ UnitOK /\ StoreOK /\ MemOK

\* The types carried by the proofs imply the type invariant.
LEMMA TypedIsTypeOK == Typed => TypeOK
<1> SUFFICES ASSUME Typed PROVE TypeOK
  OBVIOUS
<1>1. Len(fifo) \in Nat /\ Len(pipe) \in Nat /\ Len(fifo) <= FifoCells
  BY EngineBoundsAssumption DEF Typed, StoreOK
<1> QED BY <1>1 DEF Typed, PlanOK, UnitOK, StoreOK, DrainOK, MemOK, Cells, TypeOK

\* A set of numbers has a smallest.
LEMMA SmallestIndex ==
  ASSUME NEW T, T \subseteq Nat, T # {}
  PROVE  \E i \in T : \A j \in T : i <= j
<1>1. IsWellFoundedOn(OpToRel(<,Nat), Nat)
  BY NatLessThanWellFounded
<1>2. PICK i \in T : \A j \in T : ~(<<j, i>> \in OpToRel(<,Nat))
  BY <1>1, WFMin
<1>3. \A j \in T : ~(j < i)
  BY <1>2 DEF OpToRel
<1> QED BY <1>3

\* The watermark is a number of Puts, and none below it is outstanding.
LEMMA Watermark ==
  ASSUME StoreOK
  PROVE  Acked \in Nat /\ (\A p \in puts : Acked <= p.i) /\ (puts = {} => Acked = drain.issued)
<1>1. CASE puts = {}
  BY <1>1 DEF Acked, StoreOK, DrainOK
<1>2. CASE puts # {}
  <2>1. \A p \in puts : p.i \in Nat
    BY DEF StoreOK, PutSet
  <2> DEFINE T == {p.i : p \in puts}
  <2>2. PICK i \in T : \A j \in T : i <= j
    BY <1>2, <2>1, SmallestIndex
  <2>3. \E j \in T : \A p \in puts : j <= p.i
    BY <2>2
  <2>4. Acked \in T /\ \A p \in puts : Acked <= p.i
    BY <1>2, <2>3 DEF Acked
  <2> QED BY <1>2, <2>1, <2>4
<1> QED BY <1>1, <1>2

\* The two halves of a sequence of results or destinations.
LEMMA Halves ==
  ASSUME NEW S, NEW s \in Seq(S), NEW n \in 0 .. Len(s)
  PROVE  /\ SubSeq(s, 1, n) \in Seq(S) /\ Len(SubSeq(s, 1, n)) = n
         /\ \A i \in 1 .. n : SubSeq(s, 1, n)[i] = s[i]
         /\ SubSeq(s, n + 1, Len(s)) \in Seq(S) /\ Len(SubSeq(s, n + 1, Len(s))) = Len(s) - n
         /\ \A i \in 1 .. Len(s) - n : SubSeq(s, n + 1, Len(s))[i] = s[n + i]
OBVIOUS

\* A result joins the FIFO.
LEMMA Joined ==
  ASSUME NEW S, NEW s \in Seq(S), NEW t \in Seq(S), Len(t) <= 1
  PROVE  /\ s \o t \in Seq(S) /\ Len(s \o t) = Len(s) + Len(t)
         /\ \A i \in 1 .. Len(s) : (s \o t)[i] = s[i]
         /\ Len(t) = 1 => (s \o t)[Len(s) + 1] = t[1]
OBVIOUS

\* The descriptors name cells, a whole number of Puts of them.
LEMMA Descriptors ==
  /\ FlatDst \in Seq(Cells) /\ Len(FlatDst) = Total + Pad
  /\ \A j \in 1 .. Total + Pad : FlatDst[j] = <<j>>
  /\ ~Strided => \E n \in Nat : Total + Pad = n * BlockCells
<1>1. Total \in Nat /\ Pad \in Nat /\ BlockCells \in Nat \ {0}
  BY Sizes, EngineShapeAssumption
<1>2. Pad < BlockCells
  BY <1>1 DEF Pad
<1>3. \A j \in 1 .. Total + Pad : <<j>> \in Cells
  BY <1>1, <1>2 DEF Cells, Scratch
<1>4. ASSUME ~Strided PROVE \E n \in Nat : Total + Pad = n * BlockCells
  <2>1. Total = (BlockCells * (Total \div BlockCells)) + (Total % BlockCells)
        /\ Total % BlockCells \in 0 .. BlockCells - 1 /\ Total \div BlockCells \in Nat
    BY <1>1
  <2>2. CASE Total % BlockCells = 0
    <3>1. Pad = 0
      BY <1>1, <1>4, <2>2 DEF Pad
    <3>2. Total + Pad = (Total \div BlockCells) * BlockCells
      BY <2>1, <2>2, <3>1, <1>1
    <3> QED BY <3>2, <2>1
  <2>3. CASE Total % BlockCells # 0
    <3>1. Pad = BlockCells - (Total % BlockCells)
      BY <1>1, <1>4, <2>1, <2>3 DEF Pad
    <3>2. Total + Pad = (BlockCells * (Total \div BlockCells)) + BlockCells
      BY <2>1, <3>1, <1>1
    <3>3. (BlockCells * (Total \div BlockCells)) + BlockCells = ((Total \div BlockCells) + 1) * BlockCells
      BY <2>1, <1>1
    <3> QED BY <3>2, <3>3, <2>1
  <2> QED BY <2>2, <2>3
<1> QED BY <1>1, <1>3, <1>4 DEF FlatDst

\* A strided descriptor names the cells of one column, or one cell.
LEMMA RowDescriptors ==
  ASSUME NEW j \in 1 .. Total
  PROVE  /\ StridedDst(j) \in Seq(Cells)
         /\ Len(StridedDst(j)) = IF WOuter THEN TilesA ELSE 1
         /\ WOuter => \A i \in 1 .. TilesA : StridedDst(j)[i] = <<i - 1, WTile(j)>>
         /\ ~WOuter => StridedDst(j)[1] = CellOf(j)
<1>1. ATile(j) \in ATiles /\ WTile(j) \in WTiles /\ TilesA \in Nat
  BY TilesOfPair, EngineShapeAssumption
<1>2. \A i \in 1 .. TilesA : <<i - 1, WTile(j)>> \in Cells
  BY <1>1 DEF Cells, Output, ATiles
<1>3. CellOf(j) \in Cells
  BY <1>1 DEF CellOf, Cells, Output
<1> QED BY <1>1, <1>2, <1>3 DEF StridedDst
\* What the commands do to the types of the engine's registers.
LEMMA LoadTyped ==
  ASSUME UnitOK, NEW c \in {"A", "W"}, NEW b \in 0 .. 1,
         NEW tile \in IF c = "A" THEN ATiles ELSE WTiles,
         Load(c, b, tile), UNCHANGED tseq
  PROVE  UnitOK'
<1>1. 0 \in ATiles /\ 0 \in WTiles /\ ATiles \subseteq Nat /\ WTiles \subseteq Nat
  BY EngineShapeAssumption DEF ATiles, WTiles
<1>2. CASE UNCHANGED <<ld, bufs>> /\ err' \in BOOLEAN
  BY <1>2 DEF UnitOK
<1>3. CASE /\ ld' = [busy |-> TRUE, client |-> c, buf |-> b, tile |-> tile]
           /\ bufs' = [bufs EXCEPT ![c][b] = <<0, 0>>] /\ UNCHANGED err
  <2>1. ld' \in [busy : BOOLEAN, client : {"A", "W"}, buf : 0 .. 1, tile : Nat]
    BY <1>1, <1>3
  <2>2. <<0, 0>> \in (0 .. MaxRuns) \X Nat
    BY EngineBoundsAssumption
  <2>3. bufs' \in [{"A", "W"} -> [0 .. 1 -> (0 .. MaxRuns) \X Nat]]
    BY <1>3, <2>2 DEF UnitOK
  <2>4. \A x \in 0 .. 1 : bufs'["A"][x] \in {bufs["A"][x], <<0, 0>>} /\ bufs'["W"][x] \in {bufs["W"][x], <<0, 0>>}
    BY <1>3 DEF UnitOK
  <2>5. \A x \in 0 .. 1 : bufs'["A"][x][2] \in ATiles /\ bufs'["W"][x][2] \in WTiles
    BY <2>4, <1>1 DEF UnitOK
  <2> QED BY <1>3, <2>1, <2>3, <2>5 DEF UnitOK
<1> QED BY <1>2, <1>3 DEF Load

\* A multiply command leaves the unit in its types.
LEMMA MultiplyTyped ==
  ASSUME UnitOK, NEW a \in 0 .. 1, NEW w \in 0 .. 1, NEW n \in Nat, Multiply(a, w, n),
         UNCHANGED <<ld, bufs>>
  PROVE  UnitOK'
<1>1. tseq' \in [left : Nat, ab : 0 .. 1, wb : 0 .. 1] /\ err' \in BOOLEAN
  <2> DEFINE named == IF Computing THEN tseq ELSE [left |-> 0, ab |-> a, wb |-> w]
  <2>1. named \in [left : Nat, ab : 0 .. 1, wb : 0 .. 1]
    BY DEF UnitOK
  <2>2. CASE MmClash(named.ab, named.wb)
    <3>1. err' = TRUE /\ tseq' = named
      BY <2>2 DEF Multiply
    <3> QED BY <2>1, <3>1
  <2>3. CASE ~MmClash(named.ab, named.wb)
    <3>1. tseq' = [named EXCEPT !.left = n] /\ err' = err
      BY <2>3 DEF Multiply
    <3> HIDE DEF named
    <3> QED BY <2>1, <3>1 DEF UnitOK
  <2> QED BY <2>2, <2>3
<1> QED BY <1>1 DEF UnitOK

\* Arming the drain leaves a descriptor that is a whole number of Puts.
LEMMA DrainTyped ==
  ASSUME StoreOK, NEW dst \in Seq(Cells), \E n \in Nat : Len(dst) = n * PerPut, ArmDrain(dst),
         UNCHANGED <<pipe, fifo, puts>>
  PROVE  StoreOK'
<1>1. DrainOK'
  BY DEF ArmDrain, StoreOK, DrainOK, PerPut
<1> QED BY <1>1 DEF StoreOK

\* Placing moves values of cells to cells.
LEMMA PlaceTyped ==
  ASSUME MemOK, placed \in 0 .. Total, NEW upto \in 0 .. Total, PlaceUpto(upto), UNCHANGED inp
  PROVE  MemOK' /\ placed' \in 0 .. Total
<1>1. mem \in [Cells -> Values] /\ Total \in Nat /\ BlockCells \in Nat
  BY Sizes, EngineShapeAssumption DEF MemOK
<1>2. \A j \in placed + 1 .. upto : <<j>> \in Cells
  BY <1>1 DEF Cells, Scratch
<1>3. mem' \in [Cells -> Values]
  BY <1>1, <1>2 DEF PlaceUpto
<1> QED BY <1>3 DEF MemOK, PlaceUpto

\* A part of the state nothing touches keeps its types.
LEMMA FrameTyped ==
  /\ UnitOK /\ UNCHANGED <<err, ld, bufs, tseq>> => UnitOK'
  /\ StoreOK /\ UNCHANGED <<pipe, fifo, drain, puts>> => StoreOK'
  /\ MemOK /\ UNCHANGED <<inp, mem>> => MemOK'
  /\ PlanOK /\ UNCHANGED plan => PlanOK'
BY DEF UnitOK, StoreOK, DrainOK, MemOK, PlanOK, plan, ArmsDrain, Strided, WOuter, Inner

\* Hart 1 enters a run.
LEMMA EnterTyped ==
  ASSUME PlanOK, Enter
  PROVE  PlanOK' /\ r' = r + 1 /\ r' \in 0 .. MaxRuns
BY Sizes, EngineBoundsAssumption DEF PlanOK, Enter, Steps

\* Every step of hart 1 keeps the types.
LEMMA Hart1Typed ==
  ASSUME Typed, BufferInv, Hart1
  PROVE  Typed'
<1> USE DEF At
<1>a. PlanOK /\ UnitOK /\ StoreOK /\ MemOK /\ k \in 1 .. Total /\ Total \in Nat \ {0}
  BY Sizes DEF Typed, PlanOK
<1>b. ATile(k) \in ATiles /\ WTile(k) \in WTiles
  BY <1>a, TilesOfPair
<1>c. Other(cab) \in 0 .. 1 /\ Other(cwb) \in 0 .. 1
  BY DEF Other
<1>1. CASE AwaitIdle \/ AwaitReady \/ NestDone
  <2>1. /\ pc # "idle" /\ pc' \in {"start", "arm", "mm", "pad", "end"}
        /\ UNCHANGED <<r, mode, k, aIn, wIn, cab, cwb, placed, rc>>
        /\ UNCHANGED <<err, ld, bufs, tseq, pipe, fifo, drain, puts, inp, mem>>
        /\ (pc' = "arm" => ArmsDrain(k))
    BY <1>1 DEF AwaitIdle, AwaitReady, NestDone, engine, store
  <2>2. PlanOK'
    BY <1>a, <2>1 DEF PlanOK, Steps, ArmsDrain, Strided, WOuter, Inner
  <2> QED BY <1>a, <2>1, <2>2, FrameTyped DEF Typed
<1>2. CASE Start
  <2>1. /\ pc = "start" /\ pc' = "act" /\ ~err' /\ err' = FALSE
        /\ UNCHANGED <<r, mode, k, aIn, wIn, cab, cwb, placed, rc>>
        /\ UNCHANGED <<ld, bufs, tseq, pipe, fifo, puts, inp, mem>>
        /\ (UNCHANGED drain \/ (~Strided /\ ArmDrain(FlatDst)))
    BY <1>2 DEF Start
  <2>2. PlanOK'
    BY <1>a, <2>1 DEF PlanOK, Steps
  <2>3. UnitOK'
    BY <1>a, <2>1 DEF UnitOK
  <2>4. StoreOK'
    BY <1>a, <2>1, FrameTyped, DrainTyped, Descriptors DEF PerPut
  <2> QED BY <1>a, <2>1, <2>2, <2>3, <2>4, FrameTyped DEF Typed
<1>3. CASE LoadAct
  <2>1. /\ pc = "act" /\ pc' = "wgt" /\ UNCHANGED <<r, mode, k, wIn, cab, cwb, placed, rc>>
        /\ UNCHANGED <<tseq, pipe, fifo, drain, puts, inp, mem>>
        /\ \/ /\ Load("A", Other(cab), ATile(k)) /\ aIn' = [aIn EXCEPT ![Other(cab)] = ATile(k)]
           \/ UNCHANGED <<err, ld, bufs, aIn>>
    BY <1>3 DEF LoadAct, store
  <2>2. PlanOK'
    BY <1>a, <1>b, <1>c, <2>1 DEF PlanOK, Steps
  <2>3. UnitOK'
    BY <1>a, <1>b, <1>c, <2>1, LoadTyped, FrameTyped
  <2> QED BY <1>a, <2>1, <2>2, <2>3, FrameTyped DEF Typed
<1>4. CASE LoadWgt
  <2>1. /\ pc = "wgt" /\ pc' = "ready" /\ UNCHANGED <<r, mode, k, aIn, cab, cwb, placed, rc>>
        /\ UNCHANGED <<tseq, pipe, fifo, drain, puts, inp, mem>>
        /\ \/ /\ Load("W", Other(cwb), WTile(k)) /\ wIn' = [wIn EXCEPT ![Other(cwb)] = WTile(k)]
           \/ UNCHANGED <<err, ld, bufs, wIn>>
    BY <1>4 DEF LoadWgt, store
  <2>2. PlanOK'
    BY <1>a, <1>b, <1>c, <2>1 DEF PlanOK, Steps
  <2>3. UnitOK'
    BY <1>a, <1>b, <1>c, <2>1, LoadTyped, FrameTyped
  <2> QED BY <1>a, <2>1, <2>2, <2>3, FrameTyped DEF Typed
<1>5. CASE ArmStrided
  <2>1. /\ pc = "arm" /\ pc' = "mm" /\ UNCHANGED <<r, mode, k, aIn, wIn, cab, cwb, placed, rc>>
        /\ UNCHANGED <<err, ld, bufs, tseq, pipe, fifo, puts, inp, mem>> /\ ArmDrain(StridedDst(k))
    BY <1>5 DEF ArmStrided, engine
  <2>2. PlanOK'
    BY <1>a, <2>1 DEF PlanOK, Steps
  <2>3. StoreOK'
    <3>1. PerPut = 1
      BY <1>a, <2>1 DEF PlanOK, ArmsDrain, PerPut
    <3>2. \E n \in Nat : Len(StridedDst(k)) = n * PerPut
      <4>1. Len(StridedDst(k)) \in Nat /\ Len(StridedDst(k)) = Len(StridedDst(k)) * PerPut
        BY <1>a, <3>1, RowDescriptors, EngineShapeAssumption
      <4> QED BY <4>1
    <3> QED BY <1>a, <2>1, <3>2, RowDescriptors, DrainTyped
  <2> QED BY <1>a, <2>1, <2>2, <2>3, FrameTyped DEF Typed
<1>6. CASE Compute
  <2>1. /\ pc = "mm" /\ pc' = "pre" /\ UNCHANGED <<r, mode, k, aIn, wIn, placed, rc>>
        /\ UNCHANGED <<ld, bufs, pipe, fifo, drain, puts, inp, mem>>
        /\ Multiply(cab', cwb', 1) /\ cab' \in 0 .. 1 /\ cwb' \in 0 .. 1
    BY <1>6 DEF Compute, Find, store
  <2>2. PlanOK'
    BY <1>a, <2>1 DEF PlanOK, Steps
  <2>3. UnitOK'
    BY <1>a, <2>1, MultiplyTyped
  <2> QED BY <1>a, <2>1, <2>2, <2>3, FrameTyped DEF Typed
<1>7. CASE Preload
  <2>1. /\ pc = "pre" /\ pc' = "act" /\ k < Total /\ k' = k + 1
        /\ UNCHANGED <<r, mode, cab, cwb, placed, rc>>
        /\ UNCHANGED <<tseq, pipe, fifo, drain, puts, inp, mem>>
        /\ \/ /\ Load("A", Other(cab), ATile(k + 1)) /\ aIn' = [aIn EXCEPT ![Other(cab)] = ATile(k + 1)]
              /\ UNCHANGED wIn
           \/ /\ Load("W", Other(cwb), WTile(k + 1)) /\ wIn' = [wIn EXCEPT ![Other(cwb)] = WTile(k + 1)]
              /\ UNCHANGED aIn
           \/ UNCHANGED <<err, ld, bufs, aIn, wIn>>
    BY <1>7 DEF Preload, store
  <2>2. k + 1 \in 1 .. Total
    BY <1>a, <2>1
  <2>3. ATile(k + 1) \in ATiles /\ WTile(k + 1) \in WTiles
    BY <2>2, TilesOfPair
  <2>4. PlanOK'
    BY <1>a, <1>c, <2>1, <2>2, <2>3 DEF PlanOK, Steps
  <2>5. UnitOK'
    BY <1>a, <1>c, <2>1, <2>3, LoadTyped, FrameTyped
  <2> QED BY <1>a, <2>1, <2>4, <2>5, FrameTyped DEF Typed
<1>8. CASE PadTile
  <2>1. /\ pc = "pad" /\ pc' = "end" /\ UNCHANGED <<r, mode, k, aIn, wIn, cab, cwb, placed, rc>>
        /\ UNCHANGED <<ld, bufs, pipe, fifo, drain, puts, inp, mem>> /\ Multiply(cab, cwb, Pad)
    BY <1>8 DEF PadTile, store
  <2>2. PlanOK'
    BY <1>a, <2>1 DEF PlanOK, Steps
  <2>3. UnitOK'
    BY <1>a, <2>1, MultiplyTyped, Sizes DEF BufferInv, Chosen
  <2> QED BY <1>a, <2>1, <2>2, <2>3, FrameTyped DEF Typed
<1>9. CASE Finish \/ TimeOut
  <2>1. /\ pc # "idle" /\ pc' \in {"idle", "software", "late"}
        /\ rc' \in {rc, "OK", "HW", "TIMEOUT"} /\ UNCHANGED <<r, mode, k, aIn, wIn, cab, cwb, placed>>
        /\ UNCHANGED <<err, ld, bufs, tseq, pipe, fifo, drain, puts, inp, mem>>
    BY <1>9 DEF Finish, TimeOut, Return, engine, store, Masked
  <2>2. PlanOK'
    BY <1>a, <2>1 DEF PlanOK, Steps
  <2> QED BY <1>a, <2>1, <2>2, FrameTyped DEF Typed
<1>10. CASE PlaceEarly
  <2> DEFINE lim == IF Acked * BlockCells < Total THEN Acked * BlockCells ELSE Total
             upto == IF lim > placed + Slice THEN placed + Slice ELSE lim
  <2>1. /\ UNCHANGED <<pc, r, mode, k, aIn, wIn, cab, cwb, rc>> /\ lim > placed /\ PlaceUpto(upto)
        /\ UNCHANGED <<err, ld, bufs, tseq, pipe, fifo, drain, puts, inp>>
    BY <1>10 DEF PlaceEarly, engine, store
  <2>2. upto \in 0 .. Total
    <3>1. Acked \in Nat /\ BlockCells \in Nat /\ Slice \in Nat /\ placed \in Nat
      BY <1>a, Watermark, EngineShapeAssumption DEF PlanOK
    <3>2. Acked * BlockCells \in Nat
      BY <3>1
    <3>3. lim \in 0 .. Total
      BY <3>2, <1>a
    <3> QED BY <3>1, <3>3, <1>a
  <2>3. MemOK' /\ placed' \in 0 .. Total
    <3>1. placed \in 0 .. Total
      BY <1>a DEF PlanOK
    <3> HIDE DEF upto
    <3> QED BY <1>a, <2>1, <2>2, <3>1, PlaceTyped
  <2>4. PlanOK'
    BY <1>a, <2>1, <2>3 DEF PlanOK, ArmsDrain, Strided, WOuter, Inner
  <2> QED BY <1>a, <2>1, <2>3, <2>4, FrameTyped DEF Typed
<1>11. CASE PlaceLate
  <2>1. /\ UNCHANGED <<r, mode, k, aIn, wIn, cab, cwb>> /\ PlaceUpto(Total) /\ rc' = "OK" /\ pc' = "idle"
        /\ UNCHANGED <<err, ld, bufs, tseq, pipe, fifo, drain, puts, inp>>
    BY <1>11 DEF PlaceLate, Return, engine, store
  <2>2. MemOK' /\ placed' \in 0 .. Total
    <3>1. placed \in 0 .. Total /\ Total \in 0 .. Total
      BY <1>a DEF PlanOK
    <3> QED BY <1>a, <2>1, <3>1, PlaceTyped
  <2>3. PlanOK'
    BY <1>a, <2>1, <2>2 DEF PlanOK, Steps
  <2> QED BY <1>a, <2>1, <2>2, <2>3, FrameTyped DEF Typed
<1>12. CASE Software
  <2>1. /\ pc = "software" /\ pc' = "idle" /\ UNCHANGED <<r, mode, k, aIn, wIn, cab, cwb, placed, rc>>
        /\ mem' = [x \in DOMAIN mem |-> IF x \in Output THEN Right(r, x) ELSE mem[x]]
        /\ UNCHANGED <<err, ld, bufs, tseq, pipe, fifo, drain, puts, inp>>
    BY <1>12 DEF Software, engine, store
  <2>2. r \in 1 .. MaxRuns
    BY <1>a, <2>1 DEF PlanOK
  <2>3. \A x \in Output : Right(r, x) \in Values
    BY <2>2 DEF Right, Output, Values
  <2>4. MemOK'
    BY <1>a, <2>1, <2>3 DEF MemOK
  <2>5. PlanOK'
    BY <1>a, <2>1 DEF PlanOK, Steps
  <2> QED BY <1>a, <2>1, <2>4, <2>5, FrameTyped DEF Typed
<1> QED BY <1>1, <1>2, <1>3, <1>4, <1>5, <1>6, <1>7, <1>8, <1>9, <1>10, <1>11, <1>12 DEF Hart1
\* A Put takes as many cells as the descriptor says from both queues: there are
\* that many destinations left whenever there is one.
LEMMA PutTaken ==
  ASSUME StoreOK, CanPut
  PROVE  /\ drain.per \in 1 .. Len(fifo) /\ drain.per \in 1 .. Len(drain.dst)
         /\ \E n \in Nat : Len(drain.dst) - drain.per = n * drain.per
<1>1. /\ drain.per \in Nat \ {0} /\ drain.dst \in Seq(Cells) /\ fifo \in Seq(Values)
  BY EngineShapeAssumption DEF StoreOK, DrainOK
<1>2. PICK n \in Nat : Len(drain.dst) = n * drain.per
  BY DEF StoreOK, DrainOK
<1>3. Len(drain.dst) \in Nat \ {0}
  BY <1>1 DEF CanPut
<1>4. n # 0
  BY <1>1, <1>2, <1>3
<1>5. n - 1 \in Nat /\ n * drain.per = ((n - 1) * drain.per) + drain.per /\ (n - 1) * drain.per \in Nat
  BY <1>1, <1>4
<1>6. Len(drain.dst) - drain.per = (n - 1) * drain.per /\ drain.per <= Len(drain.dst)
  BY <1>1, <1>2, <1>5
<1>7. drain.per <= Len(fifo) /\ Len(fifo) \in Nat
  BY <1>1 DEF CanPut
<1> QED BY <1>1, <1>3, <1>5, <1>6, <1>7

\* What the sequencer computes is a value of a cell.
LEMMA ResultTyped ==
  ASSUME UnitOK
  PROVE  Result \in Values
<1> DEFINE a == bufs["A"][tseq.ab] w == bufs["W"][tseq.wb]
<1>1. /\ a \in (0 .. MaxRuns) \X Nat /\ w \in (0 .. MaxRuns) \X Nat
      /\ a[2] \in ATiles /\ w[2] \in WTiles
  BY DEF UnitOK
<1>2. a[1] \in 0 .. MaxRuns
  BY <1>1
<1>3. Result = IF a[1] = w[1] /\ a[1] > 0 THEN <<a[1], a[2], w[2]>> ELSE Junk
  BY DEF Result
<1> HIDE DEF a, w
<1> QED BY <1>1, <1>2, <1>3, EngineBoundsAssumption DEF Values, Junk

\* Every step of the engine keeps the types: the FIFO never takes more than it
\* has room for, and a Put never runs past its descriptor.
LEMMA UnitTyped ==
  ASSUME Typed, Unit
  PROVE  Typed'
<1>a. PlanOK /\ UnitOK /\ StoreOK /\ MemOK
  BY DEF Typed
<1>1. CASE FillDone
  <2>1. /\ UNCHANGED <<tseq, pipe, fifo, drain, puts, inp, mem>> /\ UNCHANGED plan
        /\ ld' = [ld EXCEPT !.busy = FALSE] /\ err' \in {err, TRUE}
        /\ \/ UNCHANGED bufs
           \/ bufs' = [bufs EXCEPT ![ld.client][ld.buf] =
                         <<IF ld.client = "A" THEN inp[ld.tile] ELSE r, ld.tile>>]
    BY <1>1 DEF FillDone, store
  <2>2. /\ ld.client \in {"A", "W"} /\ ld.buf \in 0 .. 1 /\ ld.tile \in Nat
        /\ ld.tile \in IF ld.client = "A" THEN ATiles ELSE WTiles
    BY <1>a DEF UnitOK
  <2> DEFINE got == <<IF ld.client = "A" THEN inp[ld.tile] ELSE r, ld.tile>>
  <2>3. got \in (0 .. MaxRuns) \X Nat /\ got[2] = ld.tile
    BY <1>a, <2>2 DEF MemOK, PlanOK
  <2>3a. err' \in BOOLEAN /\ tseq' \in [left : Nat, ab : 0 .. 1, wb : 0 .. 1]
    <3>1. err' \in {err, TRUE} /\ tseq' = tseq
      BY <2>1
    <3> QED BY <1>a, <3>1 DEF UnitOK
  <2>3b. /\ ld' \in [busy : BOOLEAN, client : {"A", "W"}, buf : 0 .. 1, tile : Nat]
         /\ ld'.tile = ld.tile /\ ld'.client = ld.client
    <3>1. ld \in [busy : BOOLEAN, client : {"A", "W"}, buf : 0 .. 1, tile : Nat]
      BY <1>a DEF UnitOK
    <3>2. ld' = [ld EXCEPT !.busy = FALSE]
      BY <2>1
    <3> QED BY <3>1, <3>2
  <2>4. ASSUME UNCHANGED bufs PROVE UnitOK'
    <3>1. /\ bufs' \in [{"A", "W"} -> [0 .. 1 -> (0 .. MaxRuns) \X Nat]]
          /\ \A b \in 0 .. 1 : bufs'["A"][b][2] \in ATiles /\ bufs'["W"][b][2] \in WTiles
      BY <1>a, <2>4 DEF UnitOK
    <3> QED BY <2>2, <2>3a, <2>3b, <3>1 DEF UnitOK
  <2>5. ASSUME bufs' = [bufs EXCEPT ![ld.client][ld.buf] = got] PROVE UnitOK'
    <3> HIDE DEF got
    <3>1. bufs' \in [{"A", "W"} -> [0 .. 1 -> (0 .. MaxRuns) \X Nat]]
      BY <1>a, <2>2, <2>3, <2>5 DEF UnitOK
    <3>2. \A c \in {"A", "W"}, b \in 0 .. 1 : bufs'[c][b] = IF c = ld.client /\ b = ld.buf THEN got ELSE bufs[c][b]
      BY <1>a, <2>2, <2>5 DEF UnitOK
    <3>3. \A b \in 0 .. 1 : bufs'["A"][b][2] \in ATiles /\ bufs'["W"][b][2] \in WTiles
      BY <1>a, <2>2, <2>3, <3>2 DEF UnitOK
    <3> QED BY <2>2, <2>3a, <2>3b, <3>1, <3>3 DEF UnitOK
  <2>6. UnitOK'
    BY <2>1, <2>4, <2>5
  <2> QED BY <1>a, <2>1, <2>6, FrameTyped DEF Typed
<1>2. CASE Emit
  <2>1. /\ UNCHANGED <<err, ld, bufs, fifo, drain, puts, inp, mem>> /\ UNCHANGED plan
        /\ tseq' = [tseq EXCEPT !.left = tseq.left - 1] /\ pipe' = <<Result>>
        /\ tseq.left > 0 /\ Len(fifo) < FifoCells
    BY <1>2 DEF Emit, store, CanEmit, Computing
  <2>2. UnitOK'
    BY SMTT(30), <1>a, <2>1 DEF UnitOK
  <2>3. StoreOK'
    <3>1. Len(fifo) \in Nat /\ pipe' \in Seq(Values) /\ Len(pipe') = 1
      BY <1>a, <2>1, ResultTyped DEF StoreOK
    <3> QED BY <1>a, <2>1, <3>1, EngineBoundsAssumption DEF StoreOK, DrainOK
  <2> QED BY <1>a, <2>1, <2>2, <2>3, FrameTyped DEF Typed
<1>3. CASE Pack
  <2>1. /\ UNCHANGED <<err, ld, bufs, tseq, drain, puts, inp, mem>> /\ UNCHANGED plan
        /\ fifo' = fifo \o pipe /\ pipe' = << >>
    BY <1>3 DEF Pack
  <2>2. StoreOK'
    <3>1. fifo' \in Seq(Values) /\ Len(fifo') = Len(fifo) + Len(pipe)
      BY <1>a, <2>1, Joined DEF StoreOK
    <3>2. pipe' \in Seq(Values) /\ Len(pipe') = 0
      BY <2>1
    <3> QED BY <1>a, <2>1, <3>1, <3>2, EngineBoundsAssumption DEF StoreOK, DrainOK
  <2> QED BY <1>a, <2>1, <2>2, FrameTyped DEF Typed
<1>4. CASE StartPut
  <2>1. PICK lost \in BOOLEAN :
          puts' = puts \cup {[dst |-> SubSeq(drain.dst, 1, drain.per), lost |-> lost,
                              val |-> SubSeq(fifo, 1, drain.per), i |-> drain.issued]}
    BY <1>4 DEF StartPut
  <2>2. /\ CanPut /\ fifo' = SubSeq(fifo, drain.per + 1, Len(fifo))
        /\ drain' = [drain EXCEPT !.dst = SubSeq(drain.dst, drain.per + 1, Len(drain.dst)),
                                  !.issued = drain.issued + 1]
        /\ UNCHANGED <<err, ld, bufs, tseq, pipe, inp, mem>> /\ UNCHANGED plan
    BY <1>4 DEF StartPut, engine
  <2>3. /\ drain.per \in 1 .. Len(fifo) /\ drain.per \in 1 .. Len(drain.dst)
        /\ drain.dst \in Seq(Cells) /\ fifo \in Seq(Values) /\ drain.issued \in Nat
        /\ Len(fifo) \in Nat /\ Len(drain.dst) \in Nat /\ Len(pipe) \in Nat
        /\ drain.per \in 0 .. Len(fifo) /\ drain.per \in 0 .. Len(drain.dst)
    BY SMTT(30), <1>a, <2>2, PutTaken DEF StoreOK, DrainOK
  <2> DEFINE p == [dst |-> SubSeq(drain.dst, 1, drain.per), lost |-> lost,
                   val |-> SubSeq(fifo, 1, drain.per), i |-> drain.issued]
  <2>4. /\ fifo' \in Seq(Values) /\ Len(fifo') = Len(fifo) - drain.per
        /\ SubSeq(fifo, 1, drain.per) \in Seq(Values) /\ Len(SubSeq(fifo, 1, drain.per)) = drain.per
    BY <2>2, <2>3, Halves
  <2>4a. drain'.dst = SubSeq(drain.dst, drain.per + 1, Len(drain.dst)) /\ drain'.per = drain.per
    BY <1>a, <2>2 DEF StoreOK, DrainOK
  <2>5. /\ drain'.dst \in Seq(Cells) /\ Len(drain'.dst) = Len(drain.dst) - drain.per
        /\ SubSeq(drain.dst, 1, drain.per) \in Seq(Cells)
        /\ Len(SubSeq(drain.dst, 1, drain.per)) = drain.per
    <3>1. drain.dst \in Seq(Cells) /\ drain.per \in 0 .. Len(drain.dst)
      BY <2>3
    <3>2. /\ SubSeq(drain.dst, drain.per + 1, Len(drain.dst)) \in Seq(Cells)
          /\ Len(SubSeq(drain.dst, drain.per + 1, Len(drain.dst))) = Len(drain.dst) - drain.per
          /\ SubSeq(drain.dst, 1, drain.per) \in Seq(Cells)
          /\ Len(SubSeq(drain.dst, 1, drain.per)) = drain.per
      BY <3>1, Halves
    <3> QED BY <2>4a, <3>2
  <2>6. p \in PutSet
    <3>1. p \in [dst : Seq(Cells), lost : BOOLEAN, val : Seq(Values), i : Nat]
      BY <2>3, <2>4, <2>5
    <3>2. Len(p.val) = Len(p.dst)
      BY <2>4, <2>5
    <3> HIDE DEF p
    <3> QED BY <3>1, <3>2 DEF PutSet
  <2>7. DrainOK'
    <3>1. drain' \in [dst : Seq(Cells), per : {1, BlockCells}, issued : Nat]
      <4>1. drain \in [dst : Seq(Cells), per : {1, BlockCells}, issued : Nat]
        BY <1>a DEF StoreOK, DrainOK
      <4> DEFINE rest == SubSeq(drain.dst, drain.per + 1, Len(drain.dst))
      <4>2. rest \in Seq(Cells) /\ drain.issued + 1 \in Nat
        BY <2>3, <2>4a, <2>5
      <4>3. drain' = [drain EXCEPT !.dst = rest, !.issued = drain.issued + 1]
        BY <2>2
      <4> HIDE DEF rest
      <4> QED BY <4>1, <4>2, <4>3
    <3>2. \E n \in Nat : Len(drain'.dst) = n * drain'.per
      BY <1>a, <2>2, <2>4a, <2>5, PutTaken
    <3> QED BY <3>1, <3>2 DEF DrainOK
  <2>8. /\ puts' \subseteq PutSet /\ IsFiniteSet(puts') /\ Cardinality(puts') <= Depth
    <3>1. puts' = puts \cup {p}
      BY <2>1
    <3>2. IsFiniteSet(puts) /\ Cardinality(puts) \in Nat /\ Cardinality(puts) < Depth
      BY <1>a, <2>2, FS_CardinalityType DEF StoreOK, CanPut
    <3> HIDE DEF p
    <3>3. IsFiniteSet(puts') /\ Cardinality(puts') <= Cardinality(puts) + 1
      BY <3>1, <3>2, FS_AddElement
    <3>4. Cardinality(puts') \in Nat /\ Depth \in Nat
      BY <3>3, FS_CardinalityType, EngineBoundsAssumption
    <3>5. Cardinality(puts') <= Depth
      BY <3>2, <3>3, <3>4
    <3>6. puts' \subseteq PutSet
      BY <1>a, <2>6, <3>1 DEF StoreOK
    <3> QED BY <3>3, <3>5, <3>6
  <2>9. StoreOK'
    <3>1. pipe' = pipe /\ Len(fifo') + Len(pipe') <= FifoCells
      BY SMTT(30), <1>a, <2>2, <2>3, <2>4, EngineBoundsAssumption DEF StoreOK
    <3> QED BY <1>a, <2>4, <2>7, <2>8, <3>1 DEF StoreOK
  <2> QED BY <1>a, <2>2, <2>9, FrameTyped DEF Typed
<1>5. CASE Ack
  <2>1. PICK p \in Answered :
          /\ puts' = puts \ {p}
          /\ (mem' = Lands(p) /\ UNCHANGED err) \/ (err' = TRUE /\ UNCHANGED mem)
    BY <1>5 DEF Ack
  <2>2. UNCHANGED plan /\ UNCHANGED <<ld, bufs, tseq, pipe, fifo, drain, inp>>
    BY <1>5 DEF Ack
  <2>3. p \in puts /\ p \in PutSet
    BY <1>a DEF Answered, StoreOK
  <2>4. /\ puts' \subseteq PutSet /\ IsFiniteSet(puts') /\ Cardinality(puts') <= Depth
    <3>1. IsFiniteSet(puts) /\ Cardinality(puts) \in Nat /\ Cardinality(puts) <= Depth /\ Depth \in Nat
      BY <1>a, FS_CardinalityType, EngineBoundsAssumption DEF StoreOK
    <3>2. IsFiniteSet(puts') /\ Cardinality(puts') = Cardinality(puts) - 1
      BY <2>1, <2>3, <3>1, FS_RemoveElement
    <3>3. puts' \subseteq PutSet
      BY <1>a, <2>1 DEF StoreOK
    <3> QED BY <3>1, <3>2, <3>3
  <2>5. StoreOK'
    BY <1>a, <2>2, <2>4 DEF StoreOK, DrainOK
  <2>6. UnitOK'
    BY <1>a, <2>1, <2>2 DEF UnitOK
  <2>7. Lands(p) \in [Cells -> Values]
    <3>1. /\ p.dst \in Seq(Cells) /\ p.val \in Seq(Values) /\ Len(p.val) = Len(p.dst)
          /\ DOMAIN mem = Cells /\ \A x \in Cells : mem[x] \in Values
      BY <1>a, <2>3 DEF PutSet, MemOK
    <3>2. \A i \in DOMAIN p.dst : p.val[i] \in Values
      BY <3>1
    <3> QED BY <3>1, <3>2 DEF Lands
  <2>8. MemOK'
    BY <1>a, <2>1, <2>2, <2>7 DEF MemOK
  <2> QED BY <1>a, <2>2, <2>5, <2>6, <2>8, FrameTyped DEF Typed
<1> QED BY <1>1, <1>2, <1>3, <1>4, <1>5 DEF Unit

\* The types hold at the start.
LEMMA TypedInitially == Init => Typed
<1> SUFFICES ASSUME Init PROVE Typed
  OBVIOUS
<1> USE DEF Init
<1>1. 0 \in ATiles /\ 0 \in WTiles /\ 1 \in 1 .. Total /\ 0 \in 0 .. MaxRuns
  BY Sizes, EngineShapeAssumption, EngineBoundsAssumption DEF ATiles, WTiles
<1>2. PlanOK
  BY <1>1, Sizes DEF PlanOK, Steps
<1>3. UnitOK
  BY <1>1, SMTT(30) DEF UnitOK
<1>4. StoreOK
  <2>1. << >> \in Seq(Cells) /\ << >> \in Seq(Values) /\ Len(<< >>) = 0
    OBVIOUS
  <2>2. IsFiniteSet({}) /\ Cardinality({}) = 0
    BY FS_EmptySet
  <2>3. DrainOK
    BY <2>1 DEF DrainOK
  <2> QED BY <2>1, <2>2, <2>3, EngineBoundsAssumption DEF StoreOK
<1>5. MemOK
  BY <1>1 DEF MemOK, Cells, Values, Junk
<1> QED BY <1>2, <1>3, <1>4, <1>5 DEF Typed

\* The whole input is staged for the run that begins.
LEMMA BeginTyped ==
  ASSUME Typed, Begin
  PROVE  Typed'
<1>1. Enter /\ UNCHANGED engine /\ UNCHANGED store /\ UNCHANGED mem
      /\ inp' = [a \in ATiles |-> r + 1]
  BY DEF Begin
<1>2. PlanOK' /\ r + 1 \in 0 .. MaxRuns
  BY <1>1, EnterTyped DEF Typed
<1>3. MemOK'
  BY <1>1, <1>2 DEF MemOK, Typed
<1> QED BY <1>1, <1>2, <1>3, FrameTyped DEF Typed, engine, store

\* Every variable keeps its type, whatever the poll limit and the faults: in
\* particular the FIFO never overflows and a Put never runs past its descriptor.
THEOREM TypeCorrect == Spec => []TypeOK
<1> DEFINE Inv == Typed /\ BufferInv
<1>1. Init => Inv
  BY TypedInitially, Initially
<1>2. Inv /\ [Next]_vars => Inv'
  <2> SUFFICES ASSUME Inv, [Next]_vars PROVE Inv'
    OBVIOUS
  <2>0. k \in 1 .. Total
    BY DEF Typed, PlanOK
  <2>1. CASE Begin
    BY <2>1, BeginTyped, Entering DEF Begin
  <2>2. CASE Hart1
    BY <2>0, <2>2, Hart1Keeps, Hart1Typed
  <2>3. CASE Unit
    BY <2>3, UnitKeeps, UnitTyped
  <2>4. CASE UNCHANGED vars
    <3>1. UNCHANGED <<pc, ld, tseq, cab, cwb>>
      BY <2>4 DEF vars, plan, engine
    <3> QED BY <2>4, <3>1, NoCommand, FrameTyped DEF Typed, vars, engine, store
  <2> QED BY <2>1, <2>2, <2>3, <2>4 DEF Next, Poll, Finished
<1>3. Inv => TypeOK
  BY TypedIsTypeOK
<1> QED BY <1>1, <1>2, <1>3, PTL DEF Spec
-----------------------------------------------------------------------------
(* COUNTING: what the drain was armed for is what is on its way to it and    *)
(* what the run has still to send it.                                        *)

Col == (k - 1) % TilesA

Owed ==
  IF pc \notin {"act", "wgt", "ready", "arm", "mm", "pre", "pad"} THEN 0
  ELSE IF ~Strided THEN IF pc = "pad" THEN Pad
                        ELSE IF pc = "pre" THEN Total - k + Pad ELSE Total - k + 1 + Pad
  ELSE IF ~WOuter THEN IF pc = "mm" THEN 1 ELSE 0
  ELSE IF pc = "pre" THEN TilesA - 1 - Col
  ELSE IF Col = 0 /\ pc # "mm" THEN 0 ELSE TilesA - Col

InMotion == Len(fifo) + Len(pipe) + tseq.left

Balance == /\ Running => Len(drain.dst) = InMotion + Owed
           /\ ~Running => Len(drain.dst) >= InMotion
Nest    == /\ pc \in {"busy", "start"} => k = 1
           /\ pc \in {"pad", "late"} => ~Strided
Quiet   == pc \in {"start", "late"} => ~Busy
CountInv == Balance /\ Nest /\ Quiet

\* Division with remainder is unique.
LEMMA Quotient ==
  ASSUME NEW n \in Nat \ {0}, NEW q \in Int, NEW x \in 0 .. n - 1, NEW i \in Int, i = (n * q) + x
  PROVE  i % n = x /\ i \div n = q
<1>1. PICK p \in Int, y \in 0 .. n - 1 : i = (n * p) + y /\ i % n = y /\ i \div n = p
  <2>1. i \div n \in Int /\ i % n \in 0 .. n - 1 /\ i = (n * (i \div n)) + (i % n)
    OBVIOUS
  <2> QED BY <2>1
<1>2. ASSUME q > p PROVE FALSE
  <2>1. q - p - 1 \in Nat /\ q = p + 1 + (q - p - 1)
    BY <1>2
  <2>2. PICK d \in Nat : q = p + 1 + d
    BY <2>1
  <2>3. n * q = (n * p) + n + (n * d) /\ n * d \in Nat /\ n * p \in Int
    BY <2>2
  <2> QED BY <1>1, <2>3
<1>3. ASSUME p > q PROVE FALSE
  <2>1. p - q - 1 \in Nat /\ p = q + 1 + (p - q - 1)
    BY <1>3
  <2>2. PICK d \in Nat : p = q + 1 + d
    BY <2>1
  <2>3. n * p = (n * q) + n + (n * d) /\ n * d \in Nat /\ n * q \in Int
    BY <2>2
  <2> QED BY <1>1, <2>3
<1>4. p = q
  BY <1>2, <1>3
<1> QED BY <1>1, <1>4

\* In particular the remainder is.
LEMMA Remainder ==
  ASSUME NEW n \in Nat \ {0}, NEW q \in Int, NEW x \in 0 .. n - 1, NEW i \in Int, i = (n * q) + x
  PROVE  i % n = x
BY Quotient

\* The next pair is in the next column, or in the first of the next row.
LEMMA NextColumn ==
  ASSUME NEW n \in Nat \ {0}, NEW i \in Nat
  PROVE  i % n \in 0 .. n - 1 /\ (i + 1) % n = IF i % n = n - 1 THEN 0 ELSE (i % n) + 1
<1>1. i \div n \in Int /\ i % n \in 0 .. n - 1 /\ i = (n * (i \div n)) + (i % n)
  OBVIOUS
<1>2. PICK q \in Int, x \in 0 .. n - 1 : i = (n * q) + x /\ i % n = x
  BY <1>1
<1>3. CASE x = n - 1
  <2>1. i + 1 = (n * (q + 1)) + 0
    BY <1>2, <1>3
  <2> QED BY <1>2, <1>3, <2>1, Remainder
<1>4. CASE x # n - 1
  <2>1. i + 1 = (n * q) + (x + 1) /\ x + 1 \in 0 .. n - 1
    BY <1>2, <1>4
  <2> QED BY <1>2, <1>4, <2>1, Remainder
<1> QED BY <1>3, <1>4, <1>2

\* The last pair is in the last column.
LEMMA LastColumn == (Total - 1) % TilesA = TilesA - 1
<1>1. TilesA \in Nat \ {0} /\ TilesW \in Nat \ {0}
  BY EngineShapeAssumption
<1>2. Total - 1 = (TilesA * (TilesW - 1)) + (TilesA - 1)
  BY <1>1 DEF Total
<1> QED BY <1>1, <1>2, Remainder, Sizes

\* The quantities counted are numbers.
LEMMA Counts ==
  ASSUME Typed
  PROVE  /\ Len(drain.dst) \in Nat /\ Len(fifo) \in Nat /\ Len(pipe) \in Nat /\ tseq.left \in Nat
         /\ InMotion \in Nat /\ Owed \in Nat /\ Col \in 0 .. TilesA - 1
         /\ (drain.dst = << >> <=> Len(drain.dst) = 0) /\ (pipe = << >> <=> Len(pipe) = 0)
<1>1. k \in 1 .. Total /\ TilesA \in Nat \ {0} /\ Total \in Nat /\ Pad \in Nat
  BY Sizes, EngineShapeAssumption DEF Typed, PlanOK
<1>2. Col \in 0 .. TilesA - 1
  <2>1. k - 1 \in Nat
    BY <1>1
  <2> QED BY <1>1, <2>1, NextColumn DEF Col
<1>3. /\ drain.dst \in Seq(Cells) /\ fifo \in Seq(Values) /\ pipe \in Seq(Values) /\ tseq.left \in Nat
  BY DEF Typed, StoreOK, DrainOK, UnitOK
<1>4. /\ Len(drain.dst) \in Nat /\ Len(fifo) \in Nat /\ Len(pipe) \in Nat
      /\ (drain.dst = << >> <=> Len(drain.dst) = 0) /\ (pipe = << >> <=> Len(pipe) = 0)
  BY <1>3
<1>5. Owed \in Nat
  BY <1>1, <1>2 DEF Owed
<1> QED BY <1>2, <1>3, <1>4, <1>5 DEF InMotion

\* A step that sends nothing and owes as much as before keeps the count.
LEMMA CountFrame ==
  ASSUME CountInv, Typed, UNCHANGED <<ld, tseq, pipe, fifo, drain, puts>>,
         \/ Running' /\ Running /\ Owed' = Owed /\ pc' # "start" /\ (pc' = "late" => ~Busy)
         \/ ~Running',
         Nest'
  PROVE  CountInv'
<1>1. InMotion' = InMotion /\ Len(drain'.dst) = Len(drain.dst)
  BY DEF InMotion
<1>2. Len(drain.dst) >= InMotion
  BY Counts DEF CountInv, Balance
<1>3. Balance'
  BY <1>1, <1>2 DEF CountInv, Balance
<1>4. Busy' <=> Busy
  BY DEF Busy, Filling, Computing, Draining, InPipe
<1>5. Quiet'
  BY <1>4 DEF Quiet, Running
<1> QED BY <1>3, <1>5 DEF CountInv

\* A run begins with nothing owed.
LEMMA EnterCounts ==
  ASSUME CountInv, Typed, Enter, UNCHANGED engine, UNCHANGED store
  PROVE  CountInv'
<1>1. UNCHANGED <<ld, tseq, pipe, fifo, drain, puts>> /\ ~Running' /\ Nest'
  BY DEF Enter, engine, store, Running, Nest
<1> QED BY <1>1, CountFrame

\* Every step of hart 1 keeps the count: what it sends it owed, and what it arms
\* the drain for it will owe.
LEMMA Hart1Counts ==
  ASSUME CountInv, Typed, BufferInv, Hart1
  PROVE  CountInv'
<1> USE DEF At
<1> DEFINE Same == UNCHANGED <<ld, tseq, pipe, fifo, drain, puts>>
<1>a. k \in 1 .. Total /\ Total \in Nat \ {0} /\ TilesA \in Nat \ {0} /\ Pad \in Nat /\ mode \in Modes
  BY Sizes, EngineShapeAssumption DEF Typed, PlanOK
<1>1. CASE AwaitIdle
  <2>1. /\ pc = "busy" /\ pc' = "start" /\ ~Busy /\ Same /\ k' = k
    BY <1>1 DEF AwaitIdle, Masked, engine, store
  <2>2. Nest' /\ Quiet'
    BY <2>1 DEF CountInv, Nest, Quiet, Busy, Filling, Computing, Draining, InPipe
  <2>3. Len(drain.dst) >= InMotion /\ Len(drain.dst) = 0
    BY <2>1, Counts DEF CountInv, Balance, Running, Busy, Draining
  <2>4. InMotion' = InMotion /\ Owed' = 0 /\ Len(drain'.dst) = Len(drain.dst)
    BY <2>1 DEF InMotion, Owed
  <2> QED BY <2>1, <2>2, <2>3, <2>4, Counts DEF CountInv, Balance, Running
<1>2. CASE Start
  <2>1. /\ pc = "start" /\ pc' = "act" /\ k' = k /\ k = 1 /\ mode' = mode
        /\ UNCHANGED <<ld, tseq, pipe, fifo, puts>> /\ ~Draining
        /\ (Strided => drain' = drain) /\ (~Strided => ArmDrain(FlatDst))
    BY <1>2 DEF Start, CountInv, Nest, Quiet, Busy
  <2>2. InMotion' = InMotion /\ InMotion = 0 /\ Len(drain.dst) = 0
    BY <2>1, Counts DEF InMotion, CountInv, Balance, Running, Owed, Draining
  <2>3. CASE Strided
    <3>1. Owed' = 0
      <4>1. Col' = 0
        BY <1>a, <2>1 DEF Col
      <4> QED BY <2>1, <2>3, <4>1 DEF Owed, Strided, WOuter
    <3> QED BY <2>1, <2>2, <2>3, <3>1 DEF CountInv, Balance, Running, Nest, Quiet
  <2>4. CASE ~Strided
    <3>1. Owed' = Total + Pad
      BY <1>a, <2>1, <2>4 DEF Owed, Strided, Pad
    <3>2. Len(drain'.dst) = Total + Pad
      BY <2>1, <2>4, Descriptors DEF ArmDrain
    <3> QED BY <1>a, <2>1, <2>2, <3>1, <3>2 DEF CountInv, Balance, Running, Nest, Quiet
  <2> QED BY <2>3, <2>4
<1>3. CASE LoadAct \/ LoadWgt
  <2>1. /\ pc \in {"act", "wgt"} /\ pc' \in {"wgt", "ready"} /\ UNCHANGED <<k, mode>>
        /\ UNCHANGED <<tseq, pipe, fifo, drain, puts>>
    BY <1>3 DEF LoadAct, LoadWgt, store
  <2>2. Owed' = Owed /\ InMotion' = InMotion
    BY <2>1 DEF Owed, InMotion, Col, Strided, WOuter, Pad
  <2> QED BY <2>1, <2>2 DEF CountInv, Balance, Running, Nest, Quiet
<1>4. CASE AwaitReady
  <2>1. /\ pc = "ready" /\ pc' = (IF ArmsDrain(k) THEN "arm" ELSE "mm") /\ UNCHANGED <<k, mode>> /\ Same
    BY <1>4 DEF AwaitReady, engine, store
  <2>2. Owed' = Owed
    BY <2>1 DEF Owed, Col, Strided, WOuter, Pad, ArmsDrain, Inner
  <2> QED BY <2>1, <2>2, CountFrame DEF Running, Nest
<1>5. CASE ArmStrided
  <2>1. /\ pc = "arm" /\ pc' = "mm" /\ UNCHANGED <<k, mode>>
        /\ UNCHANGED <<ld, tseq, pipe, fifo, puts>> /\ ~Draining /\ ArmDrain(StridedDst(k))
    BY <1>5 DEF ArmStrided, engine, Masked, ArmMask
  <2>2. Strided /\ (WOuter => Col = 0)
    BY <1>a, <2>1 DEF Typed, PlanOK, ArmsDrain, Inner, Col
  <2>3. Owed = 0 /\ Owed' = IF WOuter THEN TilesA ELSE 1
    BY <1>a, <2>1, <2>2 DEF Owed, Col, Strided, WOuter
  <2>4. InMotion' = InMotion /\ InMotion = 0 /\ Len(drain'.dst) = IF WOuter THEN TilesA ELSE 1
    BY <1>a, <2>1, <2>3, Counts, RowDescriptors DEF InMotion, CountInv, Balance, Running, Draining, ArmDrain
  <2> QED BY <1>a, <2>1, <2>3, <2>4 DEF CountInv, Balance, Running, Nest, Quiet
<1>6. CASE Compute
  <2>1. /\ pc = "mm" /\ pc' = "pre" /\ UNCHANGED <<k, mode>>
        /\ UNCHANGED <<ld, pipe, fifo, drain, puts>>
        /\ Multiply(cab', cwb', 1) /\ cab' \in 0 .. 1 /\ cwb' \in 0 .. 1
    BY <1>6 DEF Compute, Find, store
  <2>2. tseq'.left = 1 /\ tseq.left = 0
    BY <2>1, TileTaken, Counts DEF BufferInv, Filled, Still, Computing
  <2>3. Col' = Col /\ Pad' = Pad /\ Strided' = Strided /\ WOuter' = WOuter
    BY <2>1 DEF Col, Strided, WOuter, Pad
  <2>4. Col \in 0 .. TilesA - 1 /\ k \in Int /\ Total \in Int /\ Pad \in Int
    BY <1>a, Counts
  <2>5. Owed = IF ~Strided THEN Total - k + 1 + Pad ELSE IF ~WOuter THEN 1 ELSE TilesA - Col
    BY <2>1 DEF Owed
  <2>6. Owed' = IF ~Strided THEN Total - k + Pad ELSE IF ~WOuter THEN 0 ELSE TilesA - 1 - Col
    BY <2>1, <2>3 DEF Owed
  <2>7. Owed = Owed' + 1
    BY <1>a, <2>4, <2>5, <2>6
  <2>8. InMotion' = InMotion + 1 /\ drain' = drain
    BY <2>1, <2>2, Counts DEF InMotion
  <2>9. Len(drain.dst) = InMotion + Owed /\ Owed' \in Int
    BY <1>a, <2>1, <2>4, <2>6 DEF CountInv, Balance, Running
  <2>10. Balance'
    BY SMTT(30), <2>1, <2>7, <2>8, <2>9, Counts DEF Balance, Running
  <2> QED BY <2>1, <2>10 DEF CountInv, Nest, Quiet
<1>7. CASE Preload
  <2>1. /\ pc = "pre" /\ pc' = "act" /\ k < Total /\ k' = k + 1 /\ mode' = mode
        /\ UNCHANGED <<tseq, pipe, fifo, drain, puts>>
    BY <1>7 DEF Preload, store
  <2>2. Owed' = Owed
    <3>1. Col' = IF Col = TilesA - 1 THEN 0 ELSE Col + 1
      <4>1. k - 1 \in Nat /\ k - 1 + 1 = k' - 1
        BY <1>a, <2>1
      <4> QED BY <1>a, <4>1, NextColumn DEF Col
    <3> QED BY <1>a, <2>1, <3>1, Counts DEF Owed, Strided, WOuter, Pad
  <2>3. InMotion' = InMotion
    BY <2>1 DEF InMotion
  <2> QED BY <2>1, <2>2, <2>3 DEF CountInv, Balance, Running, Nest, Quiet
<1>8. CASE NestDone
  <2>1. /\ pc = "pre" /\ k = Total /\ pc' = (IF Pad > 0 THEN "pad" ELSE "end") /\ UNCHANGED <<k, mode>> /\ Same
    BY <1>8 DEF NestDone, engine, store
  <2>2. Strided => Pad = 0
    BY DEF Pad
  <2>3. Owed' = Owed
    BY <1>a, <2>1, <2>2, LastColumn, Counts DEF Owed, Col, Strided, WOuter, Pad
  <2>4. Nest'
    BY <2>1, <2>2 DEF Nest, Strided
  <2> QED BY <2>1, <2>3, <2>4, CountFrame DEF Running
<1>9. CASE PadTile
  <2>1. /\ pc = "pad" /\ pc' = "end" /\ UNCHANGED <<k, mode>>
        /\ UNCHANGED <<ld, pipe, fifo, drain, puts>> /\ Multiply(cab, cwb, Pad) /\ ~Computing
    BY <1>9 DEF PadTile, store, Masked
  <2>2. tseq'.left = Pad /\ tseq.left = 0
    BY <1>a, <2>1, TileTaken, Counts DEF BufferInv, Filled, Chosen, Computing
  <2>3. Owed = Pad /\ Owed' = 0
    BY <2>1 DEF Owed, CountInv, Nest
  <2> QED BY <1>a, <2>1, <2>2, <2>3, Counts DEF CountInv, Balance, Running, Nest, Quiet, InMotion
<1>10. CASE Finish
  <2>1. /\ pc = "end" /\ pc' \in {"idle", "software", "late"} /\ ~Busy /\ Same
        /\ mode' = mode /\ (pc' = "late" => ~Strided)
    BY <1>10 DEF Finish, Return, engine, store, Masked, EndMask
  <2>2. Owed = 0 /\ Owed' = 0
    BY <2>1 DEF Owed
  <2> QED BY <2>1, <2>2, CountFrame DEF Running, Nest, Strided
<1>11. CASE PlaceEarly
  <2>1. pc' = pc /\ UNCHANGED <<k, mode>> /\ Same
    BY <1>11 DEF PlaceEarly, engine, store
  <2>2. Owed' = Owed
    BY <2>1 DEF Owed, Col, Strided, WOuter, Pad
  <2>3. pc \notin {"start", "late"}
    BY <1>11 DEF PlaceEarly, Masked
  <2> QED BY <2>1, <2>2, <2>3, CountFrame DEF Running, Nest, CountInv, Strided
<1>12. CASE PlaceLate \/ TimeOut \/ Software
  <2>1. pc' \in {"idle", "software"} /\ Same
    BY <1>12 DEF PlaceLate, TimeOut, Software, Return, engine, store
  <2> QED BY <2>1, CountFrame DEF Running, Nest
<1> QED BY <1>1, <1>2, <1>3, <1>4, <1>5, <1>6, <1>7, <1>8, <1>9, <1>10, <1>11, <1>12 DEF Hart1

\* Every step of the engine keeps the count: what leaves the FIFO leaves the
\* descriptor.
LEMMA UnitCounts ==
  ASSUME CountInv, Typed, Unit
  PROVE  CountInv'
<1>a. UNCHANGED <<pc, k, mode>> /\ Owed' = Owed /\ Nest'
  BY UnitFrame DEF plan, Owed, Col, Strided, WOuter, Pad, Nest, CountInv
<1>b. pc \notin {"start", "late"}
  BY DEF CountInv, Quiet, Unit, FillDone, Emit, Pack, StartPut, Ack, Busy, CanEmit, CanPut, Draining,
         Computing, Answered
<1>1. Len(drain'.dst) - InMotion' = Len(drain.dst) - InMotion
  <2>1. CASE FillDone \/ Ack
    BY <2>1 DEF FillDone, Ack, store, InMotion
  <2>2. CASE Emit
    <3>1. tseq.left > 0 /\ Len(pipe) = 0
      BY <2>2, Counts DEF Emit, CanEmit, Computing, InPipe
    <3>2. tseq'.left = tseq.left - 1 /\ Len(pipe') = 1 /\ UNCHANGED <<fifo, drain>>
      BY <2>2 DEF Emit, store, Typed, UnitOK
    <3> QED BY SMTT(30), <3>1, <3>2, Counts DEF InMotion
  <2>3. CASE Pack
    <3>1. Len(fifo') = Len(fifo) + Len(pipe) /\ Len(pipe') = 0 /\ UNCHANGED <<tseq, drain>>
      BY <2>3, Joined DEF Pack, Typed, StoreOK
    <3> QED BY <3>1, Counts DEF InMotion
  <2>4. CASE StartPut
    <3>1. CanPut /\ StoreOK /\ UNCHANGED <<tseq, pipe>>
      BY <2>4 DEF StartPut, engine, Typed
    <3>2. /\ drain.per \in 0 .. Len(fifo) /\ drain.per \in 0 .. Len(drain.dst)
          /\ fifo \in Seq(Values) /\ drain.dst \in Seq(Cells)
      BY <3>1, PutTaken, Counts DEF StoreOK, DrainOK
    <3>3. /\ fifo' = SubSeq(fifo, drain.per + 1, Len(fifo))
          /\ drain'.dst = SubSeq(drain.dst, drain.per + 1, Len(drain.dst))
      BY <2>4, <3>1 DEF StartPut, StoreOK, DrainOK
    <3>4. Len(fifo') = Len(fifo) - drain.per
      BY <3>2, <3>3, Halves
    <3>5. Len(drain'.dst) = Len(drain.dst) - drain.per
      BY <3>2, <3>3, Halves, SMTT(30)
    <3>6. drain.per \in Int /\ tseq' = tseq /\ pipe' = pipe
      BY <2>4, <3>1, EngineShapeAssumption DEF StoreOK, DrainOK, StartPut, engine
    <3>7. /\ Len(fifo) \in Int /\ Len(pipe) \in Int /\ tseq.left \in Int
          /\ Len(drain.dst) \in Int /\ InMotion \in Int
      BY Counts
    <3>8. InMotion' = InMotion - drain.per
      BY <3>4, <3>6, <3>7, SMTT(30) DEF InMotion
    <3> QED BY <3>5, <3>6, <3>7, <3>8
  <2> QED BY <2>1, <2>2, <2>3, <2>4 DEF Unit
<1>2. Len(drain'.dst) \in Nat /\ InMotion' \in Nat
  <2>0. Typed'
    BY UnitTyped
  <2>1. UnitOK' /\ StoreOK' /\ DrainOK'
    BY <2>0 DEF Typed, StoreOK
  <2>2. drain'.dst \in Seq(Cells) /\ fifo' \in Seq(Values) /\ pipe' \in Seq(Values) /\ tseq'.left \in Nat
    BY <2>1 DEF StoreOK, DrainOK, UnitOK
  <2> QED BY <2>2 DEF InMotion
<1>3. Running' <=> Running
  BY <1>a DEF Running
<1>4. /\ Len(drain.dst) \in Int /\ InMotion \in Int /\ Owed \in Int
  BY Counts
<1>5. Balance'
  <2>1. CASE Running
    BY <1>a, <1>1, <1>2, <1>3, <1>4, <2>1 DEF Balance, CountInv
  <2>2. CASE ~Running
    BY <1>1, <1>2, <1>3, <1>4, <2>2 DEF Balance, CountInv
  <2> QED BY <2>1, <2>2
<1> QED BY <1>a, <1>b, <1>5 DEF CountInv, Quiet
-----------------------------------------------------------------------------
(* NO WAIT IS FOR EVER                                                       *)

NoLoss == \A p \in puts : ~p.lost

\* While a run waits, the engine has a step to take: what it computes has
\* somewhere to go, and what the drain was armed for has been sent.
LEMMA NotStalled ==
  ASSUME Typed, CountInv, NoLoss, Masked, pc # "busy", Stalled
  PROVE  FALSE
<1>1. puts = {} /\ ~Filling /\ ~InPipe /\ ~CanPut /\ ~CanEmit
  BY DEF Stalled, NoLoss, Answered
<1>2. pc \in {"ready", "arm", "pad", "end"} /\ (Computing \/ (pc \in {"arm", "end"} /\ Draining))
  BY <1>1 DEF Masked, ReadyMask, ArmMask, EndMask, Busy
<1>3. /\ Len(drain.dst) \in Nat /\ Len(fifo) \in Nat /\ tseq.left \in Nat /\ Owed \in Nat
      /\ (drain.dst = << >> <=> Len(drain.dst) = 0) /\ Len(pipe) = 0
  BY <1>1, Counts DEF InPipe
<1>4. Len(drain.dst) = Len(fifo) + tseq.left + Owed
  BY <1>2, <1>3 DEF CountInv, Balance, Running, InMotion
<1>5. drain.per \in Nat \ {0} /\ drain.per <= FifoCells /\ FifoCells \in Nat
  BY EngineShapeAssumption, EngineBoundsAssumption DEF Typed, StoreOK, DrainOK
<1>6. Len(fifo) < drain.per \/ drain.dst = << >>
  <2>1. Cardinality(puts) < Depth
    BY <1>1, EngineBoundsAssumption, FS_EmptySet
  <2> QED BY <1>1, <1>3, <1>5, <2>1 DEF CanPut
<1>7. CASE Computing
  <2>1. tseq.left > 0 /\ Len(fifo) >= FifoCells
    BY <1>1, <1>3, <1>5, <1>7 DEF Computing, CanEmit
  <2> QED BY <1>3, <1>4, <1>5, <1>6, <2>1
<1>8. CASE ~Computing
  <2>1. pc \in {"arm", "end"} /\ drain.dst # << >>
    BY <1>1, <1>2, <1>8 DEF Draining
  <2>2. Owed = 0
    <3>1. CASE pc = "end"
      BY <3>1 DEF Owed
    <3>2. CASE pc = "arm"
      <4>1. Strided /\ (WOuter => Col = 0)
        BY <3>2, EngineShapeAssumption DEF Typed, PlanOK, ArmsDrain, Inner, Col
      <4> QED BY <3>2, <4>1 DEF Owed
    <3> QED BY <2>1, <3>1, <3>2
  <2>3. Len(drain.dst) = Len(fifo)
    BY <1>3, <1>4, <1>8, <2>2 DEF Computing
  <2>4. PICK n \in Nat : Len(drain.dst) = n * drain.per
    BY DEF Typed, StoreOK, DrainOK
  <2>5. n # 0
    BY <1>3, <1>5, <2>1, <2>4
  <2>6. PICK m \in Nat : n = m + 1
    <3>1. n - 1 \in Nat /\ n = (n - 1) + 1
      BY <2>5
    <3> QED BY <3>1
  <2>7. n * drain.per = m * drain.per + drain.per /\ m * drain.per \in Nat
    BY <1>5, <2>6
  <2> QED BY <1>3, <1>5, <1>6, <2>1, <2>3, <2>4, <2>7
<1> QED BY <1>7, <1>8

\* A run without faults: it finds the engine at rest and leaves it so.
Calm   == pc \in {"idle", "busy"} => ~Busy
Smooth == NoLoss /\ ~err /\ rc # "TIMEOUT" /\ pc # "software" /\ Calm
RunInv == Typed /\ BufferInv /\ CountInv

\* Without faults hart 1 neither times out nor falls back, and it leaves the
\* engine at rest.
LEMMA Hart1Smooth ==
  ASSUME Patient, RunInv, Smooth, Hart1, ~err'
  PROVE  Smooth'
<1>1. ~TimeOut
  <2>1. ASSUME TimeOut PROVE FALSE
    <3>1. Masked /\ Stalled
      BY <2>1 DEF TimeOut, GiveUp
    <3>2. pc # "busy"
      BY <3>1 DEF Masked, Smooth, Calm
    <3> QED BY <3>1, <3>2, NotStalled DEF RunInv, Smooth
  <2> QED BY <2>1
<1>2. ~Software
  BY DEF Software, Smooth
<1>3. puts' = puts
  BY <1>1, <1>2 DEF Hart1, AwaitIdle, Start, LoadAct, LoadWgt, AwaitReady, ArmStrided, Compute,
     Preload, NestDone, PadTile, Finish, PlaceEarly, PlaceLate, engine, store
<1>4. /\ rc' \in {rc, "OK"} /\ pc' # "software"
      /\ pc' \in {"idle", "busy"} => (Finish \/ PlaceLate)
  <2>1. CASE Finish \/ PlaceLate
    BY <2>1 DEF Finish, PlaceLate, Return, HwError, Smooth
  <2>2. CASE ~Finish /\ ~PlaceLate
    BY <1>1, <1>2, <2>2 DEF Hart1, AwaitIdle, Start, LoadAct, LoadWgt, AwaitReady, ArmStrided,
       Compute, Preload, NestDone, PadTile, PlaceEarly, Smooth, Masked
  <2> QED BY <2>1, <2>2
<1>5. Calm'
  <2>1. ASSUME pc' \in {"idle", "busy"} PROVE ~Busy /\ UNCHANGED <<ld, tseq, pipe, drain, puts>>
    BY <1>4, <2>1 DEF Finish, PlaceLate, At, Masked, EndMask, RunInv, CountInv, Quiet, engine, store
  <2> QED BY <2>1 DEF Calm, Busy, Filling, Computing, Draining, InPipe
<1>6. NoLoss'
  BY <1>3 DEF NoLoss, Smooth
<1> QED BY <1>4, <1>5, <1>6 DEF Smooth

\* The unit's own steps, when no Put is lost and the sticky bit stays clear.
LEMMA UnitSmooth ==
  ASSUME RunInv, Smooth, Unit, ~err', \A p \in puts' \ puts : ~p.lost
  PROVE  Smooth'
<1>1. UNCHANGED plan
  BY UnitFrame
<1>2. pc \notin {"idle", "busy"}
  BY DEF Smooth, Calm, Unit, FillDone, Emit, Pack, StartPut, Ack, Busy, CanEmit, CanPut, Draining,
         Computing, Answered
<1> QED BY <1>1, <1>2 DEF Smooth, NoLoss, Calm, plan

\* A run that begins finds the engine at rest.
LEMMA EnterSmooth ==
  ASSUME Smooth, Enter, UNCHANGED engine, UNCHANGED store
  PROVE  Smooth'
BY DEF Smooth, NoLoss, Calm, Enter, engine, store, Busy, Filling, Computing, Draining, InPipe

\* Nothing of the run moves.
LEMMA RestKeeps ==
  ASSUME CountInv, Smooth, UNCHANGED plan, UNCHANGED engine, UNCHANGED store
  PROVE  CountInv' /\ Smooth'
BY DEF CountInv, Balance, Nest, Quiet, Owed, Col, InMotion, Running, Strided, WOuter, Pad, Smooth,
       NoLoss, Calm, Busy, Filling, Computing, Draining, InPipe, plan, engine, store

\* The start satisfies all of it.
LEMMA InitRuns == Init => RunInv /\ Smooth
<1> SUFFICES ASSUME Init PROVE RunInv /\ Smooth
  OBVIOUS
<1>1. Typed /\ BufferInv /\ ~err
  BY TypedInitially, Initially
<1>2. /\ pc = "idle" /\ k = 1 /\ rc = "none" /\ tseq.left = 0 /\ pipe = << >> /\ fifo = << >>
      /\ drain.dst = << >> /\ puts = {} /\ ~ld.busy
  BY DEF Init
<1>3. CountInv
  BY <1>1, <1>2, Counts DEF CountInv, Balance, Nest, Quiet, Running, InMotion
<1>4. Smooth
  BY <1>1, <1>2 DEF Smooth, NoLoss, Calm, Busy, Filling, Computing, Draining, InPipe
<1> QED BY <1>1, <1>3, <1>4 DEF RunInv

\* The commands keep the engine fed and emptied: on a bus without faults, and
\* with a poll limit that outlasts the engine's own work, no run times out.
THEOREM NoTimeoutHolds ==
  ASSUME BusErrs = {}, Patient
  PROVE  Spec => []NoTimeout
<1> DEFINE Inv == RunInv /\ Smooth
<1>1. Init => Inv
  BY InitRuns
<1>2. Inv /\ [Next]_vars => Inv'
  <2> SUFFICES ASSUME Inv, [Next]_vars PROVE Inv'
    OBVIOUS
  <2>0. k \in 1 .. Total /\ Typed /\ BufferInv /\ CountInv /\ Smooth /\ ~err
    BY DEF RunInv, Typed, PlanOK, Smooth
  <2>1. CASE Begin
    <3>1. Enter /\ UNCHANGED engine /\ UNCHANGED store
      BY <2>1 DEF Begin
    <3>2. Typed'
      BY <2>0, <2>1, BeginTyped
    <3> QED BY <2>0, <3>1, <3>2, Entering, EnterCounts, EnterSmooth DEF RunInv
  <2>2. CASE Hart1
    <3>1. BufferInv' /\ ~err'
      BY <2>0, <2>2, Hart1Keeps DEF Accepted
    <3>2. Typed' /\ CountInv'
      BY <2>0, <2>2, Hart1Typed, Hart1Counts
    <3>3. Smooth'
      BY <2>0, <2>2, <3>1, Hart1Smooth DEF RunInv
    <3> QED BY <3>1, <3>2, <3>3 DEF RunInv
  <2>3. CASE Unit
    <3>1. BufferInv' /\ ~err'
      BY <2>0, <2>3, UnitKeeps DEF Accepted
    <3>2. Typed' /\ CountInv'
      BY <2>0, <2>3, UnitTyped, UnitCounts
    <3>3. \A p \in puts' \ puts : ~p.lost
      <4>1. CASE StartPut
        <5>1. PICK dst, val, i : puts' = puts \cup {[dst |-> dst, lost |-> FALSE, val |-> val, i |-> i]}
          BY <4>1 DEF StartPut
        <5>2. [dst |-> dst, lost |-> FALSE, val |-> val, i |-> i].lost = FALSE
          OBVIOUS
        <5> QED BY <5>1, <5>2
      <4>2. CASE puts' \subseteq puts
        BY <4>2
      <4> QED BY <2>3, <4>1, <4>2 DEF Unit, FillDone, Emit, Pack, Ack, store
    <3>4. Smooth'
      BY <2>0, <2>3, <3>1, <3>3, UnitSmooth DEF RunInv
    <3> QED BY <3>1, <3>2, <3>4 DEF RunInv
  <2>4. CASE UNCHANGED vars
    <3>1. Typed' /\ BufferInv'
      BY <2>0, <2>4, FrameTyped, NoCommand DEF Typed, vars, plan, engine, store
    <3>2. CountInv' /\ Smooth'
      BY <2>0, <2>4, RestKeeps DEF vars
    <3> QED BY <3>1, <3>2 DEF RunInv
  <2> QED BY <2>1, <2>2, <2>3, <2>4 DEF Next, Poll, Finished
<1>3. Inv => NoTimeout
  BY DEF Smooth, NoTimeout
<1> QED BY <1>1, <1>2, <1>3, PTL DEF Spec
-----------------------------------------------------------------------------
(* OPERANDS: the tiles of the pair about to be computed are in the buffers,  *)
(* and a fill never goes to a buffer the sequencer reads.                    *)

Held  == /\ pc \in {"wgt", "ready", "arm", "mm"} => Holds(aIn, ATile(k))
         /\ pc \in {"ready", "arm", "mm"} => Holds(wIn, WTile(k))
Apart == Filling => ~LoadClash(ld.client, ld.buf)

FillingW(b) == ld.busy /\ ld.client = "W" /\ ld.buf = b
NoWgt    == pc \in {"busy", "start"} => \A b \in 0 .. 1 : wIn[b] = None
WgtRight == \A b \in 0 .. 1 : /\ FillingW(b) => ld.tile = wIn[b]
                              /\ wIn[b] # None /\ ~FillingW(b) => bufs["W"][b] = <<r, wIn[b]>>
WgtInv   == NoWgt /\ (Running /\ ~err => WgtRight)

\* A load brings the tile the pair needs; nothing else changes before it is used.
LEMMA HeldKept ==
  ASSUME Typed, Held, Hart1
  PROVE  Held'
<1> USE DEF At
<1>1. /\ aIn \in [0 .. 1 -> ATiles \cup {None}] /\ wIn \in [0 .. 1 -> WTiles \cup {None}]
      /\ Other(cab) \in 0 .. 1 /\ Other(cwb) \in 0 .. 1
  BY DEF Typed, PlanOK, Other
<1>2. CASE LoadAct
  <2>1. /\ pc' = "wgt" /\ UNCHANGED <<k, mode>>
        /\ (aIn' = aIn /\ Holds(aIn, ATile(k))) \/ aIn' = [aIn EXCEPT ![Other(cab)] = ATile(k)]
    BY <1>2 DEF LoadAct, NeedsA
  <2>2. Holds(aIn', ATile(k))
    BY <1>1, <2>1 DEF Holds
  <2> QED BY <2>1, <2>2 DEF Held, Holds, ATile, WOuter
<1>3. CASE LoadWgt
  <2>1. /\ pc = "wgt" /\ pc' = "ready" /\ UNCHANGED <<k, mode, aIn>>
        /\ (wIn' = wIn /\ Holds(wIn, WTile(k))) \/ wIn' = [wIn EXCEPT ![Other(cwb)] = WTile(k)]
    BY <1>3 DEF LoadWgt, NeedsW
  <2>2. Holds(wIn', WTile(k))
    BY <1>1, <2>1 DEF Holds
  <2> QED BY <2>1, <2>2 DEF Held, Holds, ATile, WTile, WOuter
<1>4. CASE AwaitReady \/ ArmStrided \/ PlaceEarly
  <2>1. /\ UNCHANGED <<k, mode, aIn, wIn>> /\ pc' \in {pc, "arm", "mm"}
        /\ (pc' # pc => pc \in {"ready", "arm"})
    BY <1>4 DEF AwaitReady, ArmStrided, PlaceEarly
  <2> QED BY <2>1 DEF Held, Holds, ATile, WTile, WOuter
<1>5. CASE ~(LoadAct \/ LoadWgt \/ AwaitReady \/ ArmStrided \/ PlaceEarly)
  <2>1. pc' \notin {"wgt", "ready", "arm", "mm"}
    BY <1>5 DEF Hart1, AwaitIdle, Start, Compute, Preload, NestDone, PadTile, Finish, PlaceLate,
       TimeOut, Software, Return
  <2> QED BY <2>1 DEF Held
<1> QED BY <1>2, <1>3, <1>4, <1>5

\* A load that would go to a buffer in use is not taken, and a pair is computed
\* only when nothing fills.
LEMMA ApartKept ==
  ASSUME Typed, BufferInv, Apart, Hart1 \/ Unit
  PROVE  Apart'
<1> USE DEF At
<1>1. ASSUME NEW c \in {"A", "W"}, NEW b \in 0 .. 1, NEW tile, Load(c, b, tile), tseq' = tseq
      PROVE  Apart'
  <2>1. CASE Filling \/ LoadClash(c, b)
    BY <1>1, <2>1 DEF Load, Apart, Filling, LoadClash, Computing
  <2>2. CASE ~Filling /\ ~LoadClash(c, b)
    <3>1. ld' = [busy |-> TRUE, client |-> c, buf |-> b, tile |-> tile]
      BY <1>1, <2>2 DEF Load
    <3>2. ld'.client = c /\ ld'.buf = b
      BY <3>1
    <3> QED BY <1>1, <2>2, <3>2 DEF Apart, LoadClash, Computing
  <2> QED BY <2>1, <2>2
<1>2. CASE UNCHANGED <<ld, tseq>>
  BY <1>2 DEF Apart, Filling, LoadClash, Computing
<1>3. CASE ~Filling'
  BY <1>3 DEF Apart
<1>4. CASE LoadAct \/ LoadWgt \/ Preload
  <2>1. tseq' = tseq /\ Other(cab) \in 0 .. 1 /\ Other(cwb) \in 0 .. 1
    BY <1>4 DEF LoadAct, LoadWgt, Preload, Other
  <2> QED BY <1>1, <1>2, <1>4, <2>1 DEF LoadAct, LoadWgt, Preload
<1>5. CASE Compute \/ PadTile
  <2>1. ld' = ld /\ ~Filling
    BY <1>5 DEF Compute, PadTile, BufferInv, Filled
  <2> QED BY <1>3, <2>1 DEF Filling
<1>6. CASE FillDone
  <2>1. ld' = [ld EXCEPT !.busy = FALSE] /\ DOMAIN ld = {"busy", "client", "buf", "tile"}
    BY <1>6 DEF FillDone, Typed, UnitOK
  <2> QED BY <1>3, <2>1 DEF Filling
<1>7. CASE Emit
  <2>1. /\ tseq' = [tseq EXCEPT !.left = tseq.left - 1] /\ ld' = ld /\ Computing
        /\ tseq \in [left : Nat, ab : 0 .. 1, wb : 0 .. 1]
    BY <1>7 DEF Emit, CanEmit, Typed, UnitOK
  <2>2. tseq'.ab = tseq.ab /\ tseq'.wb = tseq.wb
    BY <2>1
  <2> QED BY <2>1, <2>2 DEF Apart, Filling, LoadClash
<1>8. CASE Start \/ Pack \/ StartPut \/ Ack
  BY <1>2, <1>8 DEF Start, Pack, StartPut, Ack, engine
<1>9. CASE AwaitIdle \/ AwaitReady \/ ArmStrided \/ NestDone \/ Finish \/ PlaceEarly \/ PlaceLate
           \/ TimeOut \/ Software
  BY <1>2, <1>9 DEF AwaitIdle, AwaitReady, ArmStrided, NestDone, Finish, PlaceEarly, PlaceLate,
     TimeOut, Software, engine
<1> QED BY <1>4, <1>5, <1>6, <1>7, <1>8, <1>9 DEF Hart1, Unit

\* A step that leaves the weights alone.
LEMMA WgtFrame ==
  ASSUME WgtInv, UNCHANGED <<r, wIn, ld>>, bufs'["W"] = bufs["W"], ~err' => ~err,
         Running' => Running, pc' \in {"busy", "start"} => pc \in {"busy", "start"}
  PROVE  WgtInv'
BY DEF WgtInv, NoWgt, WgtRight, FillingW

\* A load of either operand, taken because nothing fills.
LEMMA WgtLoad ==
  ASSUME Typed, WgtInv, Running, ~Filling, NEW c \in {"A", "W"}, NEW b \in 0 .. 1, NEW tile,
         Load(c, b, tile), wIn' = IF c = "W" THEN [wIn EXCEPT ![b] = tile] ELSE wIn,
         r' = r, pc' \notin {"busy", "start"}
  PROVE  WgtInv'
<1>1. CASE LoadClash(c, b)
  BY <1>1 DEF Load, WgtInv, NoWgt
<1>2. CASE ~LoadClash(c, b) /\ ~err
  <2>1. /\ ld' = [busy |-> TRUE, client |-> c, buf |-> b, tile |-> tile]
        /\ bufs' = [bufs EXCEPT ![c][b] = <<0, 0>>]
    BY <1>2 DEF Load
  <2>2. /\ bufs \in [{"A", "W"} -> [0 .. 1 -> (0 .. MaxRuns) \X Nat]]
        /\ wIn \in [0 .. 1 -> WTiles \cup {None}]
    BY DEF Typed, UnitOK, PlanOK
  <2>3. \A x \in 0 .. 1 : ~FillingW(x) /\ (FillingW(x)' <=> c = "W" /\ x = b)
    BY <2>1 DEF FillingW, Filling
  <2>4. \A x \in 0 .. 1 : ~(c = "W" /\ x = b) => wIn'[x] = wIn[x] /\ bufs'["W"][x] = bufs["W"][x]
    BY <2>1, <2>2
  <2>5. c = "W" => wIn'[b] = tile /\ ld'.tile = tile
    BY <2>1, <2>2
  <2>6. WgtRight
    BY <1>2 DEF WgtInv
  <2>7. WgtRight'
    BY <2>3, <2>4, <2>5, <2>6 DEF WgtRight
  <2> QED BY <2>7 DEF WgtInv, NoWgt
<1>3. CASE ~LoadClash(c, b) /\ err
  BY <1>3 DEF Load, WgtInv, NoWgt
<1> QED BY <1>1, <1>2, <1>3

\* Every step of hart 1 keeps the weights of the run in the buffers.
LEMMA Hart1Wgt ==
  ASSUME Typed, BufferInv, WgtInv, Hart1
  PROVE  WgtInv'
<1> USE DEF At
<1> DEFINE Same == /\ UNCHANGED <<r, wIn, bufs, ld>> /\ (~err' => ~err)
                   /\ (Running' => Running) /\ pc' \notin {"busy", "start"}
<1>a. Other(cab) \in 0 .. 1 /\ Other(cwb) \in 0 .. 1
  BY DEF Other
<1>1. CASE AwaitIdle
  <2>1. /\ pc = "busy" /\ pc' = "start" /\ ~Filling /\ UNCHANGED <<r, wIn, bufs, ld>>
    BY <1>1 DEF AwaitIdle, Masked, Busy, engine
  <2> QED BY <2>1 DEF WgtInv, NoWgt, WgtRight, FillingW, Filling
<1>2. CASE Start
  <2>1. /\ pc = "start" /\ pc' = "act" /\ UNCHANGED <<r, wIn, bufs, ld>>
    BY <1>2 DEF Start
  <2> QED BY <2>1 DEF BufferInv, Filled, Filling, WgtInv, NoWgt, WgtRight, FillingW
<1>3. CASE LoadAct \/ LoadWgt \/ Preload
  <2>1. /\ Running /\ pc' \notin {"busy", "start"} /\ r' = r
        /\ \/ UNCHANGED <<wIn, bufs, ld, err>>
           \/ ~Filling /\ wIn' = wIn /\ (Load("A", Other(cab), ATile(k)) \/ Load("A", Other(cab), ATile(k + 1)))
           \/ /\ ~Filling
              /\ \E tile : Load("W", Other(cwb), tile) /\ wIn' = [wIn EXCEPT ![Other(cwb)] = tile]
    BY <1>3 DEF LoadAct, LoadWgt, Preload, Masked, Running
  <2>2. CASE UNCHANGED <<wIn, bufs, ld, err>>
    BY <2>1, <2>2, WgtFrame
  <2>3. CASE ~Filling /\ wIn' = wIn /\ Load("A", Other(cab), ATile(k))
    BY <1>a, <2>1, <2>3, WgtLoad
  <2>4. CASE ~Filling /\ wIn' = wIn /\ Load("A", Other(cab), ATile(k + 1))
    BY <1>a, <2>1, <2>4, WgtLoad
  <2>5. CASE /\ ~Filling
             /\ \E tile : Load("W", Other(cwb), tile) /\ wIn' = [wIn EXCEPT ![Other(cwb)] = tile]
    BY <1>a, <2>1, <2>5, WgtLoad
  <2> QED BY <2>1, <2>2, <2>3, <2>4, <2>5
<1>4. CASE Compute \/ PadTile
  <2>1. Same
    BY <1>4 DEF Compute, PadTile, Multiply, Running
  <2> QED BY <2>1, WgtFrame
<1>5. CASE AwaitReady \/ ArmStrided \/ NestDone \/ Finish
  <2>1. Same
    BY <1>5 DEF AwaitReady, ArmStrided, NestDone, Finish, Return, engine, Running
  <2> QED BY <2>1, WgtFrame
<1>6. CASE PlaceEarly
  <2>1. UNCHANGED <<r, wIn, bufs, ld, err, pc>>
    BY <1>6 DEF PlaceEarly, engine
  <2> QED BY <2>1, WgtFrame DEF Running
<1>7. CASE PlaceLate \/ TimeOut \/ Software
  <2>1. UNCHANGED <<r, wIn, bufs, ld, err>> /\ pc' \in {"idle", "software"}
    BY <1>7 DEF PlaceLate, TimeOut, Software, Return, engine
  <2> QED BY <2>1, WgtFrame DEF Running
<1> QED BY <1>1, <1>2, <1>3, <1>4, <1>5, <1>6, <1>7 DEF Hart1

\* A fill that ends brings the run's own weights.
LEMMA UnitWgt ==
  ASSUME Typed, WgtInv, Unit
  PROVE  WgtInv'
<1>a. UNCHANGED <<r, wIn, pc>>
  BY UnitFrame DEF plan
<1>1. CASE FillDone /\ ~err'
  <2>1. /\ Filling /\ ld' = [ld EXCEPT !.busy = FALSE] /\ ~err
        /\ bufs' = [bufs EXCEPT ![ld.client][ld.buf] =
                      <<IF ld.client = "A" THEN inp[ld.tile] ELSE r, ld.tile>>]
    BY <1>1 DEF FillDone
  <2>2. /\ ld \in [busy : BOOLEAN, client : {"A", "W"}, buf : 0 .. 1, tile : Nat]
        /\ bufs \in [{"A", "W"} -> [0 .. 1 -> (0 .. MaxRuns) \X Nat]]
    BY DEF Typed, UnitOK
  <2>3. ~ld'.busy
    BY <2>1, <2>2
  <2>4. \A x \in 0 .. 1 : bufs'["W"][x] = IF FillingW(x) THEN <<r, ld.tile>> ELSE bufs["W"][x]
    BY <2>1, <2>2 DEF FillingW, Filling
  <2> QED BY <1>a, <2>1, <2>3, <2>4 DEF WgtInv, NoWgt, WgtRight, FillingW, Running
<1>2. CASE FillDone /\ err'
  BY <1>a, <1>2 DEF WgtInv, NoWgt
<1>3. CASE Emit \/ Pack \/ StartPut \/ Ack
  <2>1. UNCHANGED <<bufs, ld>> /\ (~err' => ~err)
    <3>1. CASE Emit \/ Pack \/ StartPut
      <4>1. UNCHANGED <<bufs, ld, err>>
        BY <3>1 DEF Emit, Pack, StartPut, engine
      <4> QED BY <4>1
    <3>2. CASE Ack
      <4>1. UNCHANGED <<bufs, ld>> /\ (err' = TRUE \/ err' = err)
        BY <3>2 DEF Ack
      <4> QED BY <4>1
    <3> QED BY <1>3, <3>1, <3>2
  <2> QED BY <1>a, <2>1, WgtFrame DEF Running
<1> QED BY <1>1, <1>2, <1>3 DEF Unit
-----------------------------------------------------------------------------
(* PLACES: the pairs in loop order and the cells of the output are the same  *)
(* number of things, one for one.                                            *)

Cell(m, j) == IF m.wOuter THEN <<(j - 1) % TilesA, (j - 1) \div TilesA>>
                          ELSE <<(j - 1) \div TilesW, (j - 1) % TilesW>>
Dst(m, j)  == IF m.strided THEN Cell(m, j) ELSE <<j>>

\* A place in a table of n columns names its row and column.
LEMMA PlaceNamed ==
  ASSUME NEW n \in Nat \ {0}, NEW m \in Nat \ {0}, NEW y \in 0 .. m - 1, NEW x \in 0 .. n - 1
  PROVE  /\ n * y + x \in 0 .. n * m - 1
         /\ (n * y + x) % n = x /\ (n * y + x) \div n = y
<1>1. PICK d \in Nat : m = y + 1 + d
  <2>1. m - y - 1 \in Nat /\ m = y + 1 + (m - y - 1)
    OBVIOUS
  <2> QED BY <2>1
<1>2. n * m = (n * y) + n + (n * d) /\ n * y \in Nat /\ n * d \in Nat
  BY <1>1
<1>3. n * y + x \in Int /\ n * y + x = (n * y) + x /\ y \in Int
  BY <1>2
<1> QED BY <1>2, <1>3, Quotient

\* What a pair's cell is in the run's own loop order.
LEMMA CellIs ==
  ASSUME NEW j
  PROVE  CellOf(j) = Cell(mode, j)
BY DEF CellOf, ATile, WTile, WOuter, Cell

\* A pair's cell is a cell of the output, and the pair is found from it.
LEMMA PairOfCell ==
  ASSUME NEW j \in 1 .. Total
  PROVE  Cell(mode, j) \in Output /\ PairOf(Cell(mode, j)) = j
<1>1. ATile(j) \in ATiles /\ WTile(j) \in WTiles
  BY TilesOfPair
<1>2. Cell(mode, j) = <<ATile(j), WTile(j)>>
  BY CellIs DEF CellOf
<1>3. /\ TilesA \in Nat \ {0} /\ TilesW \in Nat \ {0} /\ j - 1 \in Nat /\ Total \in Nat
  BY EngineShapeAssumption, Sizes
<1>4. /\ j - 1 = (TilesA * ((j - 1) \div TilesA)) + ((j - 1) % TilesA)
      /\ j - 1 = (TilesW * ((j - 1) \div TilesW)) + ((j - 1) % TilesW)
      /\ (j - 1) \div TilesA \in Nat /\ (j - 1) \div TilesW \in Nat
  BY <1>3
<1>5. /\ Cell(mode, j)[1] = ATile(j) /\ Cell(mode, j)[2] = WTile(j)
  BY <1>2
<1>6. CASE WOuter
  <2>1. PairOf(Cell(mode, j)) = ((j - 1) \div TilesA) * TilesA + ((j - 1) % TilesA) + 1
    BY <1>5, <1>6 DEF PairOf, ATile, WTile
  <2>2. ((j - 1) \div TilesA) * TilesA = TilesA * ((j - 1) \div TilesA)
        /\ TilesA * ((j - 1) \div TilesA) \in Nat /\ (j - 1) % TilesA \in Nat
    BY <1>3, <1>4
  <2>3. PairOf(Cell(mode, j)) = j
    BY <1>3, <1>4, <2>1, <2>2
  <2> QED BY <1>1, <1>2, <2>3 DEF Output
<1>7. CASE ~WOuter
  <2>1. PairOf(Cell(mode, j)) = ((j - 1) \div TilesW) * TilesW + ((j - 1) % TilesW) + 1
    BY <1>5, <1>7 DEF PairOf, ATile, WTile
  <2>2. ((j - 1) \div TilesW) * TilesW = TilesW * ((j - 1) \div TilesW)
        /\ TilesW * ((j - 1) \div TilesW) \in Nat /\ (j - 1) % TilesW \in Nat
    BY <1>3, <1>4
  <2>3. PairOf(Cell(mode, j)) = j
    BY <1>3, <1>4, <2>1, <2>2
  <2> QED BY <1>1, <1>2, <2>3 DEF Output
<1> QED BY <1>6, <1>7

\* Every cell of the output is the cell of a pair.
LEMMA CellOfPair ==
  ASSUME NEW x \in Output
  PROVE  PairOf(x) \in 1 .. Total /\ Cell(mode, PairOf(x)) = x
<1>1. PICK a \in ATiles, t \in WTiles : x = <<a, t>>
  BY DEF Output
<1>2. /\ TilesA \in Nat \ {0} /\ TilesW \in Nat \ {0} /\ a \in 0 .. TilesA - 1 /\ t \in 0 .. TilesW - 1
      /\ Total = TilesA * TilesW /\ Total = TilesW * TilesA /\ Total \in Nat
  BY EngineShapeAssumption, Sizes DEF ATiles, WTiles, Total
<1>3. CASE WOuter
  <2>1. PairOf(x) = t * TilesA + a + 1
    BY <1>1, <1>3 DEF PairOf
  <2>2. /\ TilesA * t + a \in 0 .. TilesA * TilesW - 1
        /\ (TilesA * t + a) % TilesA = a /\ (TilesA * t + a) \div TilesA = t
    BY <1>2, PlaceNamed
  <2>3. t * TilesA = TilesA * t /\ TilesA * t \in Nat
    BY <1>2
  <2>4. PairOf(x) = (TilesA * t + a) + 1 /\ PairOf(x) - 1 = TilesA * t + a
    BY <1>2, <2>1, <2>3
  <2>5. Cell(mode, PairOf(x)) = <<a, t>>
    BY <1>3, <2>2, <2>4 DEF Cell, WOuter
  <2> QED BY <1>1, <1>2, <2>2, <2>4, <2>5
<1>4. CASE ~WOuter
  <2>1. PairOf(x) = a * TilesW + t + 1
    BY <1>1, <1>4 DEF PairOf
  <2>2. /\ TilesW * a + t \in 0 .. TilesW * TilesA - 1
        /\ (TilesW * a + t) % TilesW = t /\ (TilesW * a + t) \div TilesW = a
    BY <1>2, PlaceNamed
  <2>3. a * TilesW = TilesW * a /\ TilesW * a \in Nat
    BY <1>2
  <2>4. PairOf(x) = (TilesW * a + t) + 1 /\ PairOf(x) - 1 = TilesW * a + t
    BY <1>2, <2>1, <2>3
  <2>5. Cell(mode, PairOf(x)) = <<a, t>>
    BY <1>4, <2>2, <2>4 DEF Cell, WOuter
  <2> QED BY <1>1, <1>2, <2>2, <2>4, <2>5
<1> QED BY <1>3, <1>4

\* The descriptor of a column names the cells of the pairs of that column, in
\* loop order.
LEMMA RowsInOrder ==
  ASSUME NEW j \in 1 .. Total, ArmsDrain(j), NEW i \in 1 .. Len(StridedDst(j))
  PROVE  StridedDst(j)[i] = Cell(mode, j - 1 + i)
<1>1. TilesA \in Nat \ {0} /\ TilesW \in Nat \ {0} /\ j \in Nat /\ j - 1 \in Nat
  BY EngineShapeAssumption, Sizes
<1>2. CASE ~WOuter
  <2>0. Len(StridedDst(j)) = 1
    BY <1>2, RowDescriptors
  <2>1. i = 1 /\ j - 1 + i = j
    <3>1. i \in 1 .. 1
      BY <2>0
    <3> QED BY <1>1, <3>1
  <2> QED BY <1>2, <2>1, RowDescriptors, CellIs
<1>3. CASE WOuter
  <2>1. i \in 1 .. TilesA /\ StridedDst(j)[i] = <<i - 1, WTile(j)>>
    BY <1>3, RowDescriptors
  <2>2. (j - 1) % TilesA = 0
    BY <1>3 DEF ArmsDrain, Inner
  <2>3. PICK q \in Nat : q = (j - 1) \div TilesA /\ j - 1 = TilesA * q
    <3>1. (j - 1) \div TilesA \in Nat /\ j - 1 = (TilesA * ((j - 1) \div TilesA)) + ((j - 1) % TilesA)
      BY <1>1
    <3>2. j - 1 = TilesA * ((j - 1) \div TilesA)
      BY <1>1, <2>2, <3>1
    <3> QED BY <3>1, <3>2
  <2>4. (j - 1 + i) - 1 = (TilesA * q) + (i - 1) /\ i - 1 \in 0 .. TilesA - 1 /\ (j - 1 + i) - 1 \in Int
    BY <1>1, <2>1, <2>3
  <2>5. ((j - 1 + i) - 1) % TilesA = i - 1 /\ ((j - 1 + i) - 1) \div TilesA = q
    <3>1. PICK y \in Int, x \in 0 .. TilesA - 1 :
            y = (j - 1 + i) - 1 /\ x = i - 1 /\ y = (TilesA * q) + x
      BY <2>4
    <3>2. y % TilesA = x /\ y \div TilesA = q
      <4>1. q \in Int /\ TilesA \in Nat \ {0}
        BY <1>1, <2>3
      <4>2. y \in Int /\ x \in 0 .. TilesA - 1 /\ y = (TilesA * q) + x
        BY <3>1
      <4> QED BY SMTT(30), <4>1, <4>2, Quotient
    <3> QED BY <3>1, <3>2
  <2>6. Cell(mode, j - 1 + i) = <<i - 1, q>>
    BY <1>3, <2>5 DEF Cell, WOuter
  <2>7. WTile(j) = q
    BY <1>3, <2>3 DEF WTile
  <2> QED BY <2>1, <2>6, <2>7
<1> QED BY <1>2, <1>3

-----------------------------------------------------------------------------
(* ACTIVATIONS: the same of the activation buffers, in a run whose input is  *)
(* all staged.                                                               *)

FillingA(b) == ld.busy /\ ld.client = "A" /\ ld.buf = b
Input    == \A a \in ATiles : inp[a] = r
NoAct    == pc \in {"busy", "start"} => \A b \in 0 .. 1 : aIn[b] = None
ActRight == \A b \in 0 .. 1 : /\ FillingA(b) => ld.tile = aIn[b]
                              /\ aIn[b] # None /\ ~FillingA(b) => bufs["A"][b] = <<r, aIn[b]>>
ActInv   == NoAct /\ (Running /\ ~err => ActRight)

\* A step that leaves the activations alone.
LEMMA ActFrame ==
  ASSUME ActInv, UNCHANGED <<r, aIn, ld>>, bufs'["A"] = bufs["A"], ~err' => ~err,
         Running' => Running, pc' \in {"busy", "start"} => pc \in {"busy", "start"}
  PROVE  ActInv'
BY DEF ActInv, NoAct, ActRight, FillingA

\* A load of either operand, taken because nothing fills.
LEMMA ActLoad ==
  ASSUME Typed, ActInv, Running, ~Filling, NEW c \in {"A", "W"}, NEW b \in 0 .. 1, NEW tile,
         Load(c, b, tile), aIn' = IF c = "A" THEN [aIn EXCEPT ![b] = tile] ELSE aIn,
         r' = r, pc' \notin {"busy", "start"}
  PROVE  ActInv'
<1>1. CASE LoadClash(c, b)
  BY <1>1 DEF Load, ActInv, NoAct
<1>2. CASE ~LoadClash(c, b) /\ ~err
  <2>1. /\ ld' = [busy |-> TRUE, client |-> c, buf |-> b, tile |-> tile]
        /\ bufs' = [bufs EXCEPT ![c][b] = <<0, 0>>]
    BY <1>2 DEF Load
  <2>2. /\ bufs \in [{"A", "W"} -> [0 .. 1 -> (0 .. MaxRuns) \X Nat]]
        /\ aIn \in [0 .. 1 -> ATiles \cup {None}]
    BY DEF Typed, UnitOK, PlanOK
  <2>3. \A x \in 0 .. 1 : ~FillingA(x) /\ (FillingA(x)' <=> c = "A" /\ x = b)
    BY <2>1 DEF FillingA, Filling
  <2>4. \A x \in 0 .. 1 : ~(c = "A" /\ x = b) => aIn'[x] = aIn[x] /\ bufs'["A"][x] = bufs["A"][x]
    BY <2>1, <2>2
  <2>5. c = "A" => aIn'[b] = tile /\ ld'.tile = tile
    BY <2>1, <2>2
  <2>6. ActRight
    BY <1>2 DEF ActInv
  <2>7. ActRight'
    BY <2>3, <2>4, <2>5, <2>6 DEF ActRight
  <2> QED BY <2>7 DEF ActInv, NoAct
<1>3. CASE ~LoadClash(c, b) /\ err
  BY <1>3 DEF Load, ActInv, NoAct
<1> QED BY <1>1, <1>2, <1>3

\* Every step of hart 1 keeps the activations of the run in the buffers.
LEMMA Hart1Act ==
  ASSUME Typed, BufferInv, ActInv, Hart1
  PROVE  ActInv'
<1> USE DEF At
<1> DEFINE Same == /\ UNCHANGED <<r, aIn, bufs, ld>> /\ (~err' => ~err)
                   /\ (Running' => Running) /\ pc' \notin {"busy", "start"}
<1>a. Other(cab) \in 0 .. 1 /\ Other(cwb) \in 0 .. 1
  BY DEF Other
<1>1. CASE AwaitIdle
  <2>1. /\ pc = "busy" /\ pc' = "start" /\ ~Filling /\ UNCHANGED <<r, aIn, bufs, ld>>
    BY <1>1 DEF AwaitIdle, Masked, Busy, engine
  <2> QED BY <2>1 DEF ActInv, NoAct, ActRight, FillingA, Filling
<1>2. CASE Start
  <2>1. /\ pc = "start" /\ pc' = "act" /\ UNCHANGED <<r, aIn, bufs, ld>>
    BY <1>2 DEF Start
  <2> QED BY <2>1 DEF BufferInv, Filled, Filling, ActInv, NoAct, ActRight, FillingA
<1>3. CASE LoadAct \/ LoadWgt \/ Preload
  <2>1. /\ Running /\ pc' \notin {"busy", "start"} /\ r' = r
        /\ \/ UNCHANGED <<aIn, bufs, ld, err>>
           \/ ~Filling /\ aIn' = aIn /\ (Load("W", Other(cwb), WTile(k)) \/ Load("W", Other(cwb), WTile(k + 1)))
           \/ /\ ~Filling
              /\ \E tile : Load("A", Other(cab), tile) /\ aIn' = [aIn EXCEPT ![Other(cab)] = tile]
    BY <1>3 DEF LoadAct, LoadWgt, Preload, Masked, Running
  <2>2. CASE UNCHANGED <<aIn, bufs, ld, err>>
    BY <2>1, <2>2, ActFrame
  <2>3. CASE ~Filling /\ aIn' = aIn /\ Load("W", Other(cwb), WTile(k))
    BY <1>a, <2>1, <2>3, ActLoad
  <2>4. CASE ~Filling /\ aIn' = aIn /\ Load("W", Other(cwb), WTile(k + 1))
    BY <1>a, <2>1, <2>4, ActLoad
  <2>5. CASE /\ ~Filling
             /\ \E tile : Load("A", Other(cab), tile) /\ aIn' = [aIn EXCEPT ![Other(cab)] = tile]
    BY <1>a, <2>1, <2>5, ActLoad
  <2> QED BY <2>1, <2>2, <2>3, <2>4, <2>5
<1>4. CASE Compute \/ PadTile
  <2>1. Same
    BY <1>4 DEF Compute, PadTile, Multiply, Running
  <2> QED BY <2>1, ActFrame
<1>5. CASE AwaitReady \/ ArmStrided \/ NestDone \/ Finish
  <2>1. Same
    BY <1>5 DEF AwaitReady, ArmStrided, NestDone, Finish, Return, engine, Running
  <2> QED BY <2>1, ActFrame
<1>6. CASE PlaceEarly
  <2>1. UNCHANGED <<r, aIn, bufs, ld, err, pc>>
    BY <1>6 DEF PlaceEarly, engine
  <2> QED BY <2>1, ActFrame DEF Running
<1>7. CASE PlaceLate \/ TimeOut \/ Software
  <2>1. UNCHANGED <<r, aIn, bufs, ld, err>> /\ pc' \in {"idle", "software"}
    BY <1>7 DEF PlaceLate, TimeOut, Software, Return, engine
  <2> QED BY <2>1, ActFrame DEF Running
<1> QED BY <1>1, <1>2, <1>3, <1>4, <1>5, <1>6, <1>7 DEF Hart1

\* A fill that ends brings the run's own activations.
LEMMA UnitAct ==
  ASSUME Typed, ActInv, Running => Input, Unit
  PROVE  ActInv'
<1>a. UNCHANGED <<r, aIn, pc>>
  BY UnitFrame DEF plan
<1>1. CASE FillDone /\ ~err'
  <2>1. /\ Filling /\ ld' = [ld EXCEPT !.busy = FALSE] /\ ~err
        /\ bufs' = [bufs EXCEPT ![ld.client][ld.buf] =
                      <<IF ld.client = "A" THEN inp[ld.tile] ELSE r, ld.tile>>]
    BY <1>1 DEF FillDone
  <2>2. /\ ld \in [busy : BOOLEAN, client : {"A", "W"}, buf : 0 .. 1, tile : Nat]
        /\ bufs \in [{"A", "W"} -> [0 .. 1 -> (0 .. MaxRuns) \X Nat]]
        /\ ld.client = "A" => ld.tile \in ATiles
    BY DEF Typed, UnitOK
  <2>3. ~ld'.busy
    BY <2>1, <2>2
  <2>4. \A x \in 0 .. 1 : bufs'["A"][x] = IF FillingA(x) THEN <<inp[ld.tile], ld.tile>> ELSE bufs["A"][x]
    BY <2>1, <2>2 DEF FillingA, Filling
  <2>5. ASSUME Running PROVE ActRight'
    <3>1. ActRight /\ Input
      BY <2>1, <2>5 DEF ActInv
    <3>2. \A x \in 0 .. 1 : FillingA(x) => inp[ld.tile] = r
      BY <2>2, <3>1 DEF FillingA, Input
    <3>3. \A x \in 0 .. 1 : ~FillingA(x)'
      BY <2>3 DEF FillingA
    <3> QED BY <1>a, <2>4, <3>1, <3>2, <3>3 DEF ActRight
  <2> QED BY <1>a, <2>5 DEF ActInv, NoAct, Running
<1>2. CASE FillDone /\ err'
  BY <1>a, <1>2 DEF ActInv, NoAct
<1>3. CASE Emit \/ Pack \/ StartPut \/ Ack
  <2>1. UNCHANGED <<bufs, ld>> /\ (~err' => ~err)
    <3>1. CASE Emit \/ Pack \/ StartPut
      <4>1. UNCHANGED <<bufs, ld, err>>
        BY <3>1 DEF Emit, Pack, StartPut, engine
      <4> QED BY <4>1
    <3>2. CASE Ack
      <4>1. UNCHANGED <<bufs, ld>> /\ (err' = TRUE \/ err' = err)
        BY <3>2 DEF Ack
      <4> QED BY <4>1
    <3> QED BY <1>3, <3>1, <3>2
  <2> QED BY <1>a, <2>1, ActFrame DEF Running
<1> QED BY <1>1, <1>2, <1>3 DEF Unit

-----------------------------------------------------------------------------
(* FLOW: every result stays with the destination it was computed for, through *)
(* the pipe, the FIFO and the Puts, and no destination is skipped.           *)

Active == Running /\ pc # "start"

\* what a destination may be given: if it is that of a pair, that pair's result
Fits(m, q, x, v) == \A j \in 1 .. Total : x = Dst(m, j) => v = Right(q, Cell(m, j))

\* the pairs the run has given the engine
Given == IF pc \in {"act", "wgt", "ready", "arm", "mm"} THEN k - 1
         ELSE IF pc = "pre" THEN k ELSE Total

NextCells == \A i \in 1 .. Owed : drain.dst[InMotion + i] = Dst(mode, Given + i)
FifoFits  == \A i \in 1 .. Len(fifo) : Fits(mode, r, drain.dst[i], fifo[i])
PipeFits  == Len(pipe) = 1 => Fits(mode, r, drain.dst[Len(fifo) + 1], pipe[1])
SeqFits   == \A i \in 1 .. tseq.left :
               Fits(mode, r, drain.dst[Len(fifo) + Len(pipe) + i], Result)
PutsFit   == \A p \in puts : \A i \in 1 .. Len(p.dst) : Fits(mode, r, p.dst[i], p.val[i])
Bound(x)  == \/ \E i \in 1 .. Len(drain.dst) : drain.dst[i] = x
             \/ \E p \in puts : \E i \in 1 .. Len(p.dst) : p.dst[i] = x
Covered(j) == ~Strided \/ j <= Given
Underway  == \A j \in 1 .. Total :
               Covered(j) => mem[Dst(mode, j)] = Right(r, Cell(mode, j)) \/ Bound(Dst(mode, j))
Flow == NextCells /\ FifoFits /\ PipeFits /\ SeqFits /\ PutsFit /\ Underway

\* A destination is a cell of memory.
LEMMA DstCell ==
  ASSUME NEW j \in 1 .. Total
  PROVE  Dst(mode, j) \in Cells
<1>1. <<j>> \in Scratch
  BY Sizes, EngineShapeAssumption DEF Scratch
<1> QED BY <1>1, PairOfCell DEF Dst, Cells

\* A step that sends and stores nothing, and owes the same cells or none.
LEMMA FlowFrame ==
  ASSUME Flow, UNCHANGED <<r, mode, tseq, pipe, fifo, drain, puts>>,
         \A j \in 1 .. Total : mem'[Dst(mode, j)] = mem[Dst(mode, j)],
         tseq.left > 0 => Result' = Result, tseq.left \in Nat,
         Owed' = Owed \/ Owed' = 0, Given' = Given
  PROVE  Flow'
<1>1. FifoFits' /\ PipeFits' /\ PutsFit'
  BY DEF Flow, FifoFits, PipeFits, PutsFit
<1>2. SeqFits'
  <2>1. CASE tseq.left > 0
    BY <2>1 DEF Flow, SeqFits
  <2>2. CASE ~(tseq.left > 0)
    BY <2>2 DEF SeqFits
  <2> QED BY <2>1, <2>2
<1>3. NextCells'
  <2>1. InMotion' = InMotion
    BY DEF InMotion
  <2>2. CASE Owed' = Owed
    BY <2>1, <2>2 DEF Flow, NextCells
  <2>3. CASE Owed' = 0
    BY <2>3 DEF NextCells
  <2> QED BY <2>2, <2>3
<1>4. Underway'
  <2> SUFFICES ASSUME NEW j \in 1 .. Total, Covered(j)'
               PROVE  mem'[Dst(mode, j)] = Right(r, Cell(mode, j)) \/ Bound(Dst(mode, j))'
    BY DEF Underway
  <2>1. Covered(j)
    BY DEF Covered, Strided
  <2>2. mem[Dst(mode, j)] = Right(r, Cell(mode, j)) \/ Bound(Dst(mode, j))
    BY <2>1 DEF Flow, Underway
  <2> QED BY <2>2 DEF Bound
<1> QED BY <1>1, <1>2, <1>3, <1>4 DEF Flow

\* What the engine sends on keeps its destination.
LEMMA UnitFlow ==
  ASSUME Typed, CountInv, Apart, Running, Flow, Unit, ~err'
  PROVE  Flow'
<1>a. UNCHANGED <<pc, k, mode, r>>
  BY UnitFrame DEF plan
<1>b. Owed' = Owed /\ Given' = Given
  BY <1>a DEF Owed, Col, Strided, WOuter, Pad, Given
<1>c. \A j : Covered(j)' <=> Covered(j)
  BY <1>a, <1>b DEF Covered, Strided
<1>d. /\ tseq \in [left : Nat, ab : 0 .. 1, wb : 0 .. 1] /\ pipe \in Seq(Values) /\ Len(pipe) <= 1
      /\ fifo \in Seq(Values) /\ drain.dst \in Seq(Cells) /\ Len(fifo) \in Nat /\ Len(pipe) \in Nat
      /\ Len(drain.dst) \in Nat /\ Owed \in Nat /\ InMotion = Len(fifo) + Len(pipe) + tseq.left
      /\ tseq.left \in Nat
  BY Counts DEF Typed, UnitOK, StoreOK, DrainOK, InMotion
<1>e. Len(drain.dst) = InMotion + Owed
  BY DEF CountInv, Balance
<1>1. CASE FillDone
  <2>1. /\ UNCHANGED <<tseq, pipe, fifo, drain, puts, mem>> /\ Filling
        /\ \/ bufs' = bufs
           \/ bufs' = [bufs EXCEPT ![ld.client][ld.buf] =
                         <<IF ld.client = "A" THEN inp[ld.tile] ELSE r, ld.tile>>]
    BY <1>1 DEF FillDone, store
  <2>2. tseq.left > 0 => bufs'["A"][tseq.ab] = bufs["A"][tseq.ab] /\ bufs'["W"][tseq.wb] = bufs["W"][tseq.wb]
    <3>1. /\ bufs \in [{"A", "W"} -> [0 .. 1 -> (0 .. MaxRuns) \X Nat]]
          /\ ld.client \in {"A", "W"} /\ ld.buf \in 0 .. 1
      BY DEF Typed, UnitOK
    <3> QED BY <1>d, <2>1, <3>1, SMTT(30) DEF Apart, LoadClash, Computing
  <2>3. tseq.left > 0 => Result' = Result
    BY <2>1, <2>2 DEF Result
  <2> QED BY <1>a, <1>b, <1>d, <2>1, <2>3, FlowFrame
<1>2. CASE Emit
  <2>1. /\ tseq.left > 0 /\ Len(pipe) = 0 /\ tseq' = [tseq EXCEPT !.left = tseq.left - 1]
        /\ pipe' = << Result >> /\ UNCHANGED <<bufs, fifo, drain, puts, mem>>
    BY <1>2, <1>d DEF Emit, CanEmit, Computing, InPipe, store
  <2>2. /\ tseq'.left = tseq.left - 1 /\ tseq'.ab = tseq.ab /\ tseq'.wb = tseq.wb
        /\ Len(pipe') = 1 /\ pipe'[1] = Result
    BY <1>d, <2>1
  <2>3. Result' = Result
    BY <2>1, <2>2 DEF Result
  <2>4. InMotion' = InMotion
    BY <1>d, <2>1, <2>2 DEF InMotion
  <2>5. NextCells'
    BY <1>a, <1>b, <2>1, <2>4 DEF Flow, NextCells
  <2>6. FifoFits' /\ PutsFit'
    BY <1>a, <2>1 DEF Flow, FifoFits, PutsFit
  <2>7. PipeFits'
    <3>1. 1 \in 1 .. tseq.left /\ Len(fifo) + Len(pipe) + 1 = Len(fifo) + 1
      BY <1>d, <2>1
    <3> QED BY <1>a, <2>1, <2>2, <3>1 DEF Flow, SeqFits, PipeFits
  <2>8. SeqFits'
    <3> SUFFICES ASSUME NEW i \in 1 .. tseq'.left
                 PROVE  Fits(mode, r, drain.dst[Len(fifo) + 1 + i], Result)
      BY <1>a, <2>1, <2>2, <2>3 DEF SeqFits
    <3>1. i + 1 \in 1 .. tseq.left /\ Len(fifo) + Len(pipe) + (i + 1) = Len(fifo) + 1 + i
      BY <1>d, <2>1, <2>2
    <3> QED BY <3>1 DEF Flow, SeqFits
  <2>9. Underway'
    BY <1>a, <1>c, <2>1 DEF Flow, Underway, Bound
  <2> QED BY <2>5, <2>6, <2>7, <2>8, <2>9 DEF Flow
<1>3. CASE Pack
  <2>1. /\ pipe # << >> /\ fifo' = fifo \o pipe /\ pipe' = << >>
        /\ UNCHANGED <<bufs, tseq, drain, puts, mem>>
    BY <1>3 DEF Pack, InPipe
  <2>3. Len(pipe) = 1 /\ Len(pipe') = 0
    <3>1. Len(pipe) # 0
      BY <2>1, Counts
    <3>2. Len(pipe') = 0
      BY <2>1
    <3>3. PICK n \in Nat : n = Len(pipe) /\ n <= 1
      BY <1>d
    <3>4. n = 1
      BY <3>1, <3>3
    <3> QED BY <3>2, <3>3, <3>4
  <2>4. /\ Len(fifo') = Len(fifo) + 1 /\ \A i \in 1 .. Len(fifo) : fifo'[i] = fifo[i]
        /\ fifo'[Len(fifo) + 1] = pipe[1]
    <3>1. fifo \in Seq(Values) /\ pipe \in Seq(Values) /\ Len(pipe) <= 1
      BY <1>d
    <3>2. /\ Len(fifo \o pipe) = Len(fifo) + Len(pipe)
          /\ \A i \in 1 .. Len(fifo) : (fifo \o pipe)[i] = fifo[i]
          /\ Len(pipe) = 1 => (fifo \o pipe)[Len(fifo) + 1] = pipe[1]
      BY <3>1, Joined
    <3>3. fifo' = fifo \o pipe
      BY <2>1
    <3> QED BY <2>3, <3>2, <3>3
  <2>5. FifoFits'
    <3> SUFFICES ASSUME NEW i \in 1 .. Len(fifo) + 1
                 PROVE  Fits(mode, r, drain.dst[i], fifo'[i])
      BY <1>a, <2>1, <2>4 DEF FifoFits
    <3>1. CASE i \in 1 .. Len(fifo)
      BY <2>4, <3>1 DEF Flow, FifoFits
    <3>2. CASE i = Len(fifo) + 1
      BY <2>3, <2>4, <3>2 DEF Flow, PipeFits
    <3> QED BY <1>d, <3>1, <3>2
  <2>6. Result' = Result
    BY <2>1 DEF Result
  <2>7. PipeFits' /\ PutsFit'
    BY <1>a, <2>1, <2>3 DEF Flow, PipeFits, PutsFit
  <2>8. SeqFits'
    <3>1. Len(fifo') + Len(pipe') = Len(fifo) + Len(pipe)
      BY <1>d, <2>3, <2>4
    <3> QED BY <1>a, <2>1, <2>6, <3>1 DEF Flow, SeqFits
  <2>9. InMotion' = InMotion
    BY <1>d, <2>1, <2>3, <2>4 DEF InMotion
  <2>10. NextCells'
    BY <1>a, <1>b, <2>1, <2>9 DEF Flow, NextCells
  <2>11. Underway'
    BY <1>a, <1>c, <2>1 DEF Flow, Underway, Bound
  <2> QED BY <2>5, <2>7, <2>8, <2>10, <2>11 DEF Flow
<1>4. CASE StartPut
  <2> DEFINE n == drain.per
  <2>1. CanPut /\ UNCHANGED <<bufs, tseq, pipe, mem>> /\ StoreOK
    BY <1>4 DEF StartPut, engine, Typed
  <2>2. n \in 1 .. Len(fifo) /\ n \in 1 .. Len(drain.dst)
    BY <2>1, PutTaken
  <2>3. /\ fifo' = SubSeq(fifo, n + 1, Len(fifo)) /\ drain'.dst = SubSeq(drain.dst, n + 1, Len(drain.dst))
    BY <1>4, <2>1 DEF StartPut, StoreOK, DrainOK
  <2>4. PICK lost : puts' = puts \cup {[dst |-> SubSeq(drain.dst, 1, n), lost |-> lost,
                                        val |-> SubSeq(fifo, 1, n), i |-> drain.issued]}
    BY <1>4 DEF StartPut
  <2> DEFINE q == [dst |-> SubSeq(drain.dst, 1, n), lost |-> lost, val |-> SubSeq(fifo, 1, n),
                   i |-> drain.issued]
  <2>5. /\ Len(q.dst) = n /\ \A i \in 1 .. n : q.dst[i] = drain.dst[i] /\ q.val[i] = fifo[i]
    <3>1. n \in 0 .. Len(fifo) /\ n \in 0 .. Len(drain.dst)
      BY <1>d, <2>2
    <3>2. Len(SubSeq(drain.dst, 1, n)) = n /\ \A i \in 1 .. n : SubSeq(drain.dst, 1, n)[i] = drain.dst[i]
      BY <1>d, <3>1, Halves
    <3>3. \A i \in 1 .. n : SubSeq(fifo, 1, n)[i] = fifo[i]
      BY <1>d, <3>1, Halves
    <3>4. q.dst = SubSeq(drain.dst, 1, n) /\ q.val = SubSeq(fifo, 1, n)
      OBVIOUS
    <3> HIDE DEF q
    <3> QED BY <3>2, <3>3, <3>4
  <2>6. /\ Len(fifo') = Len(fifo) - n /\ \A i \in 1 .. Len(fifo) - n : fifo'[i] = fifo[n + i]
    <3>1. n \in 0 .. Len(fifo) /\ fifo \in Seq(Values)
      BY <1>d, <2>2
    <3>2. /\ Len(SubSeq(fifo, n + 1, Len(fifo))) = Len(fifo) - n
          /\ \A i \in 1 .. Len(fifo) - n : SubSeq(fifo, n + 1, Len(fifo))[i] = fifo[n + i]
      BY <3>1, Halves, SMTT(30)
    <3>3. fifo' = SubSeq(fifo, n + 1, Len(fifo))
      BY <2>3
    <3> QED BY <3>2, <3>3
  <2>7. /\ Len(drain'.dst) = Len(drain.dst) - n
        /\ \A i \in 1 .. Len(drain.dst) - n : drain'.dst[i] = drain.dst[n + i]
    <3>1. n \in 0 .. Len(drain.dst) /\ drain.dst \in Seq(Cells)
      BY <1>d, <2>2
    <3>2. /\ Len(SubSeq(drain.dst, n + 1, Len(drain.dst))) = Len(drain.dst) - n
          /\ \A i \in 1 .. Len(drain.dst) - n : SubSeq(drain.dst, n + 1, Len(drain.dst))[i] = drain.dst[n + i]
      BY <3>1, Halves, SMTT(30)
    <3>3. drain'.dst = SubSeq(drain.dst, n + 1, Len(drain.dst))
      BY <2>3
    <3> QED BY <3>2, <3>3
  <2>8. puts' = puts \cup {q}
    BY <2>4
  <2>9. Result' = Result /\ n \in Nat /\ n <= Len(fifo)
    BY <1>d, <2>1, <2>2 DEF Result
  <2> HIDE DEF n, q
  <2>11. FifoFits'
    <3> SUFFICES ASSUME NEW i \in 1 .. Len(fifo) - n
                 PROVE  Fits(mode, r, drain'.dst[i], fifo'[i])
      BY <1>a, <2>6 DEF FifoFits
    <3>1. n + i \in 1 .. Len(fifo) /\ i \in 1 .. Len(drain.dst) - n
      BY <1>d, <1>e, <2>9
    <3>2. Fits(mode, r, drain.dst[n + i], fifo[n + i])
      BY <3>1 DEF Flow, FifoFits
    <3> QED BY <2>6, <2>7, <3>1, <3>2
  <2>12. PipeFits'
    <3> SUFFICES ASSUME Len(pipe) = 1 PROVE Fits(mode, r, drain'.dst[Len(fifo) - n + 1], pipe[1])
      BY <1>a, <2>1, <2>6 DEF PipeFits
    <3>1. n + (Len(fifo) - n + 1) = Len(fifo) + 1 /\ Len(fifo) - n + 1 \in 1 .. Len(drain.dst) - n
      BY <1>d, <1>e, <2>9
    <3>2. drain'.dst[Len(fifo) - n + 1] = drain.dst[Len(fifo) + 1]
      BY <2>7, <3>1
    <3> QED BY <3>2 DEF Flow, PipeFits
  <2>13. SeqFits'
    <3> SUFFICES ASSUME NEW i \in 1 .. tseq.left
                 PROVE  Fits(mode, r, drain'.dst[Len(fifo) - n + Len(pipe) + i], Result)
      BY <1>a, <2>1, <2>6, <2>9 DEF SeqFits
    <3>1. /\ n + (Len(fifo) - n + Len(pipe) + i) = Len(fifo) + Len(pipe) + i
          /\ Len(fifo) - n + Len(pipe) + i \in 1 .. Len(drain.dst) - n
      BY <1>d, <1>e, <2>9, SMTT(30)
    <3>2. drain'.dst[Len(fifo) - n + Len(pipe) + i] = drain.dst[Len(fifo) + Len(pipe) + i]
      BY <2>7, <3>1
    <3> QED BY <3>2 DEF Flow, SeqFits
  <2>14. NextCells'
    <3>1. InMotion' = InMotion - n /\ InMotion \in Nat
      BY <1>d, <2>1, <2>6, <2>9 DEF InMotion
    <3> SUFFICES ASSUME NEW i \in 1 .. Owed
                 PROVE  drain'.dst[InMotion - n + i] = Dst(mode, Given + i)
      BY <1>a, <1>b, <3>1 DEF NextCells
    <3>2. n + (InMotion - n + i) = InMotion + i /\ InMotion - n + i \in 1 .. Len(drain.dst) - n
      <4>1. n \in Nat /\ n <= InMotion /\ InMotion \in Nat /\ Owed \in Nat
        BY <1>d, <2>9
      <4> QED BY <1>e, <4>1
    <3>3. drain'.dst[InMotion - n + i] = drain.dst[InMotion + i]
      BY <2>7, <3>2
    <3> QED BY <3>3 DEF Flow, NextCells
  <2>15. PutsFit'
    <3>1. \A i \in 1 .. Len(q.dst) : Fits(mode, r, q.dst[i], q.val[i])
      <4> SUFFICES ASSUME NEW i \in 1 .. n PROVE Fits(mode, r, drain.dst[i], fifo[i])
        BY <2>5
      <4>1. i \in 1 .. Len(fifo)
        BY <1>d, <2>9
      <4> QED BY <4>1 DEF Flow, FifoFits
    <3> QED BY <1>a, <2>8, <3>1 DEF Flow, PutsFit
  <2>16. ASSUME NEW x, Bound(x) PROVE Bound(x)'
    <3>1. CASE \E p \in puts : \E i \in 1 .. Len(p.dst) : p.dst[i] = x
      BY <2>8, <3>1 DEF Bound
    <3>2. ASSUME NEW i \in 1 .. Len(drain.dst), drain.dst[i] = x PROVE Bound(x)'
      <4>1. CASE i \in 1 .. n
        BY <2>5, <2>8, <3>2, <4>1 DEF Bound
      <4>2. CASE i \notin 1 .. n
        <5>1. i - n \in 1 .. Len(drain.dst) - n /\ n + (i - n) = i
          BY <1>d, <2>9, <4>2
        <5>2. drain'.dst[i - n] = x /\ i - n \in 1 .. Len(drain'.dst)
          BY <2>7, <3>2, <5>1
        <5> QED BY <5>2 DEF Bound
      <4> QED BY <4>1, <4>2
    <3> QED BY <2>16, <3>1, <3>2 DEF Bound
  <2>17. Underway'
    <3> SUFFICES ASSUME NEW j \in 1 .. Total, Covered(j)'
                 PROVE  mem[Dst(mode, j)] = Right(r, Cell(mode, j)) \/ Bound(Dst(mode, j))'
      BY <1>a, <2>1 DEF Underway
    <3>1. mem[Dst(mode, j)] = Right(r, Cell(mode, j)) \/ Bound(Dst(mode, j))
      BY <1>c DEF Flow, Underway
    <3>2. PICK x : x = Dst(mode, j)
      OBVIOUS
    <3>3. Bound(x) => Bound(x)'
      BY <2>16
    <3> QED BY <1>a, <3>1, <3>2, <3>3 DEF Bound
  <2> QED BY <2>11, <2>12, <2>13, <2>14, <2>15, <2>17 DEF Flow
<1>5. CASE Ack
  <2>1. PICK p \in Answered : /\ puts' = puts \ {p}
                              /\ (mem' = Lands(p) /\ err' = err) \/ err' = TRUE
    BY <1>5 DEF Ack
  <2>2. UNCHANGED <<bufs, tseq, pipe, fifo, drain>> /\ p \in puts /\ mem' = Lands(p)
    BY <1>5, <2>1 DEF Ack, Answered
  <2>3. /\ p.dst \in Seq(Cells) /\ mem \in [Cells -> Values]
        /\ DOMAIN p.dst = 1 .. Len(p.dst)
    BY <2>2 DEF Typed, StoreOK, PutSet, MemOK
  <2>4. ASSUME NEW j \in 1 .. Total
        PROVE  /\ mem'[Dst(mode, j)] = mem[Dst(mode, j)] \/ mem'[Dst(mode, j)] = Right(r, Cell(mode, j))
               /\ (\E i \in 1 .. Len(p.dst) : p.dst[i] = Dst(mode, j)) =>
                    mem'[Dst(mode, j)] = Right(r, Cell(mode, j))
    <3>1. PICK x \in Cells : x = Dst(mode, j)
      BY DstCell
    <3>2. ASSUME NEW i \in DOMAIN p.dst, p.dst[i] = x
          PROVE  p.val[CHOOSE y \in DOMAIN p.dst : p.dst[y] = x] = Right(r, Cell(mode, j))
      BY <2>2, <2>3, <3>1, <3>2 DEF Flow, PutsFit, Fits
    <3> QED BY <2>2, <2>3, <3>1, <3>2 DEF Lands
  <2>5. NextCells'
    BY <1>a, <1>b, <2>2 DEF Flow, NextCells, InMotion
  <2>6. FifoFits' /\ PipeFits' /\ SeqFits' /\ PutsFit'
    <3>1. Result' = Result
      BY <2>2 DEF Result
    <3> QED BY <1>a, <2>1, <2>2, <3>1 DEF Flow, FifoFits, PipeFits, SeqFits, PutsFit
  <2>7. Underway'
    <3> SUFFICES ASSUME NEW j \in 1 .. Total, Covered(j)'
                 PROVE  mem'[Dst(mode, j)] = Right(r, Cell(mode, j)) \/ Bound(Dst(mode, j))'
      BY <1>a DEF Underway
    <3>1. mem[Dst(mode, j)] = Right(r, Cell(mode, j)) \/ Bound(Dst(mode, j))
      BY <1>c DEF Flow, Underway
    <3>2. PICK x : x = Dst(mode, j)
      OBVIOUS
    <3>3. Bound(x) => Bound(x)' \/ \E i \in 1 .. Len(p.dst) : p.dst[i] = x
      BY <2>1, <2>2 DEF Bound
    <3> QED BY <1>a, <2>4, <3>1, <3>2, <3>3 DEF Bound
  <2> QED BY <2>5, <2>6, <2>7 DEF Flow
<1> QED BY <1>1, <1>2, <1>3, <1>4, <1>5 DEF Unit

\* What is owed is a number after a step as well.
LEMMA OwedNext ==
  ASSUME Typed'
  PROVE  Owed' \in Nat
<1>1. k' \in 1 .. Total /\ TilesA \in Nat \ {0} /\ Total \in Nat
  BY Sizes, EngineShapeAssumption DEF Typed, PlanOK
<1>2. PICK j \in 1 .. Total : j = k'
  BY <1>1
<1>3. PICK p \in Nat : p = Pad'
  BY EngineShapeAssumption, <1>1 DEF Pad
<1>4. PICK c \in 0 .. TilesA - 1 : c = Col'
  <2>1. j - 1 \in Nat
    BY <1>1
  <2>2. (j - 1) % TilesA \in 0 .. TilesA - 1
    BY <1>1, <2>1, NextColumn
  <2> QED BY <1>2, <2>2 DEF Col
<1>5. \A o : Owed' = o =>
        o \in {0, p, 1, Total - j + p, Total - j + 1 + p, TilesA - 1 - c, TilesA - c}
  BY <1>2, <1>3, <1>4 DEF Owed
<1> QED BY <1>1, <1>5

\* Within a run what is owed changes only with what is sent or armed.
LEMMA OwedSame ==
  ASSUME Typed, Typed', CountInv, CountInv', Running, Running', UNCHANGED <<tseq, pipe, fifo, drain>>
  PROVE  Owed' = Owed
<1>1. InMotion' = InMotion
  BY DEF InMotion
<1>2. Len(drain.dst) = InMotion + Owed
  BY DEF CountInv, Balance
<1>3. Len(drain'.dst) = InMotion' + Owed'
  BY DEF CountInv, Balance
<1>4. Owed \in Nat /\ Owed' \in Nat /\ InMotion \in Nat
  BY Counts, OwedNext
<1> QED BY <1>1, <1>2, <1>3, <1>4

\* A load never changes what the sequencer computes.
LEMMA SameResult ==
  ASSUME Typed, NEW c \in {"A", "W"}, NEW b \in 0 .. 1, NEW tile, Load(c, b, tile), tseq' = tseq
  PROVE  (tseq.left > 0 => Result' = Result) /\ (~err' => ~err)
<1>1. CASE Filling \/ LoadClash(c, b)
  BY <1>1 DEF Load, Result
<1>2. CASE ~(Filling \/ LoadClash(c, b))
  <2>1. bufs' = [bufs EXCEPT ![c][b] = <<0, 0>>] /\ err' = err
    BY <1>2 DEF Load
  <2>2. /\ bufs \in [{"A", "W"} -> [0 .. 1 -> (0 .. MaxRuns) \X Nat]]
        /\ tseq.ab \in 0 .. 1 /\ tseq.wb \in 0 .. 1
    BY DEF Typed, UnitOK
  <2>3. tseq.left > 0 => bufs'["A"][tseq.ab] = bufs["A"][tseq.ab] /\ bufs'["W"][tseq.wb] = bufs["W"][tseq.wb]
    BY <1>2, <2>1, <2>2 DEF LoadClash, Computing
  <2> QED BY <2>1, <2>3 DEF Result
<1> QED BY <1>1, <1>2

\* An engine at rest holds nothing the drain was not armed for.
LEMMA AtRest ==
  ASSUME Typed, CountInv, Running, ~Draining
  PROVE  /\ puts = {} /\ Len(drain.dst) = 0 /\ InMotion = 0 /\ Owed = 0
         /\ Len(fifo) = 0 /\ Len(pipe) = 0 /\ tseq.left = 0
<1>1. puts = {} /\ Len(drain.dst) = 0
  BY Counts DEF Draining
<1>2. Len(drain.dst) = InMotion + Owed
  BY DEF CountInv, Balance
<1> QED BY <1>1, <1>2, Counts, SMTT(30) DEF InMotion

\* The flat drain starts with a descriptor of the whole scratch; the strided
\* one has promised no cell yet.
LEMMA StartFlow ==
  ASSUME Typed, Typed', CountInv, CountInv', Start
  PROVE  Flow'
<1>1. /\ pc = "start" /\ pc' = "act" /\ k' = k /\ k = 1 /\ mode' = mode /\ ~Draining
      /\ UNCHANGED <<tseq, pipe, fifo, puts, mem, r>>
      /\ (~Strided => drain'.dst = FlatDst)
  BY DEF Start, At, CountInv, Nest, Quiet, Busy, ArmDrain
<1>2. puts' = {} /\ InMotion' = 0 /\ Len(fifo') = 0 /\ Len(pipe') = 0 /\ tseq'.left = 0
  <2>1. Running
    BY <1>1 DEF Running
  <2> QED BY <1>1, <2>1, AtRest DEF InMotion
<1>3. FifoFits' /\ PipeFits' /\ SeqFits' /\ PutsFit'
  BY <1>2 DEF FifoFits, PipeFits, SeqFits, PutsFit
<1>4. Given' = 0
  BY <1>1 DEF Given
<1>5. Total \in Nat /\ Pad \in Nat
  BY Sizes
<1>6. Len(drain'.dst) = Owed' /\ Owed' \in Nat
  <2>1. Running' /\ Owed' \in Nat
    BY <1>1, OwedNext DEF Running
  <2> QED BY <1>2, <2>1 DEF CountInv, Balance
<1>7. NextCells'
  <2> SUFFICES ASSUME NEW i \in 1 .. Owed' PROVE drain'.dst[i] = Dst(mode, i)
    <3>1. \A i \in 1 .. Owed' : 0 + i = i
      BY <1>6
    <3> QED BY <1>1, <1>2, <1>4, <3>1 DEF NextCells
  <2>1. CASE ~Strided
    <3>1. i \in 1 .. Total + Pad
      BY <1>1, <1>6, <2>1, Descriptors
    <3> QED BY <1>1, <2>1, <3>1, Descriptors DEF Dst, Strided
  <2>2. CASE Strided
    <3>1. drain' = drain
      BY <1>1, <2>2 DEF Start
    <3>2. Len(drain.dst) = 0
      BY <1>1, AtRest DEF Running
    <3> QED BY <1>6, <3>1, <3>2
  <2> QED BY <2>1, <2>2
<1>8. Underway'
  <2> SUFFICES ASSUME NEW j \in 1 .. Total, Covered(j)' PROVE Bound(Dst(mode, j))'
    BY DEF Underway
  <2>1. ~Strided
    <3>1. ~(j <= 0)
      BY <1>5
    <3> QED BY <1>1, <1>4, <3>1 DEF Covered, Strided
  <2>2. j \in 1 .. Total + Pad
    BY <1>5
  <2>3. drain'.dst[j] = Dst(mode, j) /\ j \in 1 .. Len(drain'.dst)
    BY <1>1, <2>1, <2>2, Descriptors DEF Dst, Strided
  <2> QED BY <1>1, <2>3 DEF Bound
<1> QED BY <1>3, <1>7, <1>8 DEF Flow

\* A column's descriptor is armed when every earlier cell is in memory.
LEMMA ArmFlow ==
  ASSUME Typed, Typed', CountInv, CountInv', BufferInv, Flow, ArmStrided
  PROVE  Flow'
<1>1. /\ pc = "arm" /\ pc' = "mm" /\ UNCHANGED <<k, mode, tseq, pipe, fifo, puts, mem, r>>
      /\ ~Draining /\ drain'.dst = StridedDst(k) /\ ArmsDrain(k) /\ Running /\ Running'
  BY DEF ArmStrided, engine, At, Masked, ArmMask, ArmDrain, Typed, PlanOK, Running
<1>2. /\ puts = {} /\ Len(drain.dst) = 0 /\ InMotion' = 0
      /\ Len(fifo') = 0 /\ Len(pipe') = 0 /\ tseq'.left = 0
  BY <1>1, AtRest DEF InMotion
<1>3. FifoFits' /\ PipeFits' /\ SeqFits' /\ PutsFit'
  BY <1>1, <1>2 DEF FifoFits, PipeFits, SeqFits, PutsFit
<1>4. Given' = k - 1 /\ Given = k - 1
  BY <1>1 DEF Given
<1>5. Len(drain'.dst) = Owed' /\ Owed' \in Nat
  BY <1>1, <1>2, OwedNext DEF CountInv, Balance
<1>6. Strided /\ k \in 1 .. Total
  BY <1>1 DEF ArmsDrain, Typed, PlanOK
<1>7. NextCells'
  <2> SUFFICES ASSUME NEW i \in 1 .. Owed' PROVE drain'.dst[0 + i] = Dst(mode, k - 1 + i)
    BY <1>1, <1>2, <1>4 DEF NextCells
  <2>1. i \in 1 .. Len(StridedDst(k)) /\ 0 + i = i
    BY <1>1, <1>5
  <2>2. StridedDst(k)[i] = Cell(mode, k - 1 + i)
    BY <1>1, <1>6, <2>1, RowsInOrder
  <2> QED BY <1>1, <1>6, <2>1, <2>2 DEF Dst, Strided
<1>8. Underway'
  <2> SUFFICES ASSUME NEW j \in 1 .. Total, Covered(j)'
               PROVE  mem[Dst(mode, j)] = Right(r, Cell(mode, j))
    BY <1>1 DEF Underway
  <2>1. Covered(j)
    BY <1>1, <1>4 DEF Covered, Strided
  <2>2. ~Bound(Dst(mode, j))
    BY <1>2 DEF Bound
  <2> QED BY <2>1, <2>2 DEF Flow, Underway
<1> QED BY <1>3, <1>7, <1>8 DEF Flow

\* A pair is computed from the run's own tiles, for the destination that comes
\* next.
LEMMA ComputeFlow ==
  ASSUME Typed, Typed', CountInv, CountInv', BufferInv, Held, Flow, Compute, ActRight, WgtRight
  PROVE  Flow'
<1> USE DEF At
<1>1. /\ pc = "mm" /\ pc' = "pre" /\ UNCHANGED <<r, mode, k, aIn, wIn, ld, bufs, pipe, fifo, drain, puts, mem>>
      /\ cab' = Find(aIn, ATile(k)) /\ cwb' = Find(wIn, WTile(k)) /\ Multiply(cab', cwb', 1)
      /\ Running /\ Running'
  BY DEF Compute, store, Running
<1>2. cab' \in 0 .. 1 /\ cwb' \in 0 .. 1 /\ aIn[cab'] = ATile(k) /\ wIn[cwb'] = WTile(k)
  BY <1>1 DEF Held, Holds, Find
<1>3. ~Filling /\ ~Computing
  BY <1>1 DEF BufferInv, Filled, Still
<1>4. tseq' = [left |-> 1, ab |-> cab', wb |-> cwb']
  BY <1>1, <1>3 DEF Multiply, MmClash
<1>5. tseq.left = 0
  BY <1>3, Counts DEF Computing
<1>6. k \in 1 .. Total /\ ATile(k) \in ATiles /\ WTile(k) \in WTiles
  BY TilesOfPair DEF Typed, PlanOK
<1>7. bufs["A"][cab'] = <<r, ATile(k)>> /\ bufs["W"][cwb'] = <<r, WTile(k)>>
  <2>1. aIn[cab'] # None /\ wIn[cwb'] # None
    BY <1>2, <1>6, EngineShapeAssumption DEF None, ATiles, WTiles
  <2>2. ~FillingA(cab') /\ ~FillingW(cwb')
    BY <1>3 DEF FillingA, FillingW, Filling
  <2> QED BY <1>2, <2>1, <2>2 DEF ActRight, WgtRight
<1>8. Result' = Right(r, Cell(mode, k))
  <2>1. r > 0
    BY <1>1 DEF Typed, PlanOK
  <2>2. tseq'.ab = cab' /\ tseq'.wb = cwb'
    BY <1>4
  <2>3. bufs'["A"][tseq'.ab] = <<r, ATile(k)>> /\ bufs'["W"][tseq'.wb] = <<r, WTile(k)>>
    BY <1>1, <1>7, <2>2
  <2>4. Result' = <<r, ATile(k), WTile(k)>>
    BY <2>1, <2>3 DEF Result
  <2>5. Cell(mode, k) = <<ATile(k), WTile(k)>>
    BY CellIs DEF CellOf
  <2> QED BY <2>4, <2>5 DEF Right
<1>9. Len(drain.dst) = InMotion + Owed /\ Len(drain.dst) = InMotion' + Owed'
  BY <1>1 DEF CountInv, Balance
<1>10. /\ InMotion = Len(fifo) + Len(pipe) /\ InMotion' = InMotion + 1 /\ Owed' = Owed - 1
       /\ InMotion \in Nat /\ Owed \in Nat /\ Owed' \in Nat
  <2>1. Owed \in Nat /\ Owed' \in Nat /\ Len(fifo) \in Nat /\ Len(pipe) \in Nat
    BY Counts, OwedNext
  <2>2. InMotion = Len(fifo) + Len(pipe) /\ InMotion' = Len(fifo) + Len(pipe) + 1
    BY <1>1, <1>4, <1>5, <2>1 DEF InMotion
  <2>3. InMotion' = InMotion + 1 /\ InMotion \in Nat
    BY <2>1, <2>2
  <2> QED BY <1>9, <2>1, <2>2, <2>3
<1>11. Given = k - 1 /\ Given' = k /\ k \in Nat
  BY <1>1, <1>6, Sizes DEF Given
<1>12. drain.dst[InMotion + 1] = Dst(mode, k) /\ InMotion + 1 \in 1 .. Len(drain.dst)
  <2>1. 1 \in 1 .. Owed /\ Given + 1 = k
    BY <1>10, <1>11
  <2>2. InMotion + 1 \in 1 .. Len(drain.dst)
    BY <1>9, <1>10
  <2> QED BY <2>1, <2>2 DEF Flow, NextCells
<1>13. SeqFits'
  <2>1. Fits(mode, r, Dst(mode, k), Right(r, Cell(mode, k)))
    BY <1>6 DEF Fits, Dst
  <2>2. tseq'.left = 1
    BY <1>4
  <2>3. drain.dst[Len(fifo) + Len(pipe) + 1] = Dst(mode, k)
    BY <1>10, <1>12
  <2> QED BY <1>1, <1>8, <2>1, <2>2, <2>3 DEF SeqFits
<1>14. FifoFits' /\ PipeFits' /\ PutsFit'
  BY <1>1 DEF Flow, FifoFits, PipeFits, PutsFit
<1>15. NextCells'
  <2> SUFFICES ASSUME NEW i \in 1 .. Owed' PROVE drain.dst[InMotion + 1 + i] = Dst(mode, k + i)
    BY <1>1, <1>10, <1>11 DEF NextCells
  <2>1. i + 1 \in 1 .. Owed /\ InMotion + (i + 1) = InMotion + 1 + i /\ Given + (i + 1) = k + i
    BY <1>10, <1>11
  <2> QED BY <2>1 DEF Flow, NextCells
<1>16. Underway'
  <2> SUFFICES ASSUME NEW j \in 1 .. Total, Covered(j)'
               PROVE  mem[Dst(mode, j)] = Right(r, Cell(mode, j)) \/ Bound(Dst(mode, j))
    BY <1>1 DEF Underway, Bound
  <2>1. CASE j = k
    BY <1>12, <2>1 DEF Bound
  <2>2. CASE j # k
    <3>1. Covered(j)
      BY <1>1, <1>11, <2>2 DEF Covered, Strided
    <3> QED BY <3>1 DEF Flow, Underway
  <2> QED BY <2>1, <2>2
<1> QED BY <1>13, <1>14, <1>15, <1>16 DEF Flow

\* What the padding tile sends goes past the last pair.
LEMMA PadFlow ==
  ASSUME Typed, Typed', CountInv, CountInv', BufferInv, Flow, PadTile
  PROVE  Flow'
<1> USE DEF At
<1>1. /\ pc = "pad" /\ pc' = "end" /\ UNCHANGED <<r, mode, k, ld, bufs, pipe, fifo, drain, puts, mem>>
      /\ Multiply(cab, cwb, Pad) /\ ~Computing /\ ~Strided /\ Running /\ Running'
  BY DEF PadTile, store, Masked, CountInv, Nest, Running
<1>2. Pad \in Nat /\ Total \in Nat
  BY Sizes
<1>3. tseq' = [left |-> Pad, ab |-> cab, wb |-> cwb]
  BY <1>1, <1>2, TileTaken DEF BufferInv, Filled, Chosen
<1>4. tseq.left = 0 /\ tseq'.left = Pad
  BY <1>1, <1>3, Counts DEF Computing
<1>5. Owed = Pad /\ Owed' = 0 /\ Given = Total /\ Given' = Total
  BY <1>1 DEF Owed, Given
<1>6. InMotion = Len(fifo) + Len(pipe)
  BY <1>4, Counts DEF InMotion
<1>7. SeqFits'
  <2> SUFFICES ASSUME NEW i \in 1 .. Pad
               PROVE  Fits(mode, r, drain.dst[InMotion + i], Result')
    BY <1>1, <1>4, <1>6 DEF SeqFits
  <2>1. drain.dst[InMotion + i] = <<Total + i>>
    BY <1>1, <1>5 DEF Flow, NextCells, Dst, Strided
  <2>2. \A j \in 1 .. Total : <<Total + i>> # <<j>>
    BY <1>2
  <2> QED BY <1>1, <2>1, <2>2 DEF Fits, Dst, Strided
<1>8. FifoFits' /\ PipeFits' /\ PutsFit' /\ NextCells'
  BY <1>1, <1>5 DEF Flow, FifoFits, PipeFits, PutsFit, NextCells
<1>9. Underway'
  BY <1>1 DEF Flow, Underway, Bound, Covered, Strided
<1> QED BY <1>7, <1>8, <1>9 DEF Flow

\* A cell of the scratch is not one of the output.
LEMMA ScratchApart ==
  ASSUME NEW j
  PROVE  <<j>> \notin Output
BY DEF Output

\* The other steps of a run send nothing.
LEMMA QuietFlow ==
  ASSUME Typed, Typed', CountInv, CountInv', Flow, Running, Running', r' = r, ~err',
         LoadAct \/ LoadWgt \/ AwaitReady \/ Preload \/ NestDone \/ Finish \/ PlaceEarly
  PROVE  Flow'
<1> USE DEF At
<1>a. Other(cab) \in 0 .. 1 /\ Other(cwb) \in 0 .. 1 /\ tseq.left \in Nat
  BY Counts DEF Other
<1>b. k \in Nat /\ Total \in Nat
  BY Sizes DEF Typed, PlanOK
<1>1. UNCHANGED <<mode, tseq, pipe, fifo, drain, puts>>
  BY DEF LoadAct, LoadWgt, AwaitReady, Preload, NestDone, Finish, PlaceEarly, engine, store
<1>2. Owed' = Owed
  BY <1>1, OwedSame
<1>3. Given' = Given
  <2>1. CASE LoadAct \/ LoadWgt \/ AwaitReady
    BY <2>1 DEF LoadAct, LoadWgt, AwaitReady, Given
  <2>2. CASE Preload
    <3>1. pc = "pre" /\ pc' = "act" /\ k' = k + 1
      BY <2>2 DEF Preload
    <3> QED BY <1>b, <3>1 DEF Given
  <2>3. CASE NestDone
    <3>1. pc = "pre" /\ pc' \in {"pad", "end"} /\ k = Total
      BY <2>3 DEF NestDone
    <3> QED BY <3>1 DEF Given
  <2>4. CASE Finish
    <3>1. pc = "end" /\ pc' \in {"idle", "software", "late"}
      BY <2>4 DEF Finish, Return
    <3> QED BY <3>1 DEF Given
  <2>5. CASE PlaceEarly
    <3>1. pc' = pc /\ k' = k
      BY <2>5 DEF PlaceEarly
    <3> QED BY <3>1 DEF Given
  <2> QED BY <2>1, <2>2, <2>3, <2>4, <2>5
<1>4. tseq.left > 0 => Result' = Result
  <2>1. CASE LoadAct \/ LoadWgt \/ Preload
    <3>1. \/ \E c \in {"A", "W"}, b \in 0 .. 1 : \E tile : Load(c, b, tile)
          \/ bufs' = bufs
      BY <1>a, <2>1 DEF LoadAct, LoadWgt, Preload
    <3>2. CASE bufs' = bufs
      BY <1>1, <3>2 DEF Result
    <3>3. ASSUME NEW c \in {"A", "W"}, NEW b \in 0 .. 1, NEW tile, Load(c, b, tile)
          PROVE  tseq.left > 0 => Result' = Result
      BY <1>1, <3>3, SameResult
    <3> QED BY <3>1, <3>2, <3>3
  <2>2. CASE AwaitReady \/ NestDone \/ Finish \/ PlaceEarly
    <3>1. bufs' = bufs
      BY <2>2 DEF AwaitReady, NestDone, Finish, PlaceEarly, engine
    <3> QED BY <1>1, <3>1 DEF Result
  <2> QED BY <2>1, <2>2
<1>5. \A j \in 1 .. Total : mem'[Dst(mode, j)] = mem[Dst(mode, j)]
  <2>1. CASE PlaceEarly
    <3>1. PICK upto : PlaceUpto(upto) /\ ~Strided
      BY <2>1 DEF PlaceEarly
    <3>2. \A j \in 1 .. Total : Dst(mode, j) = <<j>> /\ Dst(mode, j) \in DOMAIN mem
      BY <3>1, DstCell DEF Dst, Strided, Typed, MemOK
    <3> QED BY <3>1, <3>2, ScratchApart DEF PlaceUpto
  <2>2. CASE LoadAct \/ LoadWgt \/ AwaitReady \/ Preload \/ NestDone \/ Finish
    BY <2>2 DEF LoadAct, LoadWgt, AwaitReady, Preload, NestDone, Finish
  <2> QED BY <2>1, <2>2
<1> QED BY <1>a, <1>1, <1>2, <1>3, <1>4, <1>5, FlowFrame

FlowInv == Active /\ ~err => Flow

\* The sticky bit is cleared only at the start of a run.
LEMMA StickyKept ==
  ASSUME (Hart1 /\ ~Start) \/ Unit
  PROVE  ~err' => ~err
<1>1. ASSUME NEW c, NEW b, NEW tile, Load(c, b, tile) PROVE ~err' => ~err
  BY <1>1 DEF Load
<1>2. ASSUME NEW ab, NEW wb, NEW cells, Multiply(ab, wb, cells) PROVE ~err' => ~err
  BY <1>2 DEF Multiply
<1>3. CASE LoadAct \/ LoadWgt \/ Preload
  BY <1>1, <1>3 DEF LoadAct, LoadWgt, Preload
<1>4. CASE Compute \/ PadTile
  BY <1>2, <1>4 DEF Compute, PadTile
<1>5. CASE FillDone \/ Ack
  BY <1>5, Zenon DEF FillDone, Ack
<1>6. CASE Emit \/ Pack \/ StartPut
  BY <1>6 DEF Emit, Pack, StartPut, engine
<1>7. CASE AwaitIdle \/ AwaitReady \/ ArmStrided \/ NestDone \/ Finish \/ PlaceEarly \/ PlaceLate
           \/ TimeOut \/ Software
  BY <1>7 DEF AwaitIdle, AwaitReady, ArmStrided, NestDone, Finish, PlaceEarly, PlaceLate, TimeOut,
     Software, engine
<1> QED BY <1>3, <1>4, <1>5, <1>6, <1>7 DEF Hart1, Unit

\* Every step of hart 1 keeps the flow.
LEMMA Hart1Flow ==
  ASSUME Typed, Typed', CountInv, CountInv', BufferInv, Held, FlowInv, Hart1,
         Running /\ ~err => ActRight /\ WgtRight
  PROVE  FlowInv'
<1> SUFFICES ASSUME Active', ~err' PROVE Flow'
  BY DEF FlowInv
<1>1. CASE Start
  BY <1>1, StartFlow
<1>2. CASE ~Start
  <2>1. Active /\ ~err
    <3>1. ~err
      BY <1>2, StickyKept
    <3>2. CASE pc = "busy"
      <4>1. AwaitIdle \/ TimeOut
        BY <3>2 DEF Hart1, Start, LoadAct, LoadWgt, AwaitReady, ArmStrided, Compute, Preload,
           NestDone, PadTile, Finish, PlaceEarly, PlaceLate, Software, At
      <4> QED BY <4>1 DEF AwaitIdle, TimeOut, Return, Active, Running
    <3>3. CASE pc \in {"idle", "software", "start"}
      BY <1>2, <3>3 DEF Hart1, AwaitIdle, LoadAct, LoadWgt, AwaitReady, ArmStrided, Compute, Preload,
           NestDone, PadTile, Finish, PlaceEarly, PlaceLate, Software, At, TimeOut, Masked,
           Active, Running
    <3> QED BY <3>1, <3>2, <3>3 DEF Active, Running
  <2>2. Flow /\ ActRight /\ WgtRight /\ Running /\ Running' /\ r' = r
    BY <2>1, Hart1Frame DEF FlowInv, Active
  <2>3. CASE ArmStrided
    BY <2>2, <2>3, ArmFlow
  <2>4. CASE Compute
    BY <2>2, <2>4, ComputeFlow
  <2>5. CASE PadTile
    BY <2>2, <2>5, PadFlow
  <2>6. CASE LoadAct \/ LoadWgt \/ AwaitReady \/ Preload \/ NestDone \/ Finish \/ PlaceEarly
    BY <2>2, <2>6, QuietFlow
  <2>7. CASE AwaitIdle \/ PlaceLate \/ TimeOut \/ Software
    <3>1. ~Active'
      BY <2>7 DEF AwaitIdle, PlaceLate, TimeOut, Software, Return, Active, Running
    <3> QED BY <3>1
  <2> QED BY <1>2, <2>3, <2>4, <2>5, <2>6, <2>7 DEF Hart1
<1> QED BY <1>1, <1>2

-----------------------------------------------------------------------------
(* PLACING: the flat drain fills the scratch block by block; what the        *)
(* watermark covers has landed, and a placed cell is not written again.      *)

Blocks ==
  /\ drain.dst # << >> => drain.per = BlockCells
  /\ \A i \in 1 .. Len(drain.dst) : drain.dst[i] = <<drain.issued * BlockCells + i>>
  /\ \A p \in puts : /\ p.i <= drain.issued
                     /\ \A i \in 1 .. Len(p.dst) : p.dst[i] = <<p.i * BlockCells + i>>
BlocksInv == /\ placed > 0 => ~Strided /\ pc \notin {"busy", "start"}
             /\ ~Strided /\ (Active \/ placed > 0) => Blocks

\* Nothing but the drain moves the blocks.
LEMMA BlocksFrame ==
  ASSUME Blocks, UNCHANGED <<drain, puts>>
  PROVE  Blocks'
BY DEF Blocks

\* A run starts its scratch from the first block.
LEMMA StartBlocks ==
  ASSUME Typed, CountInv, Start, ~Strided
  PROVE  Blocks'
<1>1. /\ pc = "start" /\ ~Draining /\ puts' = puts
      /\ drain' = [dst |-> FlatDst, per |-> PerPut, issued |-> 0]
  BY DEF Start, At, CountInv, Quiet, Busy, ArmDrain
<1>2. drain'.dst = FlatDst /\ drain'.per = BlockCells /\ drain'.issued = 0
  BY <1>1 DEF PerPut
<1>3. \A i \in 1 .. Len(FlatDst) : FlatDst[i] = <<0 * BlockCells + i>>
  <2> SUFFICES ASSUME NEW i \in 1 .. Total + Pad PROVE FlatDst[i] = <<0 * BlockCells + i>>
    BY Descriptors
  <2>1. 0 * BlockCells + i = i
    BY EngineShapeAssumption, Sizes
  <2> QED BY <2>1, Descriptors
<1>4. puts = {}
  BY <1>1 DEF Draining
<1> QED BY <1>1, <1>2, <1>3, <1>4 DEF Blocks

\* Every step of hart 1 keeps the blocks.
LEMMA Hart1Blocks ==
  ASSUME Typed, CountInv, BlocksInv, Hart1
  PROVE  BlocksInv'
<1> USE DEF At
<1>1. mode' = mode
  BY DEF Hart1, AwaitIdle, Start, LoadAct, LoadWgt, AwaitReady, ArmStrided, Compute, Preload,
     NestDone, PadTile, Finish, PlaceEarly, PlaceLate, TimeOut, Software
<1>2. pc' \in {"busy", "start"} => AwaitIdle /\ pc = "busy"
  BY DEF Hart1, AwaitIdle, Start, LoadAct, LoadWgt, AwaitReady, ArmStrided, Compute, Preload,
     NestDone, PadTile, Finish, PlaceEarly, PlaceLate, TimeOut, Software, Return, Masked
<1>3. placed' # placed => (PlaceEarly \/ PlaceLate) /\ ~Strided /\ Active
  <2>1. CASE PlaceEarly \/ PlaceLate
    BY <2>1 DEF PlaceEarly, PlaceLate, Masked, Active, Running, CountInv, Nest
  <2>2. CASE ~PlaceEarly /\ ~PlaceLate
    BY <2>2 DEF Hart1, AwaitIdle, Start, LoadAct, LoadWgt, AwaitReady, ArmStrided, Compute, Preload,
       NestDone, PadTile, Finish, TimeOut, Software
  <2> QED BY <2>1, <2>2
<1>4. placed \in Nat /\ placed' > 0 => placed > 0 \/ Active
  BY <1>3 DEF Typed, PlanOK
<1>5. placed' > 0 => ~Strided' /\ pc' \notin {"busy", "start"}
  BY <1>1, <1>2, <1>3 DEF BlocksInv, Strided, PlaceEarly, PlaceLate, Return, Masked
<1>6. ASSUME ~Strided', Active' \/ placed' > 0 PROVE Blocks'
  <2>1. ~Strided
    BY <1>1, <1>6 DEF Strided
  <2>2. CASE Start
    BY <2>1, <2>2, StartBlocks
  <2>3. CASE ~Start
    <3>1. Active \/ placed > 0
      <4>1. CASE placed' > 0
        BY <1>3, <4>1
      <4>2. CASE Active'
        BY <2>3, <4>2 DEF Hart1, AwaitIdle, LoadAct, LoadWgt, AwaitReady, ArmStrided, Compute, Preload,
           NestDone, PadTile, Finish, PlaceEarly, PlaceLate, TimeOut, Software, Return, Masked,
           Active, Running
      <4> QED BY <1>6, <4>1, <4>2
    <3>2. UNCHANGED <<drain, puts>>
      <4>1. ~ArmStrided
        BY <2>1 DEF ArmStrided, Typed, PlanOK, ArmsDrain
      <4> QED BY <2>3, <4>1 DEF Hart1, AwaitIdle, LoadAct, LoadWgt, AwaitReady, Compute, Preload,
           NestDone, PadTile, Finish, PlaceEarly, PlaceLate, TimeOut, Software, store
    <3> QED BY <2>1, <3>1, <3>2, BlocksFrame DEF BlocksInv
  <2> QED BY <2>2, <2>3
<1> QED BY <1>5, <1>6 DEF BlocksInv

\* A Put takes one block of the scratch.
LEMMA UnitBlocks ==
  ASSUME Typed, BlocksInv, Unit
  PROVE  BlocksInv'
<1>1. UNCHANGED <<pc, mode, placed>>
  BY UnitFrame DEF plan
<1>2. (Strided' <=> Strided) /\ (Active' <=> Active)
  BY <1>1 DEF Strided, Active, Running
<1> SUFFICES ASSUME ~Strided, Active \/ placed > 0 PROVE Blocks'
  BY <1>1, <1>2 DEF BlocksInv
<1>3. Blocks
  BY DEF BlocksInv
<1>4. CASE FillDone \/ Emit \/ Pack
  <2>1. UNCHANGED <<drain, puts>>
    BY <1>4 DEF FillDone, Emit, Pack, store
  <2> QED BY <1>3, <2>1, BlocksFrame
<1>5. CASE StartPut
  <2>1. CanPut /\ StoreOK
    BY <1>5 DEF StartPut, Typed
  <2>2. /\ drain.dst \in Seq(Cells) /\ Len(drain.dst) \in Nat /\ drain.issued \in Nat
        /\ drain.per = BlockCells /\ BlockCells \in Nat /\ BlockCells \in 0 .. Len(drain.dst)
    BY <1>3, <2>1, PutTaken, EngineShapeAssumption DEF StoreOK, DrainOK, CanPut, Blocks
  <2>3. /\ drain'.dst = SubSeq(drain.dst, BlockCells + 1, Len(drain.dst))
        /\ drain'.issued = drain.issued + 1 /\ drain'.per = BlockCells
    BY <1>5, <2>1, <2>2 DEF StartPut, StoreOK, DrainOK
  <2>4. PICK q : /\ q.dst = SubSeq(drain.dst, 1, BlockCells) /\ q.i = drain.issued
                 /\ puts' = puts \cup {q}
    <3>1. PICK lost : puts' = puts \cup {[dst |-> SubSeq(drain.dst, 1, BlockCells), lost |-> lost,
                                          val |-> SubSeq(fifo, 1, BlockCells), i |-> drain.issued]}
      BY <1>5, <2>2 DEF StartPut
    <3> DEFINE p == [dst |-> SubSeq(drain.dst, 1, BlockCells), lost |-> lost,
                     val |-> SubSeq(fifo, 1, BlockCells), i |-> drain.issued]
    <3>2. p.dst = SubSeq(drain.dst, 1, BlockCells) /\ p.i = drain.issued
      OBVIOUS
    <3>3. puts' = puts \cup {p}
      BY <3>1
    <3> HIDE DEF p
    <3> QED BY <3>2, <3>3
  <2>5. /\ Len(SubSeq(drain.dst, 1, BlockCells)) = BlockCells
        /\ \A i \in 1 .. BlockCells : SubSeq(drain.dst, 1, BlockCells)[i] = drain.dst[i]
    BY <2>2, Halves
  <2>6. /\ Len(drain'.dst) = Len(drain.dst) - BlockCells
        /\ \A i \in 1 .. Len(drain.dst) - BlockCells : drain'.dst[i] = drain.dst[BlockCells + i]
    BY <2>2, <2>3, Halves
  <2>7. \A i \in 1 .. Len(drain'.dst) : drain'.dst[i] = <<drain'.issued * BlockCells + i>>
    <3> SUFFICES ASSUME NEW i \in 1 .. Len(drain.dst) - BlockCells
                 PROVE  drain'.dst[i] = <<(drain.issued + 1) * BlockCells + i>>
      BY <2>3, <2>6
    <3>1. BlockCells + i \in 1 .. Len(drain.dst)
      BY <2>2
    <3>2. drain.issued * BlockCells + (BlockCells + i) = (drain.issued + 1) * BlockCells + i
      BY <2>2
    <3> QED BY <1>3, <2>6, <3>1, <3>2 DEF Blocks
  <2>8. \A i \in 1 .. Len(q.dst) : q.dst[i] = <<q.i * BlockCells + i>>
    <3> SUFFICES ASSUME NEW i \in 1 .. BlockCells PROVE drain.dst[i] = <<drain.issued * BlockCells + i>>
      BY <2>4, <2>5
    <3>1. i \in 1 .. Len(drain.dst)
      BY <2>2
    <3> QED BY <1>3, <3>1 DEF Blocks
  <2>9. \A p \in puts' : p.i <= drain'.issued
    <3>1. \A p \in puts : p.i \in Nat
      BY DEF Typed, StoreOK, PutSet
    <3> QED BY <1>3, <2>2, <2>3, <2>4, <3>1 DEF Blocks
  <2> QED BY <1>3, <2>3, <2>4, <2>7, <2>8, <2>9 DEF Blocks
<1>6. CASE Ack
  <2>1. drain' = drain /\ puts' \subseteq puts
    BY <1>6 DEF Ack
  <2> QED BY <1>3, <2>1 DEF Blocks
<1> QED BY <1>4, <1>5, <1>6 DEF Unit

\* Nothing below the watermark is outstanding.
LEMMA BelowWatermark ==
  ASSUME Typed, Blocks, NEW j \in 1 .. Total, j <= Acked * BlockCells
  PROVE  ~Bound(<<j>>)
<1>1. /\ Acked \in Nat /\ BlockCells \in Nat \ {0} /\ drain.issued \in Nat
      /\ \A p \in puts : Acked <= p.i /\ p.i \in Nat /\ Len(p.dst) \in Nat
  BY Watermark, EngineShapeAssumption DEF Typed, StoreOK, DrainOK, PutSet
<1>2. Acked <= drain.issued
  <2>1. CASE puts = {}
    BY <1>1, <2>1, Watermark DEF Typed
  <2>2. ASSUME NEW p \in puts PROVE Acked <= drain.issued
    BY <1>1, <2>2 DEF Blocks
  <2> QED BY <2>1, <2>2
<1>3. ASSUME NEW n \in Nat, Acked <= n, NEW y \in Nat \ {0} PROVE <<n * BlockCells + y>> # <<j>>
  <2>1. PICK d \in Nat : n = Acked + d
    <3>1. n - Acked \in Nat /\ n = Acked + (n - Acked)
      BY <1>1, <1>3
    <3> QED BY <3>1
  <2>2. n * BlockCells = Acked * BlockCells + d * BlockCells /\ d * BlockCells \in Nat
        /\ Acked * BlockCells \in Nat
    BY <1>1, <2>1
  <2>3. n * BlockCells + y > j
    BY <1>3, <2>2
  <2>4. n * BlockCells + y # j
    BY <1>3, <2>2, <2>3
  <2> QED BY <2>4
<1>4. ASSUME NEW i \in 1 .. Len(drain.dst) PROVE drain.dst[i] # <<j>>
  <2>1. drain.dst[i] = <<drain.issued * BlockCells + i>> /\ i \in Nat \ {0}
    BY <1>4 DEF Blocks, Typed, StoreOK, DrainOK
  <2> QED BY <1>1, <1>2, <1>3, <2>1
<1>5. ASSUME NEW p \in puts, NEW i \in 1 .. Len(p.dst) PROVE p.dst[i] # <<j>>
  <2>1. p.dst[i] = <<p.i * BlockCells + i>> /\ i \in Nat \ {0}
    BY <1>1, <1>5 DEF Blocks
  <2> QED BY <1>1, <1>3, <2>1
<1> QED BY <1>4, <1>5 DEF Bound

PlacedCells == ~err => \A j \in 1 .. placed : mem[Cell(mode, j)] = Right(r, Cell(mode, j))
PlaceInv    == FlowInv /\ BlocksInv /\ PlacedCells

\* What the proofs carry is the property.
LEMMA PlacedIsRight == PlacedCells <=> PlacedRight
BY CellIs DEF PlacedCells, PlacedRight

\* A step that places nothing and writes no cell of the output.
LEMMA PlacedFrame ==
  ASSUME Typed, PlacedCells, UNCHANGED <<r, mode, placed>>, ~err' => ~err,
         \A x \in Output : mem'[x] = mem[x] \/ mem'[x] = Right(r, x)
  PROVE  PlacedCells'
<1> SUFFICES ASSUME ~err', NEW j \in 1 .. placed
             PROVE  mem'[Cell(mode, j)] = Right(r, Cell(mode, j))
  BY DEF PlacedCells
<1>1. j \in 1 .. Total /\ Total \in Nat
  BY Sizes DEF Typed, PlanOK
<1>2. Cell(mode, j) \in Output
  BY <1>1, PairOfCell
<1>3. mem[Cell(mode, j)] = Right(r, Cell(mode, j))
  BY DEF PlacedCells
<1> QED BY <1>2, <1>3

\* Placing cells that have landed places them right.
LEMMA PlaceRight ==
  ASSUME Typed, PlacedCells, ~err, NEW upto \in placed .. Total, PlaceUpto(upto), UNCHANGED <<r, mode>>,
         \A j \in placed + 1 .. upto : mem[<<j>>] = Right(r, Cell(mode, j))
  PROVE  \A j \in 1 .. upto : mem'[Cell(mode, j)] = Right(r, Cell(mode, j))
<1>1. placed \in 0 .. Total /\ Total \in Nat /\ upto \in Nat
  BY Sizes DEF Typed, PlanOK
<1> SUFFICES ASSUME NEW j \in 1 .. upto PROVE mem'[Cell(mode, j)] = Right(r, Cell(mode, j))
  OBVIOUS
<1>2. j \in 1 .. Total
  BY <1>1
<1>3. /\ Cell(mode, j) \in Output /\ PairOf(Cell(mode, j)) = j
      /\ Cell(mode, j) \in DOMAIN mem
  BY <1>2, PairOfCell DEF Typed, MemOK, Cells
<1>4. mem'[Cell(mode, j)] = IF j \in placed + 1 .. upto THEN mem[<<j>>] ELSE mem[Cell(mode, j)]
  BY <1>3 DEF PlaceUpto
<1>5. CASE j \in placed + 1 .. upto
  BY <1>4, <1>5
<1>6. CASE j \notin placed + 1 .. upto
  <2>1. j \in 1 .. placed
    BY <1>1, <1>6
  <2> QED BY <1>4, <1>6, <2>1 DEF PlacedCells
<1> QED BY <1>5, <1>6

\* What has landed: everything below the watermark while the drain runs, and
\* everything when it is at rest.
LEMMA Landed ==
  ASSUME Typed, FlowInv, BlocksInv, Active, ~err, ~Strided, NEW j \in 1 .. Total,
         j <= Acked * BlockCells \/ ~Draining
  PROVE  mem[<<j>>] = Right(r, Cell(mode, j))
<1>1. Dst(mode, j) = <<j>> /\ Covered(j)
  BY DEF Dst, Strided, Covered
<1>2. mem[<<j>>] = Right(r, Cell(mode, j)) \/ Bound(<<j>>)
  BY <1>1 DEF FlowInv, Flow, Underway
<1>3. ~Bound(<<j>>)
  <2>1. CASE j <= Acked * BlockCells
    BY <2>1, BelowWatermark DEF BlocksInv
  <2>2. CASE ~Draining
    <3>1. Len(drain.dst) = 0
      BY <2>2, Counts DEF Draining
    <3> QED BY <2>2, <3>1 DEF Bound, Draining
  <2> QED BY <2>1, <2>2
<1> QED BY <1>2, <1>3

\* At the end of a strided run every cell of the output is right.
LEMMA AllDrained ==
  ASSUME Typed, FlowInv, Active, ~err, Strided, ~Draining, Given = Total, NEW x \in Output
  PROVE  mem[x] = Right(r, x)
<1>1. PICK j \in 1 .. Total : Cell(mode, j) = x
  BY CellOfPair
<1>2. Dst(mode, j) = x /\ Covered(j)
  BY <1>1, Sizes DEF Dst, Strided, Covered
<1>3. mem[x] = Right(r, x) \/ Bound(x)
  BY <1>1, <1>2 DEF FlowInv, Flow, Underway
<1>4. Len(drain.dst) = 0 /\ puts = {}
  BY Counts DEF Draining
<1> QED BY <1>3, <1>4 DEF Bound

\* After the last cell has been placed every cell of the output is right.
LEMMA AllPlaced ==
  ASSUME Typed, FlowInv, BlocksInv, PlacedCells, Active, ~err, ~Strided, ~Draining,
         PlaceUpto(Total), UNCHANGED <<r, mode>>, NEW x \in Output
  PROVE  mem'[x] = Right(r, x)
<1>1. placed \in 0 .. Total /\ Total \in Nat
  BY Sizes DEF Typed, PlanOK
<1>2. \A j \in placed + 1 .. Total : mem[<<j>>] = Right(r, Cell(mode, j))
  <2> SUFFICES ASSUME NEW j \in placed + 1 .. Total PROVE mem[<<j>>] = Right(r, Cell(mode, j))
    OBVIOUS
  <2>1. j \in 1 .. Total
    BY <1>1
  <2> QED BY <2>1, Landed
<1>3. Total \in placed .. Total
  BY <1>1
<1>4. \A j \in 1 .. Total : mem'[Cell(mode, j)] = Right(r, Cell(mode, j))
  BY <1>2, <1>3, PlaceRight
<1> QED BY <1>4, CellOfPair

\* Every step of hart 1 keeps what is placed.
LEMMA Hart1Placed ==
  ASSUME Typed, CountInv, FlowInv, BlocksInv, PlacedCells, Hart1
  PROVE  PlacedCells'
<1> USE DEF At
<1>a. r' = r /\ mode' = mode
  BY DEF Hart1, AwaitIdle, Start, LoadAct, LoadWgt, AwaitReady, ArmStrided, Compute, Preload,
     NestDone, PadTile, Finish, PlaceEarly, PlaceLate, TimeOut, Software
<1>b. placed \in 0 .. Total /\ Total \in Nat
  BY Sizes DEF Typed, PlanOK
<1>1. CASE Start
  <2>1. placed = 0 /\ placed' = placed
    BY <1>1, <1>b DEF Start, BlocksInv
  <2> QED BY <2>1 DEF PlacedCells
<1>2. CASE PlaceEarly
  <2> DEFINE lim == IF Acked * BlockCells < Total THEN Acked * BlockCells ELSE Total
             upto == IF lim > placed + Slice THEN placed + Slice ELSE lim
  <2>1. /\ lim > placed /\ PlaceUpto(upto) /\ ~Strided /\ Active
        /\ err' = err
    BY <1>2 DEF PlaceEarly, Masked, Active, Running, engine
  <2>2. /\ upto \in placed .. Total
        /\ \A j \in placed + 1 .. upto : j \in 1 .. Total /\ j <= Acked * BlockCells
    <3>1. Acked \in Nat /\ BlockCells \in Nat /\ Slice \in Nat
      BY Watermark, EngineShapeAssumption DEF Typed
    <3>2. Acked * BlockCells \in Nat
      BY <3>1
    <3> QED BY <1>b, <2>1, <3>1, <3>2
  <2> HIDE DEF lim, upto
  <2>3. placed' = upto
    BY <2>1 DEF PlaceUpto
  <2> SUFFICES ASSUME ~err PROVE \A j \in 1 .. upto : mem'[Cell(mode, j)] = Right(r, Cell(mode, j))
    BY <1>a, <2>1, <2>3 DEF PlacedCells
  <2>4. \A j \in placed + 1 .. upto : mem[<<j>>] = Right(r, Cell(mode, j))
    BY <2>1, <2>2, Landed
  <2> QED BY <1>a, <2>1, <2>2, <2>4, PlaceRight
<1>3. CASE PlaceLate
  <2>1. /\ pc = "late" /\ PlaceUpto(Total) /\ err' = err /\ placed' = Total
        /\ Active /\ ~Strided /\ ~Draining
    BY <1>3 DEF PlaceLate, PlaceUpto, engine, Active, Running, CountInv, Nest, Quiet, Busy
  <2> SUFFICES ASSUME ~err, NEW j \in 1 .. Total PROVE mem'[Cell(mode, j)] = Right(r, Cell(mode, j))
    BY <1>a, <2>1 DEF PlacedCells
  <2> QED BY <1>a, <2>1, AllPlaced, PairOfCell
<1>4. CASE Software
  <2>1. UNCHANGED <<placed, err>> /\ \A x \in Output : mem'[x] = Right(r, x)
    BY <1>4 DEF Software, engine, Typed, MemOK, Cells
  <2> QED BY <1>a, <2>1, PlacedFrame
<1>5. CASE ~(Start \/ PlaceEarly \/ PlaceLate \/ Software)
  <2>1. UNCHANGED <<placed, mem>>
    BY <1>5 DEF Hart1, AwaitIdle, LoadAct, LoadWgt, AwaitReady, ArmStrided, Compute, Preload,
       NestDone, PadTile, Finish, TimeOut
  <2>2. ~err' => ~err
    BY <1>5, StickyKept
  <2> QED BY <1>a, <2>1, <2>2, PlacedFrame
<1> QED BY <1>1, <1>2, <1>3, <1>4, <1>5

\* What lands is right, in the strided drain, or not a cell of the output.
LEMMA UnitPlaced ==
  ASSUME Typed, BlocksInv, PlacedCells, Unit
  PROVE  PlacedCells'
<1>a. UNCHANGED <<r, mode, placed>>
  BY UnitFrame DEF plan
<1>b. ~err' => ~err
  BY StickyKept
<1>1. CASE mem' = mem
  BY <1>a, <1>b, <1>1, PlacedFrame
<1>2. CASE placed = 0
  BY <1>a, <1>2 DEF PlacedCells
<1>3. CASE mem' # mem /\ placed # 0
  <2>1. placed > 0 /\ ~Strided /\ Blocks
    BY <1>3 DEF Typed, PlanOK, BlocksInv
  <2>2. PICK p \in puts : mem' = Lands(p)
    BY <1>3 DEF Unit, FillDone, Emit, Pack, StartPut, Ack, Answered
  <2>3. \A i \in 1 .. Len(p.dst) : p.dst[i] \notin Output
    BY <2>1, ScratchApart DEF Blocks
  <2>4. DOMAIN p.dst = 1 .. Len(p.dst)
    BY DEF Typed, StoreOK, PutSet
  <2>5. \A x \in Output : mem'[x] = mem[x]
    BY <2>2, <2>3, <2>4 DEF Lands, Typed, MemOK, Cells
  <2> QED BY <1>a, <1>b, <2>5, PlacedFrame
<1> QED BY <1>1, <1>2, <1>3

\* The invariant of a run's results, and what it rests on.
FeedInv == Held /\ Apart /\ WgtInv /\ ActInv /\ (pc # "idle" => Input)
DataOK  == RunInv /\ FeedInv /\ PlaceInv

\* Within a run the input stays as it was staged.
LEMMA InputKept ==
  ASSUME pc # "idle" => Input, Hart1 \/ Unit
  PROVE  pc' # "idle" => Input'
<1>1. UNCHANGED <<r, inp>> /\ (pc' # "idle" => pc # "idle")
  <2>1. CASE Hart1
    BY <2>1, Hart1Frame
  <2>2. CASE Unit
    BY <2>2, UnitFrame DEF plan
  <2> QED BY <2>1, <2>2
<1> QED BY <1>1 DEF Input

\* A run begins with nothing loaded and nothing placed.
LEMMA BeginData ==
  ASSUME DataOK, Begin
  PROVE  DataOK'
<1>1. Enter /\ UNCHANGED engine /\ UNCHANGED store /\ inp' = [a \in ATiles |-> r + 1]
  BY DEF Begin
<1>2. /\ pc = "idle" /\ pc' = "busy" /\ placed' = 0 /\ r' = r + 1
      /\ aIn' = [b \in 0 .. 1 |-> None] /\ wIn' = [b \in 0 .. 1 |-> None]
      /\ UNCHANGED <<ld, tseq>>
  BY <1>1 DEF Enter, engine
<1>3. RunInv'
  BY <1>1, BeginTyped, Entering, EnterCounts DEF DataOK, RunInv
<1>4. FeedInv'
  BY <1>1, <1>2 DEF DataOK, FeedInv, Held, Apart, Filling, LoadClash, Computing, WgtInv, NoWgt,
     ActInv, NoAct, Input, Running
<1>5. PlaceInv'
  BY <1>2 DEF PlaceInv, FlowInv, BlocksInv, PlacedCells, Active, Running
<1> QED BY <1>3, <1>4, <1>5 DEF DataOK

\* Every step of hart 1 keeps the results.
LEMMA Hart1KeepsData ==
  ASSUME DataOK, Hart1
  PROVE  DataOK'
<1>1. Typed /\ BufferInv /\ CountInv /\ k \in 1 .. Total
  BY DEF DataOK, RunInv, Typed, PlanOK
<1>2. RunInv'
  BY <1>1, Hart1Keeps, Hart1Typed, Hart1Counts DEF RunInv
<1>3. FeedInv'
  BY <1>1, HeldKept, ApartKept, Hart1Wgt, Hart1Act, InputKept DEF DataOK, FeedInv
<1>4. PlaceInv'
  BY <1>1, <1>2, Hart1Flow, Hart1Blocks, Hart1Placed
     DEF DataOK, FeedInv, PlaceInv, RunInv, WgtInv, ActInv
<1> QED BY <1>2, <1>3, <1>4 DEF DataOK

\* Every step of the engine keeps the results.
LEMMA UnitKeepsData ==
  ASSUME DataOK, Unit
  PROVE  DataOK'
<1>1. Typed /\ BufferInv /\ CountInv
  BY DEF DataOK, RunInv
<1>2. RunInv'
  BY <1>1, UnitKeeps, UnitTyped, UnitCounts DEF RunInv
<1>3. UNCHANGED plan
  BY UnitFrame
<1>4. FeedInv'
  <2>1. Held'
    BY <1>3 DEF DataOK, FeedInv, Held, Holds, ATile, WTile, WOuter, plan
  <2>2. Running => Input
    BY DEF DataOK, FeedInv, Running
  <2> QED BY <1>1, <2>1, <2>2, ApartKept, UnitWgt, UnitAct, InputKept DEF DataOK, FeedInv
<1>5. FlowInv'
  <2> SUFFICES ASSUME Active', ~err' PROVE Flow'
    BY DEF FlowInv
  <2>1. Active /\ Running /\ ~err
    BY <1>3, StickyKept DEF Active, Running, plan
  <2> QED BY <1>1, <2>1, UnitFlow DEF DataOK, FeedInv, PlaceInv, FlowInv
<1>6. PlaceInv'
  BY <1>1, <1>5, UnitBlocks, UnitPlaced DEF DataOK, PlaceInv
<1> QED BY <1>2, <1>4, <1>6 DEF DataOK

\* At the start nothing is on its way.
LEMMA InitData == Init => DataOK
<1> SUFFICES ASSUME Init PROVE DataOK
  OBVIOUS
<1>1. RunInv
  BY InitRuns
<1>2. pc = "idle" /\ placed = 0 /\ ~ld.busy
  BY DEF Init
<1> QED BY <1>1, <1>2 DEF DataOK, FeedInv, PlaceInv, Held, Apart, Filling, WgtInv, NoWgt, ActInv, NoAct,
       Running, FlowInv, Active, BlocksInv, PlacedCells

\* Nothing moves.
LEMMA RestData ==
  ASSUME DataOK, UNCHANGED vars
  PROVE  DataOK'
<1>1. UNCHANGED <<plan, engine, store, inp, mem>>
  BY DEF vars
<1>2. /\ UNCHANGED <<pc, r, mode, k, aIn, wIn, cab, cwb, placed, rc>>
      /\ UNCHANGED <<err, ld, bufs, tseq, pipe, fifo, drain, puts, inp, mem>>
  BY <1>1 DEF plan, engine, store
<1>3. Typed' /\ BufferInv'
  BY <1>1, <1>2, FrameTyped, NoCommand DEF DataOK, RunInv, Typed
<1>4. CountInv'
  BY <1>2 DEF DataOK, RunInv, CountInv, Balance, Nest, Quiet, Owed, Col, InMotion, Running, Strided,
     WOuter, Pad, Busy, Filling, Computing, Draining, InPipe
<1>5. FeedInv'
  BY <1>2 DEF DataOK, FeedInv, Held, Holds, ATile, WTile, WOuter, Apart, Filling, LoadClash, Computing,
     WgtInv, NoWgt, WgtRight, FillingW, ActInv, NoAct, ActRight, FillingA, Running, Input
<1>6. FlowInv'
  <2> SUFFICES ASSUME Active', ~err' PROVE Flow'
    BY DEF FlowInv
  <2>1. Flow /\ tseq.left \in Nat
    BY <1>2, Counts DEF DataOK, RunInv, PlaceInv, FlowInv, Active, Running
  <2>2. Owed' = Owed /\ Given' = Given /\ Result' = Result
    BY <1>2 DEF Owed, Col, Strided, WOuter, Pad, Given, Result
  <2> QED BY <1>2, <2>1, <2>2, FlowFrame
<1>7. BlocksInv' /\ PlacedCells'
  BY <1>2 DEF DataOK, PlaceInv, BlocksInv, Blocks, PlacedCells, Active, Running, Strided
<1> QED BY <1>3, <1>4, <1>5, <1>6, <1>7 DEF DataOK, RunInv, PlaceInv

\* The results of a run keep their places for ever.
LEMMA DataHolds == Spec => []DataOK
<1>1. DataOK /\ [Next]_vars => DataOK'
  BY BeginData, Hart1KeepsData, UnitKeepsData, RestData DEF Next, Poll, Finished
<1> QED BY InitData, <1>1, PTL DEF Spec

\* What hart 1 places while the drain still runs is final: the watermark never
\* covers a block that has not landed, whatever the faults and the give-ups, as
\* long as the sticky bit is clear.
THEOREM PlacedRightHolds == Spec => []PlacedRight
<1>1. DataOK => PlacedRight
  BY PlacedIsRight DEF DataOK, PlaceInv
<1> QED BY DataHolds, <1>1, PTL

-----------------------------------------------------------------------------
(* THE PROMISE: between two calls the engine is dead or done, and a run that *)
(* returns, whichever way, leaves the whole output right.                    *)

RestInv ==
  /\ pc # "idle" => r > 0
  /\ pc \in {"idle", "software"} => Stalled
  /\ pc = "late" => ~err

\* An engine that is not busy, or stalled, takes no step.
LEMMA NotBusyStalls ==
  ASSUME ~Busy
  PROVE  Stalled
BY DEF Busy, Stalled, CanEmit, CanPut, Draining, Answered

LEMMA StalledStays ==
  ASSUME Stalled
  PROVE  ~Unit
BY DEF Stalled, Unit, FillDone, Emit, Pack, StartPut, Ack

\* Whether the engine is stalled is a matter of the engine alone.
LEMMA StalledFrame ==
  ASSUME Stalled, UNCHANGED <<engine, store>>
  PROVE  Stalled'
BY DEF Stalled, Filling, CanEmit, Computing, InPipe, CanPut, Answered, engine, store

\* A run leaves the hardware alone only when nothing in it can move.
LEMMA RestKept ==
  ASSUME Patient, Typed, CountInv, RestInv, [Next]_vars
  PROVE  RestInv'
<1> USE DEF At
<1>1. CASE Begin
  <2>1. UNCHANGED <<engine, store>> /\ pc = "idle" /\ pc' = "busy" /\ r' = r + 1
    BY <1>1 DEF Begin, Enter
  <2>2. r' > 0
    BY <2>1 DEF Typed, PlanOK
  <2> QED BY <2>1, <2>2 DEF RestInv
<1>2. CASE Hart1
  <2>1. pc # "idle" /\ r' = r
    BY <1>2, Hart1Frame
  <2>2. CASE Finish
    <3>1. /\ ~Busy /\ UNCHANGED <<engine, store, err>> /\ pc' \in {"idle", "software", "late"}
          /\ pc' = "late" => ~err
      BY <2>2 DEF Finish, Masked, EndMask, HwError, Return, engine
    <3> QED BY <2>1, <3>1, NotBusyStalls, StalledFrame DEF RestInv
  <2>3. CASE PlaceLate
    <3>1. ~Busy /\ UNCHANGED <<engine, store>> /\ pc' = "idle"
      BY <2>3 DEF PlaceLate, Return, CountInv, Quiet
    <3> QED BY <2>1, <3>1, NotBusyStalls, StalledFrame DEF RestInv
  <2>4. CASE TimeOut
    <3>1. Stalled /\ UNCHANGED <<engine, store>> /\ pc' = "software"
      BY <2>4 DEF TimeOut, GiveUp, Return
    <3> QED BY <2>1, <3>1, StalledFrame DEF RestInv
  <2>5. CASE Software
    <3>1. Stalled /\ UNCHANGED <<engine, store>> /\ pc' = "idle"
      BY <2>5 DEF Software, RestInv
    <3> QED BY <2>1, <3>1, StalledFrame DEF RestInv
  <2>6. CASE ~(Finish \/ PlaceLate \/ TimeOut \/ Software)
    <3>1. pc' \notin {"idle", "software", "late"}
      <4>1. CASE PlaceEarly
        BY <4>1, <2>1 DEF PlaceEarly, Masked
      <4>2. CASE ~PlaceEarly
        BY <1>2, <2>6, <4>2 DEF Hart1, AwaitIdle, Start, LoadAct, LoadWgt, AwaitReady, ArmStrided,
         Compute, Preload, NestDone, PadTile
      <4> QED BY <4>1, <4>2
    <3> QED BY <2>1, <3>1 DEF RestInv
  <2> QED BY <2>2, <2>3, <2>4, <2>5, <2>6
<1>3. CASE Unit
  <2>1. UNCHANGED <<pc, r>>
    BY <1>3, UnitFrame DEF plan
  <2>2. ~Stalled
    BY <1>3, StalledStays
  <2>3. Busy
    BY <2>2, NotBusyStalls
  <2> QED BY <2>1, <2>2, <2>3 DEF RestInv, CountInv, Quiet
<1>4. CASE UNCHANGED vars
  <2>1. UNCHANGED <<pc, r, err, engine, store>>
    BY <1>4 DEF vars, plan, engine
  <2> QED BY <2>1, StalledFrame DEF RestInv
<1> QED BY <1>1, <1>2, <1>3, <1>4 DEF Next, Poll, Finished

\* The rest holds for ever.
LEMMA RestHolds ==
  ASSUME Patient
  PROVE  Spec => []RestInv
<1>1. Init => RestInv
  <2> SUFFICES ASSUME Init PROVE RestInv
    OBVIOUS
  <2>1. pc = "idle" /\ ~Busy
    BY DEF Init, Busy, Filling, Computing, Draining, InPipe
  <2> QED BY <2>1, NotBusyStalls DEF RestInv
<1>2. DataOK /\ RestInv /\ [Next]_vars => RestInv'
  BY RestKept DEF DataOK, RunInv
<1> QED BY DataHolds, <1>1, <1>2, PTL DEF Spec

\* When hart 1 reports success the engine is at rest and every cell of the
\* output is right.
LEMMA EndsRight ==
  ASSUME Typed, CountInv, FlowInv, BlocksInv, PlacedCells, pc = "late" => ~err,
         Finish \/ PlaceLate, pc' = "idle"
  PROVE  ~err' /\ ~Busy' /\ \A x \in Output : mem'[x] = Right(r', x)
<1> USE DEF At
<1>1. UNCHANGED <<r, mode, engine, store, err>>
  BY DEF Finish, PlaceLate, engine
<1>2. Busy' = Busy
  BY <1>1 DEF Busy, Filling, Computing, Draining, InPipe, engine, store
<1>3. CASE Finish
  <2>1. /\ pc = "end" /\ ~err /\ Strided /\ ~Busy /\ mem' = mem
    BY <1>3 DEF Finish, HwError, Return, Masked, EndMask
  <2>2. Active /\ ~Draining /\ Given = Total
    BY <2>1 DEF Active, Running, Busy, Given
  <2> QED BY <1>1, <1>2, <2>1, <2>2, AllDrained
<1>4. CASE PlaceLate
  <2>1. pc = "late" /\ PlaceUpto(Total) /\ ~err /\ ~Strided /\ ~Busy /\ ~Draining
    BY <1>4 DEF PlaceLate, CountInv, Nest, Quiet, Busy
  <2>2. Active
    BY <2>1 DEF Active, Running
  <2> QED BY <1>1, <1>2, <2>1, <2>2, AllPlaced
<1> QED BY <1>3, <1>4

\* When a run returns, whichever way, every cell of the output is right.
LEMMA ReturnsRight ==
  ASSUME DataOK, RestInv, Hart1, pc' = "idle", NEW x \in Output
  PROVE  mem'[x] = Right(r, x)
<1> USE DEF At
<1>a. /\ Typed /\ CountInv /\ FlowInv /\ BlocksInv /\ PlacedCells /\ x \in DOMAIN mem
      /\ (pc = "late" => ~err) /\ r' = r
  BY Hart1Frame DEF DataOK, RestInv, RunInv, PlaceInv, Typed, MemOK, Cells
<1>1. Finish \/ PlaceLate \/ Software
  <2>1. CASE PlaceEarly
    BY <2>1 DEF PlaceEarly, Masked
  <2>2. CASE ~PlaceEarly
    BY <2>2 DEF Hart1, AwaitIdle, Start, LoadAct, LoadWgt, AwaitReady, ArmStrided, Compute, Preload,
       NestDone, PadTile, TimeOut, Return
  <2> QED BY <2>1, <2>2
<1>2. CASE Finish \/ PlaceLate
  BY <1>a, <1>2, EndsRight
<1>3. CASE Software
  BY <1>a, <1>3 DEF Software
<1> QED BY <1>1, <1>2, <1>3

\* There is one tensor, so a call changes no other.
LEMMA OneTensor == r \in Nat => Promise!OnlyCurrent
<1> SUFFICES ASSUME r \in Nat PROVE Promise!OnlyCurrent
  OBVIOUS
<1>1. r % 1 = 0 /\ 0 .. 1 - 1 = {0}
  OBVIOUS
<1>2. Promise!Bufs \ {Promise!Buf} = {}
  BY <1>1 DEF Promise!Bufs, Promise!Buf
<1> QED BY <1>2 DEF Promise!OnlyCurrent

\* Where the promise finds its part: row by row, whatever the loop order.
Place(j) == <<(j - 1) \div TilesW, (j - 1) % TilesW>>

LEMMA PlaceInOutput ==
  ASSUME NEW j \in 1 .. Total
  PROVE  Place(j) \in Output
BY PlaceOfPair DEF Place, Output, ATiles, WTiles

\* Before the first run the tensor is empty.
LEMMA InitOffload == Init => Promise!Init
<1> SUFFICES ASSUME Init PROVE Promise!Init
  OBVIOUS
<1>1. 0 .. 1 - 1 = {0} /\ Total \in Nat
  BY Sizes
<1>2. \A j \in 1 .. Total : mem[<<(j - 1) \div TilesW, (j - 1) % TilesW>>] = Junk
  BY PlaceInOutput DEF Place, Init
<1>3. pc = "idle" /\ r = 0
  BY DEF Init
<1> QED BY <1>1, <1>2, <1>3 DEF Promise!Init, Promise!Bufs, Promise!Parts, Promise!None, Junk

\* A step that leaves the run's number and the output alone and stays outside,
\* or inside, changes nothing of the promise.
LEMMA Stutters ==
  ASSUME UNCHANGED <<pc, r, mem>>
  PROVE  UNCHANGED Promise!vars
BY DEF Promise!vars

\* Every step of a run is a step of the promise or none.
LEMMA NextOffload ==
  ASSUME DataOK, RestInv, [Next]_vars
  PROVE  [Promise!Next]_Promise!vars
<1>a. Typed /\ r \in Nat /\ Total \in Nat \ {0} /\ MaxRuns \in Nat
  BY Sizes, EngineBoundsAssumption DEF DataOK, RunInv, Typed, PlanOK
<1>1. CASE Begin
  <2>1. pc = "idle" /\ pc' = "busy" /\ r < MaxRuns /\ r' = r + 1 /\ mem' = mem
    BY <1>1 DEF Begin, Enter
  <2>2. r' # 0 /\ Total \in 1 .. Total
    BY <1>a, <2>1
  <2> QED BY <2>1, <2>2 DEF Promise!Next, Promise!Begin, Promise!Parts
<1>2. CASE Hart1
  <2>1. pc # "idle" /\ r' = r
    BY <1>2, Hart1Frame
  <2>2. r # 0
    BY <1>a, <2>1 DEF RestInv
  <2>3. CASE pc' # "idle"
    BY <1>a, <2>1, <2>3, OneTensor DEF Promise!Next, Promise!Work
  <2>4. CASE pc' = "idle"
    <3>1. \A j \in 1 .. Total : mem'[<<(j - 1) \div TilesW, (j - 1) % TilesW>>]
                               = <<r, (j - 1) \div TilesW, (j - 1) % TilesW>>
      BY <1>2, <2>4, PlaceInOutput, ReturnsRight DEF Place, Right
    <3>2. r % 1 = 0 /\ r > 0
      BY <1>a, <2>2
    <3>3. Promise!Right([j \in 1 .. Total |->
                      LET c == <<(j - 1) \div TilesW, (j - 1) % TilesW>> d == mem'[c][1] IN
                      IF d > 0 /\ mem'[c] = Right(d, c) THEN <<d, j>> ELSE <<0, 0>>])
      BY <2>2, <3>1, <3>2 DEF Promise!Right, Right
    <3> QED BY <1>a, <2>1, <2>2, <2>4, <3>2, <3>3, OneTensor
            DEF Promise!Next, Promise!Return, Promise!Buf
  <2> QED BY <2>3, <2>4
<1>3. CASE Unit
  <2>1. UNCHANGED <<pc, r>>
    BY <1>3, UnitFrame DEF plan
  <2>2. pc # "idle"
    BY <1>3, StalledStays DEF RestInv
  <2> QED BY <1>a, <2>1, <2>2, OneTensor DEF Promise!Next, Promise!Work
<1>4. CASE UNCHANGED vars
  BY <1>4, Stutters DEF vars, plan
<1> QED BY <1>1, <1>2, <1>3, <1>4 DEF Next, Poll, Finished

\* With a poll limit that outlasts the engine a run keeps its promise to the
\* network whatever the bus does: it returns with the whole output right, from
\* the engine or from the software that takes over, and nothing the engine was
\* still given writes to the output afterwards.
THEOREM RunOffloadsHolds ==
  ASSUME Patient
  PROVE  Spec => RunOffloads
BY DataHolds, RestHolds, InitOffload, NextOffload, PTL DEF Spec, RunOffloads, Promise!Spec
=============================================================================
