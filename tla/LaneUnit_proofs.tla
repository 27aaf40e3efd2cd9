--------------------------- MODULE LaneUnit_proofs ---------------------------
(***************************************************************************)
(* Theorems about LaneUnit, for every number and size of dispatches, and   *)
(* about its runs until the first fault (MCLaneUnit).                      *)
(***************************************************************************)
EXTENDS MCLaneUnit, FiniteSetTheorems, TLAPS

\* Where the steps of the LUT's program are.
LEMMA LutSteps ==
  ASSUME kind = "LUT", pc \in 1 .. 19, phase = "run"
  PROVE  /\ At("load_a") => pc = 2
         /\ At("chk_act") => pc = 3
         /\ At("wait_busy") => pc = 4
         /\ At("chk_cfg") => pc = 7
         /\ At("conf") => pc = 8
         /\ At("idle") => pc = 9
         /\ At("arm") => pc = 10
         /\ At("st") => pc = 12
         /\ At("chk_st") => pc = 13
         /\ At("go") => pc = 15
         /\ At("chk_go") => pc = 16
         /\ At("own") => pc = 17
         /\ At("wait_end") => pc = 18
         /\ At("acked") => pc = 19
         /\ ~At("chk_wgt") /\ ~At("wait_fill") /\ ~At("load_w")
         /\ At("clear") => pc \in {1, 5, 11, 14}
         /\ At("cfg") => pc = 6
         /\ Len(Program) = 19
  BY SMTT(60) DEF At, Program, LUT

\* No dispatch has been issued, so there is nothing to keep safe.
LEMMA Initially == Init => GoSafe
  BY DEF Init, GoSafe

\* A dispatch of mbxr_lane_dispatch that moves on, or returns.
LEMMA Moves ==
  ASSUME kind = "LUT", pc \in 1 .. 19, Advance
  PROVE  \/ pc' = pc + 1 /\ pc < 19 /\ UNCHANGED <<phase, rc>>
         \/ pc = 19 /\ Return(held)
  BY DEF Advance, Program, LUT

\* What moving on or returning does to a dispatch of any lane.
LEMMA MovesOn ==
  ASSUME Advance \/ \E code : Return(code), phase = "run", DOMAIN rc = Disp
  PROVE  phase' \in {"idle", "run", "software"} /\ DOMAIN rc' = Disp
  BY DEF Advance, Return

\* A step of a LayerNorm or attention dispatch: GoSafe says nothing of those
\* programs but who may own a descriptor.
LEMMA OtherStep ==
  ASSUME GoSafe, kind # "LUT", phase = "run", Hart1
  PROVE  GoSafe'
<1> DEFINE Step ==
      /\ UNCHANGED <<n, kind>>
      /\ Advance \/ \E code : Return(code)
      /\ drain'.dst \in {drain.dst, n}
<1>1. ~Software
  BY DEF Software
<1>2. ASSUME ClearErr PROVE Step
  BY <1>2 DEF ClearErr, store
<1>3. ASSUME LoadStep PROVE Step
  BY <1>3 DEF LoadStep, store
<1>4. ASSUME Check PROVE Step
  BY <1>4 DEF Check, store
<1>5. ASSUME NameBuffer PROVE Step
  BY <1>5 DEF NameBuffer, store
<1>6. ASSUME ArmDrain PROVE Step
  BY <1>6 DEF ArmDrain, store
<1>7. ASSUME Configure PROVE Step
  BY <1>7 DEF Configure, store
<1>8. ASSUME CheckIdle PROVE Step
  BY <1>8 DEF CheckIdle, store
<1>9. ASSUME Arm PROVE Step
  BY <1>9 DEF Arm, store
<1>10. ASSUME Go PROVE Step
  BY <1>10 DEF Go, store
<1>11. ASSUME Fence PROVE Step
  BY <1>11 DEF Fence, store
<1>12. ASSUME WaitOwn PROVE Step
  BY <1>12 DEF WaitOwn, store, AfterOwn, Advance
<1>13. ASSUME CheckAcked PROVE Step
  BY <1>13 DEF CheckAcked, store
<1>14. Step
  BY <1>1, <1>2, <1>3, <1>4, <1>5, <1>6, <1>7, <1>8, <1>9, <1>10, <1>11, <1>12,
     <1>13 DEF Hart1
<1>15. phase' \in {"idle", "run", "software"} /\ DOMAIN rc' = Disp
  BY <1>14, MovesOn DEF GoSafe
<1>. QED BY <1>14, <1>15 DEF GoSafe

\* A step of a LUT dispatch keeps GoSafe by its place in the program.
LEMMA LutStep ==
  ASSUME GoSafe, kind = "LUT", phase = "run", Hart1
  PROVE  GoSafe'
<1> USE LaneBoundsAssumption
<1>0. pc \in 1 .. 19 /\ held = "OK" /\ DOMAIN rc = Disp
  BY DEF GoSafe
<1>1. CASE Software
  BY <1>1 DEF Software
<1>2. CASE ClearErr
  BY <1>0, <1>2, LutSteps, Moves DEF ClearErr, GoSafe, loads, lanes, store, Return
<1>3. CASE LoadStep
  BY <1>0, <1>3, LutSteps, Moves DEF LoadStep, Load, GoSafe, lanes, store, Return
<1>4. CASE Check
  <2>1. PICK s \in DOMAIN RefusalCode :
          At(s) /\ IF err THEN Return(RefusalCode[s]) ELSE Advance
    BY <1>4 DEF Check
  <2>2. pc \in {3, 7, 13, 16}
    BY <1>0, <2>1, LutSteps DEF RefusalCode
  <2>. QED
    BY <1>0, <1>4, <2>1, <2>2, Moves DEF Check, GoSafe, loads, lanes, store, Return
<1>5. CASE NameBuffer
  BY <1>0, <1>5, LutSteps, Moves DEF NameBuffer, GoSafe, lanes, store, Return
<1>6. CASE ArmDrain
  BY <1>0, <1>6, LutSteps, Moves DEF ArmDrain, GoSafe, loads, lanes, Return
<1>7. CASE Configure
  BY <1>0, <1>7, LutSteps, Moves DEF Configure, GoSafe, loads, store, Return
<1>8. CASE CheckIdle
  BY <1>0, <1>8, LutSteps, Moves DEF CheckIdle, GoSafe, loads, lanes, store, Return
<1>9. CASE Arm
  BY <1>0, <1>9, LutSteps, Moves DEF Arm, GoSafe, loads, lanes, store, Return
<1>10. CASE Go
  <2>1. pc = 15
    BY <1>0, <1>10, LutSteps DEF Go
  <2>2. own = "engine" /\ ~cfgBad[kind]
    BY <2>1 DEF GoSafe
  <2>3. Advance
    BY <1>10, <2>2, Zenon DEF Go
  <2>4. pc' = 16 /\ UNCHANGED <<phase, rc>>
    BY <1>0, <2>1, <2>3, Moves
  <2>. QED BY <1>10, <2>1, <2>4 DEF Go, GoSafe, loads, store
<1>11. CASE Fence
  BY <1>0, <1>11, LutSteps, Moves
     DEF Fence, Masked, GoSafe, loads, lanes, store, Return
<1>12. CASE WaitOwn
  BY <1>0, <1>12, LutSteps, Moves
     DEF WaitOwn, AfterOwn, GoSafe, loads, lanes, store, Return
<1>13. CASE CheckAcked
  BY <1>0, <1>13, LutSteps, Moves
     DEF CheckAcked, GoSafe, loads, lanes, store, Return
<1>. QED
  BY <1>1, <1>2, <1>3, <1>4, <1>5, <1>6, <1>7, <1>8, <1>9, <1>10, <1>11, <1>12,
     <1>13 DEF Hart1

\* GoSafe is inductive.
LEMMA Invariance ==
  ASSUME GoSafe, [Next]_vars
  PROVE  GoSafe'
<1>1. ASSUME NEW k \in Kinds, Issue(k) PROVE GoSafe'
  BY <1>1 DEF Issue, GoSafe, loads, lanes, store
<1>2. CASE EngineRun
  BY <1>2 DEF EngineRun, GoSafe, hart, lanes, store
<1>3. CASE Hart1
  <2>1. CASE phase = "run"
    BY <1>3, <2>1, LutStep, OtherStep
  <2>2. CASE phase # "run"
    <3>1. Software
      BY <1>3, <2>2, Zenon
         DEF Hart1, Software, ClearErr, LoadStep, Check, NameBuffer, ArmDrain,
             Configure, CheckIdle, Arm, Go, Fence, WaitOwn, CheckAcked, At
    <3>. QED BY <3>1 DEF Software, GoSafe, loads, lanes, store
  <2>. QED BY <2>1, <2>2
<1>4. CASE FillDone
  BY <1>4 DEF FillDone, GoSafe, hart, lanes, store
<1>5. CASE Emit
  BY <1>5 DEF Emit, GoSafe, hart, loads
<1>6. CASE GiveBack
  BY <1>6 DEF GiveBack, GoSafe, hart, loads, store
<1>7. CASE StartPut
  BY <1>7 DEF StartPut, GoSafe, hart, loads, lanes
<1>8. CASE Ack
  BY <1>8 DEF Ack, GoSafe, hart, loads, lanes
<1>9. CASE UNCHANGED vars
  BY <1>9 DEF vars, GoSafe, hart, loads, lanes, store
<1>. QED
  BY <1>1, <1>2, <1>3, <1>4, <1>5, <1>6, <1>7, <1>8, <1>9
     DEF Next, Unit, Poll, Finished

\* What a returning dispatch changes in rc.
LEMMA Returned ==
  ASSUME NEW code, Return(code), DOMAIN rc = Disp, NEW d \in Disp,
         rc[d] = "none", rc'[d] \in Refusals
  PROVE  d = n /\ code \in Refusals
  BY DEF Return, Refusals

\* mbxr_lane_dispatch never leaves its drain armed when it reports a refusal
\* ("st before a REFUSAL is the poison"), however many dispatches of whatever
\* length are issued, however short the poll budgets and whatever fills fail.
THEOREM LutNeverPoisons == Spec => LutRefusalUnarmed
<1>1. Init => GoSafe
  BY Initially
<1>2. GoSafe /\ [Next]_vars => GoSafe'
  BY Invariance
<1>3. GoSafe /\ [Next]_vars => (kind = "LUT" => LeavesUnarmed)
  <2> SUFFICES ASSUME GoSafe, [Next]_vars, kind = "LUT", NEW d \in Disp,
                      rc[d] = "none", rc'[d] \in Refusals
               PROVE  ~(drain'.run /\ drain'.dst = d)
    BY DEF LeavesUnarmed
  <2>0. UNCHANGED rc => FALSE
    BY DEF Refusals
  <2>1. CASE UNCHANGED vars
    BY <2>0, <2>1 DEF vars, hart
  <2>2. ASSUME NEW k \in Kinds, Issue(k) PROVE FALSE
    BY <2>0, <2>2 DEF Issue
  <2>3. CASE EngineRun \/ Unit \/ Software
    BY <2>0, <2>3 DEF EngineRun, Unit, Software, FillDone, Emit, GiveBack, StartPut,
                     Ack, hart
  <2>4. CASE ClearErr \/ LoadStep \/ NameBuffer \/ ArmDrain \/ Configure
    <3>1. phase = "run" /\ pc < 19 /\ Advance
      BY <2>4, LutSteps DEF ClearErr, LoadStep, NameBuffer, ArmDrain, Configure,
                            GoSafe, At
    <3>. QED BY <2>0, <3>1, Moves DEF GoSafe
  <2>5. CASE Check
    <3>1. PICK s \in DOMAIN RefusalCode :
            At(s) /\ IF err THEN Return(RefusalCode[s]) ELSE Advance
      BY <2>5 DEF Check
    <3>2. phase = "run" /\ pc \in {3, 7, 13, 16}
      BY <3>1, LutSteps DEF At, GoSafe, RefusalCode
    <3>3. CASE err
      <4>1. pc < 13 /\ d = n
        BY <3>1, <3>2, <3>3, Returned DEF GoSafe
      <4>. QED BY <2>5, <3>2, <4>1 DEF Check, GoSafe, store
    <3>4. CASE ~err
      BY <2>0, <3>1, <3>2, <3>4, Moves DEF GoSafe
    <3>. QED BY <3>3, <3>4
  <2>6. CASE CheckIdle \/ Arm
    <3>1. phase = "run" /\ pc \in {9, 10} /\ UNCHANGED drain
      BY <2>6, LutSteps DEF CheckIdle, Arm, GoSafe, At, store
    <3>2. CASE Advance
      BY <2>0, <3>1, <3>2, Moves DEF GoSafe
    <3>3. CASE Return("BUSY") \/ Return("ARM")
      BY <3>1, <3>3, Returned DEF GoSafe
    <3>. QED BY <2>6, <3>2, <3>3 DEF CheckIdle, Arm
  <2>7. CASE Go
    <3>1. phase = "run" /\ pc = 15
      BY <2>7, LutSteps DEF Go, GoSafe, At
    <3>2. own = "engine" /\ ~cfgBad[kind]
      BY <3>1 DEF GoSafe
    <3>3. Advance
      BY <2>7, <3>2, Zenon DEF Go
    <3>. QED BY <2>0, <3>1, <3>3, Moves DEF GoSafe
  <2>8. CASE Fence
    <3>1. phase = "run" /\ pc \in {4, 18} /\ (Advance \/ Return("HANG"))
      BY <2>8, LutSteps DEF Fence, GoSafe, At
    <3>. QED BY <2>0, <3>1, Moves, Returned DEF GoSafe, Refusals
  <2>9. CASE WaitOwn
    <3>1. /\ phase = "run" /\ pc = 17
          /\ Advance \/ Return("HANG") \/ Return("ERR")
      BY <2>9, LutSteps DEF WaitOwn, AfterOwn, GoSafe, At
    <3>. QED BY <2>0, <3>1, Moves, Returned DEF GoSafe, Refusals
  <2>10. CASE CheckAcked
    <3>1. pc = 19 /\ phase = "run" /\ (Return("NOLANE") \/ Return(held))
      BY <2>10, LutSteps, Moves DEF CheckAcked, GoSafe, At
    <3>. QED BY <3>1, Returned DEF GoSafe, Refusals
  <2>. QED
    BY <2>1, <2>2, <2>3, <2>4, <2>5, <2>6, <2>7, <2>8, <2>9, <2>10
       DEF Next, Hart1, Poll, Finished
<1>. QED BY <1>1, <1>2, <1>3, PTL DEF Spec, LutRefusalUnarmed
-----------------------------------------------------------------------------
(* Where hart 1 is, and what moving on does.                                 *)

\* The steps of the LayerNorm program.
LEMMA LnPlaces ==
  ASSUME kind = "LN", phase = "run", pc \in 1 .. 13
  PROVE  /\ Len(Program) = 13
         /\ At("load_a") => pc = 1
         /\ At("chk_act") => pc = 2
         /\ At("wait_busy") => pc = 3
         /\ At("cfg") => pc = 4
         /\ At("chk_cfg") => pc = 5
         /\ At("st") => pc = 6
         /\ At("chk_st") => pc = 7
         /\ At("conf") => pc = 8
         /\ At("arm") => pc = 9
         /\ At("go") => pc = 10
         /\ At("chk_go") => pc = 11
         /\ At("own") => pc = 12
         /\ At("wait_end") => pc = 13
         /\ ~At("clear") /\ ~At("load_w") /\ ~At("chk_wgt") /\ ~At("wait_fill") /\ ~At("idle")
         /\ ~At("acked")
  BY SMTT(60) DEF At, Program, LN

\* The steps of the attention program.
LEMMA AttnPlaces ==
  ASSUME kind = "ATTN", phase = "run", pc \in 1 .. 17
  PROVE  /\ Len(Program) = 17
         /\ At("clear") => pc = 1
         /\ At("load_a") => pc = 2
         /\ At("chk_act") => pc = 3
         /\ At("wait_fill") => pc = 4
         /\ At("load_w") => pc = 5
         /\ At("chk_wgt") => pc = 6
         /\ At("wait_busy") => pc = 7
         /\ At("cfg") => pc = 8
         /\ At("chk_cfg") => pc = 9
         /\ At("st") => pc = 10
         /\ At("chk_st") => pc = 11
         /\ At("conf") => pc = 12
         /\ At("arm") => pc = 13
         /\ At("go") => pc = 14
         /\ At("chk_go") => pc = 15
         /\ At("own") => pc = 16
         /\ At("wait_end") => pc = 17
         /\ ~At("idle") /\ ~At("acked")
  BY SMTT(60) DEF At, Program, ATTN

\* The order of the steps, whichever the lane.
LEMMA PlaceOrder ==
  ASSUME kind \in AllKinds
  PROVE  /\ LenAt \in Nat /\ LoadAt \in Nat /\ BusyAt \in Nat /\ CfgAt \in Nat /\ StAt \in Nat
         /\ ConfAt \in Nat /\ GoAt \in Nat /\ OwnAt \in Nat /\ EndAt \in Nat
         /\ 1 <= LoadAt /\ LoadAt + 1 < BusyAt /\ BusyAt < CfgAt /\ CfgAt + 1 < StAt
         /\ StAt + 1 < GoAt /\ CfgAt + 1 < ConfAt /\ ConfAt < GoAt /\ GoAt + 1 < OwnAt
         /\ EndAt = OwnAt + 1 /\ LenAt = (IF kind = "LUT" THEN EndAt + 1 ELSE EndAt)
         /\ LenAt <= 19
         /\ kind = "ATTN" => LoadAt = 2 /\ BusyAt = 7
         /\ ConfAt # StAt /\ ConfAt # StAt + 1
         /\ kind = "LUT" => BusyAt = 4 /\ StAt = 12 /\ GoAt = 15
  BY DEF AllKinds, LenAt, LoadAt, BusyAt, CfgAt, StAt, ConfAt, GoAt, OwnAt, EndAt

\* A dispatch stays with its program.
LEMMA SamePlaces ==
  ASSUME kind' = kind
  PROVE  /\ LenAt' = LenAt /\ LoadAt' = LoadAt /\ BusyAt' = BusyAt /\ CfgAt' = CfgAt
         /\ StAt' = StAt /\ ConfAt' = ConfAt /\ GoAt' = GoAt /\ OwnAt' = OwnAt
         /\ EndAt' = EndAt
  BY DEF LenAt, LoadAt, BusyAt, CfgAt, StAt, ConfAt, GoAt, OwnAt, EndAt

\* What a step of a program says of where hart 1 is.
LEMMA Places ==
  ASSUME TypeInv, phase = "run"
  PROVE  /\ kind \in AllKinds /\ Len(Program) = LenAt /\ pc \in 1 .. LenAt
         /\ At("load_a") => pc = LoadAt
         /\ At("chk_act") => pc = LoadAt + 1
         /\ At("load_w") => kind = "ATTN" /\ pc = 5
         /\ At("wait_fill") => kind = "ATTN" /\ pc = 4
         /\ At("chk_wgt") => kind = "ATTN" /\ pc = 6
         /\ At("wait_busy") => pc = BusyAt
         /\ At("cfg") => pc = CfgAt
         /\ At("chk_cfg") => pc = CfgAt + 1
         /\ At("st") => pc = StAt
         /\ At("chk_st") => pc = StAt + 1
         /\ At("conf") => pc = ConfAt
         /\ At("idle") => kind = "LUT" /\ pc = 9
         /\ At("arm") => pc > CfgAt + 1 /\ pc < GoAt /\ pc \notin {StAt, StAt + 1, ConfAt}
         /\ At("go") => pc = GoAt
         /\ At("chk_go") => pc = GoAt + 1
         /\ At("own") => pc = OwnAt
         /\ At("wait_end") => pc = EndAt
         /\ At("acked") => kind = "LUT" /\ pc = EndAt + 1
         /\ At("clear") => /\ kind # "LN" /\ pc < GoAt
                           /\ pc \notin {LoadAt, BusyAt, CfgAt, CfgAt + 1, StAt, StAt + 1, ConfAt}
                           /\ kind = "ATTN" => pc = 1
                           /\ kind = "LUT" => pc \in {1, 5, 11, 14}
  <1>1. kind \in AllKinds
    BY LaneKindsAssumption DEF TypeInv, TypeOK
  <1>2. pc \in 1 .. LenAt
    BY <1>1, PlaceOrder DEF TypeInv, TypeOK, BoundInv, LUT
  <1>3. CASE kind = "LN"
    BY <1>1, <1>2, <1>3, LnPlaces
       DEF LenAt, LoadAt, BusyAt, CfgAt, StAt, ConfAt, GoAt, OwnAt, EndAt
  <1>4. CASE kind = "ATTN"
    BY <1>1, <1>2, <1>4, AttnPlaces
       DEF LenAt, LoadAt, BusyAt, CfgAt, StAt, ConfAt, GoAt, OwnAt, EndAt
  <1>5. CASE kind = "LUT"
    BY <1>1, <1>2, <1>5, LutSteps
       DEF LenAt, LoadAt, BusyAt, CfgAt, StAt, ConfAt, GoAt, OwnAt, EndAt
  <1> QED
    BY <1>1, <1>3, <1>4, <1>5 DEF AllKinds

\* A dispatch that moves on is one step further, or returns from the last.
LEMMA Onward ==
  ASSUME TypeInv, phase = "run", Advance
  PROVE  \/ pc < LenAt /\ pc' = pc + 1 /\ UNCHANGED <<phase, rc>>
         \/ pc = LenAt /\ Return(held)
  BY Places DEF Advance

\* Only hart 1's own program moves it: every other step leaves it where it is.
LEMMA InProgram ==
  ASSUME Hart1, ~Software
  PROVE  phase = "run"
  BY Zenon DEF Hart1, ClearErr, LoadStep, Check, NameBuffer, ArmDrain, Configure,
     CheckIdle, Arm, Go, Fence, WaitOwn, CheckAcked, At
-----------------------------------------------------------------------------
(* Types. *)

\* Everything starts with its type.
LEMMA InitTyped == Init => TypeInv
  <1> SUFFICES ASSUME Init PROVE TypeInv
    OBVIOUS
  <1> USE LaneKindsAssumption, LaneBoundsAssumption DEF Init
  <1>1. /\ phase \in {"idle", "run", "software"} /\ pc \in 1 .. Len(LUT) /\ n \in 0 .. MaxN
        /\ kind \in Kinds /\ refusal \in BOOLEAN /\ held \in Codes /\ rc \in [Disp -> Codes]
    <2>1. pc \in 1 .. Len(LUT) /\ n \in 0 .. MaxN /\ phase = "idle" /\ refusal = FALSE
          /\ kind \in Kinds
      BY DEF LUT
    <2>2. held \in Codes /\ rc \in [Disp -> Codes]
      BY DEF Codes
    <2> HIDE DEF Init
    <2> QED
      BY <2>1, <2>2
  <1>2. /\ err \in BOOLEAN /\ tbuf \in {"a0", "a1"} /\ bufs \in [Spad -> Tags]
        /\ ld \in [busy : BOOLEAN, buf : Spad, tag : Tags]
    <2>1. 0 \in Tags /\ "a0" \in Spad
      BY DEF Spad, Tags
    <2>2. bufs \in [Spad -> Tags]
      BY <2>1
    <2> HIDE DEF Init
    <2>3. ld = [busy |-> FALSE, buf |-> "a0", tag |-> 0] /\ err = FALSE /\ tbuf = "a0"
      BY DEF Init
    <2> QED
      BY <2>1, <2>2, <2>3
  <1>3. /\ conf \in [AllKinds -> Tags] /\ cfgBad \in [AllKinds -> BOOLEAN]
        /\ lerr \in [AllKinds -> BOOLEAN] /\ absent \subseteq Optional
        /\ own \in AllKinds \cup {"engine"}
        /\ lane \in [id : Tags, left : 0 .. Blocks, bad : BOOLEAN]
    BY DEF Tags
  <1>4. /\ fifo \in Seq(Tags) /\ Len(fifo) <= FifoBlocks
        /\ drain \in [run : BOOLEAN, dst : Tags, issued : 0 .. Blocks]
        /\ puts \subseteq [dst : Disp, i : 0 .. Blocks - 1, tag : Tags]
    BY DEF Tags
  <1>5. Cardinality(puts) <= Depth /\ IsFiniteSet(puts)
    BY FS_EmptySet
  <1>6. mem \in [Disp -> [1 .. Blocks -> Tags]]
    BY DEF All, Tags
  <1> QED
    BY <1>1, <1>2, <1>3, <1>4, <1>5, <1>6 DEF TypeInv, TypeOK, BoundInv

\* Moving on or returning a code keeps what hart 1 keeps.
LEMMA MovedTyped ==
  ASSUME TypeInv, phase = "run", UNCHANGED <<n, kind>>,
         Advance \/ \E code \in Codes : Return(code)
  PROVE  /\ phase' \in {"idle", "run", "software"} /\ pc' \in 1 .. Len(LUT)
         /\ rc' \in [Disp -> Codes]
         /\ phase' = "run" => pc' <= LenAt'
         /\ phase' # "idle" => n' >= 1
  <1>1. pc \in 1 .. LenAt /\ kind \in AllKinds /\ LenAt' = LenAt
    BY Places, SamePlaces
  <1>2. held \in Codes /\ rc \in [Disp -> Codes] /\ n >= 1
    BY DEF TypeInv, TypeOK, BoundInv
  <1>3. ASSUME NEW code \in Codes, Return(code)
        PROVE  phase' \in {"idle", "software"} /\ pc' = pc /\ rc' \in [Disp -> Codes]
    BY <1>2, <1>3 DEF Return
  <1>4. Len(LUT) = 19 /\ LenAt \in Nat /\ LenAt <= 19
    BY <1>1, PlaceOrder DEF LUT
  <1>5. CASE \E code \in Codes : Return(code)
    BY <1>1, <1>2, <1>3, <1>4, <1>5
  <1>6. CASE Advance
    <2>1. CASE pc < LenAt /\ pc' = pc + 1 /\ UNCHANGED <<phase, rc>>
      BY <1>1, <1>2, <1>4, <2>1
    <2> QED
      BY <1>2, <1>5, <1>6, <2>1, Onward
  <1> QED
    BY <1>5, <1>6

\* The dispatchers keep every type.
LEMMA Hart1Typed ==
  ASSUME TypeInv, Hart1
  PROVE  TypeInv'
  <1> USE LaneKindsAssumption, LaneBoundsAssumption
      DEF TypeInv, TypeOK, BoundInv, loads, lanes, store
  <1> DEFINE Codex == {"OK", "ACTLD", "WGTLD", "CFG", "ST", "GO", "ARM", "BUSY", "HANG",
                       "ERR", "NOLANE"}
  <1>0. Codex \subseteq Codes
    BY DEF Codes
  <1>1. CASE Software
    BY <1>1 DEF Software, All, Tags, Disp
  <1> DEFINE Moved == /\ phase' \in {"idle", "run", "software"} /\ pc' \in 1 .. Len(LUT)
                      /\ rc' \in [Disp -> Codes]
                      /\ phase' = "run" => pc' <= LenAt'
                      /\ phase' # "idle" => n' >= 1
  <1>2. CASE ClearErr
    <2>1. Moved
      BY <1>2, MovedTyped DEF ClearErr, At
    <2> QED
      BY <1>2, <2>1 DEF ClearErr
  <1>3. CASE LoadStep
    <2>1. Moved
      BY <1>3, MovedTyped DEF LoadStep, At
    <2>2. ld' \in [busy : BOOLEAN, buf : Spad, tag : Tags] /\ bufs' \in [Spad -> Tags]
      <3>1. n \in Tags /\ 0 \in Tags /\ {"a0", "w"} \subseteq Spad
        BY DEF Spad, Tags
      <3>2. PICK b \in {"a0", "w"} : Load(b)
        BY <1>3 DEF LoadStep
      <3>3. CASE UNCHANGED <<ld, bufs>>
        BY <3>3
      <3>4. CASE ld' = [busy |-> TRUE, buf |-> b, tag |-> n] /\ bufs' = [bufs EXCEPT ![b] = 0]
        <4> HIDE DEF TypeInv
        <4>1. bufs \in [Spad -> Tags] /\ b \in Spad
          BY <3>1 DEF TypeInv, TypeOK
        <4> QED
          BY <3>1, <3>4, <4>1
      <3> QED
        BY <3>2, <3>3, <3>4 DEF Load
    <2> QED
      BY <1>3, <2>1, <2>2 DEF LoadStep
  <1>4. CASE Check
    <2>1. \A s \in DOMAIN RefusalCode : RefusalCode[s] \in Codes
      BY DEF RefusalCode, Codes
    <2>2. phase = "run" /\ (Advance \/ \E code \in Codes : Return(code))
      BY <1>4, <2>1 DEF Check, At
    <2>3. Moved
      BY <1>4, <2>2, MovedTyped DEF Check
    <2> QED
      BY <1>4, <2>3 DEF Check
  <1>5. CASE NameBuffer
    <2>1. Moved
      BY <1>5, MovedTyped DEF NameBuffer, At
    <2> QED
      BY <1>5, <2>1 DEF NameBuffer
  <1>6. CASE ArmDrain
    <2>1. Moved
      BY <1>6, MovedTyped DEF ArmDrain, At
    <2>2. drain' \in [run : BOOLEAN, dst : Tags, issued : 0 .. Blocks]
      BY <1>6 DEF ArmDrain, Tags
    <2>3. drain'.run => drain'.issued < Blocks /\ drain'.dst >= 1
      BY <1>6 DEF ArmDrain, At
    <2> QED
      BY <1>6, <2>1, <2>2, <2>3 DEF ArmDrain
  <1>7. CASE Configure
    <2>1. Moved
      BY <1>7, MovedTyped DEF Configure, At
    <2>2. conf' \in [AllKinds -> Tags] /\ cfgBad' \in [AllKinds -> BOOLEAN]
      BY <1>7 DEF Configure, Tags
    <2>3. lerr' \in [AllKinds -> BOOLEAN]
      <3>1. (kind # "LN" /\ (lerr[kind] \/ own = kind)) \in BOOLEAN
        OBVIOUS
      <3> QED
        BY <1>7, <3>1, Zenon DEF Configure
    <2> QED
      BY <1>7, <2>1, <2>2, <2>3 DEF Configure
  <1>8. CASE CheckIdle
    <2>1. Moved
      BY <1>0, <1>8, MovedTyped DEF CheckIdle, At
    <2> QED
      BY <1>8, <2>1 DEF CheckIdle
  <1>9. CASE Arm
    <2>1. Moved
      BY <1>0, <1>9, MovedTyped DEF Arm, At
    <2> QED
      BY <1>9, <2>1 DEF Arm
  <1>10. CASE Go
    <2>1. Moved
      BY <1>0, <1>10, MovedTyped DEF Go, At
    <2>2. own' \in AllKinds \cup {"engine"}
      BY <1>10 DEF Go
    <2>3. lane' \in [id : Tags, left : 0 .. Blocks, bad : BOOLEAN]
      <3>1. CASE UNCHANGED lane
        BY <3>1
      <3>2. CASE ~UNCHANGED lane
        <4>1. PICK bad \in BOOLEAN : lane' = [id |-> conf[kind], left |-> Blocks, bad |-> bad]
          BY <1>10, <3>2 DEF Go
        <4>2. conf[kind] \in Tags /\ Blocks \in 0 .. Blocks
          OBVIOUS
        <4> QED
          BY <4>1, <4>2
      <3> QED
        BY <3>1, <3>2
    <2> QED
      BY <1>10, <2>1, <2>2, <2>3 DEF Go
  <1>11. CASE Fence
    <2>1. Moved
      BY <1>0, <1>11, MovedTyped DEF Fence, At
    <2> QED
      BY <1>11, <2>1 DEF Fence
  <1>12. CASE WaitOwn
    <2>1. phase = "run" /\ held' \in Codes
      BY <1>0, <1>12 DEF WaitOwn, At, AfterOwn
    <2>2. \/ Advance \/ \E code \in Codes : Return(code)
          \/ pc < Len(Program) /\ pc' = pc + 1 /\ UNCHANGED <<phase, rc>>
      BY <1>0, <1>12 DEF WaitOwn, AfterOwn
    <2>3. CASE Advance \/ \E code \in Codes : Return(code)
      <3>1. Moved
        BY <1>12, <2>1, <2>3, MovedTyped DEF WaitOwn
      <3> QED
        BY <1>12, <2>1, <3>1 DEF WaitOwn
    <2>4. CASE pc < Len(Program) /\ pc' = pc + 1 /\ UNCHANGED <<phase, rc>>
      <3>1. pc \in 1 .. LenAt /\ Len(Program) = LenAt /\ LenAt \in Nat /\ LenAt <= 19
            /\ LenAt' = LenAt
        BY <1>12, <2>1, Places, PlaceOrder, SamePlaces DEF WaitOwn
      <3>2. Moved
        BY <1>12, <2>1, <2>4, <3>1 DEF WaitOwn, LUT
      <3> QED
        BY <1>12, <2>1, <3>2 DEF WaitOwn
    <2> QED
      BY <2>2, <2>3, <2>4
  <1>13. CASE CheckAcked
    <2>1. Moved
      BY <1>0, <1>13, MovedTyped DEF CheckAcked, At
    <2> QED
      BY <1>13, <2>1 DEF CheckAcked
  <1> QED
    BY <1>1, <1>2, <1>3, <1>4, <1>5, <1>6, <1>7, <1>8, <1>9, <1>10, <1>11, <1>12,
       <1>13 DEF Hart1

\* The unit keeps every type: its FIFO and its Puts stay within their bounds.
LEMMA UnitTyped ==
  ASSUME TypeInv, Unit
  PROVE  TypeInv'
  <1> USE LaneBoundsAssumption DEF TypeInv, TypeOK, BoundInv, hart, loads, lanes, store
  <1>1. CASE FillDone
    <2>1. ld' \in [busy : BOOLEAN, buf : Spad, tag : Tags] /\ bufs' \in [Spad -> Tags]
          /\ err' \in BOOLEAN /\ LenAt' = LenAt
      BY <1>1, SamePlaces DEF FillDone
    <2> QED
      BY <1>1, <2>1 DEF FillDone
  <1>2. CASE Emit
    <2>1. Answer \in Tags /\ LenAt' = LenAt
      BY <1>2, SamePlaces DEF Emit, Answer, Tags
    <2>2. fifo' \in Seq(Tags) /\ Len(fifo') <= FifoBlocks
      <3>1. fifo' = Append(fifo, Answer) /\ Len(fifo) < FifoBlocks /\ fifo \in Seq(Tags)
        BY <1>2 DEF Emit, CanEmit
      <3> HIDE DEF TypeInv
      <3> QED
        BY <2>1, <3>1
    <2>3. lane' \in [id : Tags, left : 0 .. Blocks, bad : BOOLEAN]
      <3>1. lane' = [lane EXCEPT !.left = @ - 1] /\ lane.left > 0
        BY <1>2 DEF Emit, CanEmit
      <3>2. lane \in [id : Tags, left : 0 .. Blocks, bad : BOOLEAN]
        OBVIOUS
      <3>3. lane.left \in 0 .. Blocks /\ lane.left - 1 \in 0 .. Blocks
        BY <3>1, <3>2
      <3> HIDE DEF TypeInv
      <3> QED
        BY <3>1, <3>2, <3>3
    <2> QED
      BY <1>2, <2>1, <2>2, <2>3 DEF Emit
  <1>3. CASE GiveBack
    <2>1. lerr' \in [AllKinds -> BOOLEAN] /\ LenAt' = LenAt
      <3>1. (lerr[own] \/ lane.bad) \in BOOLEAN
        OBVIOUS
      <3> QED
        BY <1>3, <3>1, SamePlaces, Zenon DEF GiveBack
    <2> QED
      BY <1>3, <2>1 DEF GiveBack
  <1>4. CASE StartPut
    <2> DEFINE new == [dst |-> drain.dst, i |-> drain.issued, tag |-> Head(fifo)]
    <2>1. LenAt' = LenAt /\ fifo # << >> /\ drain.run /\ Cardinality(puts) < Depth
      BY <1>4, SamePlaces DEF StartPut, CanPut
    <2>2. Head(fifo) \in Tags /\ Tail(fifo) \in Seq(Tags) /\ Len(Tail(fifo)) <= FifoBlocks
      BY <2>1
    <2>3. new \in [dst : Disp, i : 0 .. Blocks - 1, tag : Tags]
      BY <2>1, <2>2 DEF Tags, Disp
    <2>4. puts' = puts \cup {new} /\ fifo' = Tail(fifo)
      BY <1>4 DEF StartPut
    <2>5. IsFiniteSet(puts') /\ Cardinality(puts') <= Depth
      <3>1. IsFiniteSet(puts \cup {new})
        BY FS_AddElement
      <3>2. Cardinality(puts \cup {new}) = Cardinality(puts)
            \/ Cardinality(puts \cup {new}) = Cardinality(puts) + 1
        BY FS_AddElement
      <3>3. Cardinality(puts) \in Nat
        BY FS_CardinalityType
      <3> QED
        BY <2>1, <2>4, <3>1, <3>2, <3>3
    <2>6. /\ drain' \in [run : BOOLEAN, dst : Tags, issued : 0 .. Blocks]
          /\ drain'.run => drain'.issued < Blocks /\ drain'.dst >= 1
      <3>1. drain' = [drain EXCEPT !.issued = @ + 1, !.run = drain.issued + 1 < DrainBlocks]
        BY <1>4 DEF StartPut
      <3>2. drain.issued + 1 \in 0 .. Blocks /\ drain.dst >= 1
        BY <2>1
      <3>3. /\ drain'.dst = drain.dst /\ drain'.issued = drain.issued + 1
            /\ drain'.run = (drain.issued + 1 < Blocks)
            /\ drain' = [run |-> drain'.run, dst |-> drain'.dst, issued |-> drain'.issued]
        BY <3>1 DEF DrainBlocks
      <3>4. drain.dst \in Tags /\ drain'.run \in BOOLEAN
        BY <3>3
      <3>5. drain'.run => drain'.issued < Blocks /\ drain'.dst >= 1
        BY <3>2, <3>3
      <3> HIDE DEF TypeInv
      <3>6. drain' \in [run : BOOLEAN, dst : Tags, issued : 0 .. Blocks]
        BY <3>2, <3>3, <3>4
      <3> QED
        BY <3>5, <3>6
    <2> QED
      BY <1>4, <2>1, <2>2, <2>3, <2>4, <2>5, <2>6 DEF StartPut
  <1>5. CASE Ack
    <2>1. PICK p \in puts : /\ puts' = puts \ {p}
                            /\ mem' = [mem EXCEPT ![p.dst][p.i + 1] = p.tag]
      BY <1>5 DEF Ack
    <2>2. LenAt' = LenAt
      BY <1>5, SamePlaces DEF Ack
    <2>3. IsFiniteSet(puts') /\ Cardinality(puts') <= Depth
      <3>1. IsFiniteSet(puts \ {p}) /\ Cardinality(puts \ {p}) = Cardinality(puts) - 1
        BY FS_RemoveElement
      <3>2. Cardinality(puts) \in Nat
        BY FS_CardinalityType
      <3> QED
        BY <2>1, <3>1, <3>2
    <2>4. mem' \in [Disp -> [1 .. Blocks -> Tags]]
      BY <2>1
    <2> QED
      BY <1>5, <2>1, <2>2, <2>3, <2>4 DEF Ack
  <1> QED
    BY <1>1, <1>2, <1>3, <1>4, <1>5 DEF Unit

\* Every step keeps every type.
LEMMA NextTyped == TypeInv /\ [Next]_vars => TypeInv'
  <1> SUFFICES ASSUME TypeInv, [Next]_vars PROVE TypeInv'
    OBVIOUS
  <1> USE LaneKindsAssumption, LaneBoundsAssumption
  <1>1. ASSUME NEW k \in Kinds, Issue(k) PROVE TypeInv'
    <2>1. n' \in 0 .. MaxN /\ n' >= 1 /\ refusal' \in BOOLEAN /\ held' \in Codes
      <3>1. n' \in 0 .. MaxN /\ n' >= 1
        BY <1>1 DEF Issue, TypeInv, TypeOK
      <3>2. refusal' \in BOOLEAN
        BY <1>1, Zenon DEF Issue
      <3> QED
        BY <1>1, <3>1, <3>2 DEF Issue, Codes
    <2>2. pc' \in 1 .. Len(LUT) /\ pc' <= LenAt'
      BY <1>1 DEF Issue, LenAt, LUT
    <2> QED
      BY <1>1, <2>1, <2>2 DEF Issue, TypeInv, TypeOK, BoundInv, loads, lanes, store
  <1>2. CASE EngineRun
    <2>1. bufs' \in [Spad -> Tags] /\ err' \in BOOLEAN /\ LenAt' = LenAt
      <3>1. err' \in BOOLEAN
        BY <1>2, Zenon DEF EngineRun
      <3>2. 0 \in Tags
        BY DEF Tags
      <3> QED
        BY <1>2, <3>1, <3>2, SamePlaces DEF EngineRun, hart
    <2> QED
      BY <1>2, <2>1 DEF EngineRun, TypeInv, TypeOK, BoundInv, hart, lanes, store
  <1>3. CASE Hart1
    BY <1>3, Hart1Typed
  <1>4. CASE Unit
    BY <1>4, UnitTyped
  <1>5. CASE UNCHANGED vars
    <2>1. LenAt' = LenAt
      BY <1>5, SamePlaces DEF vars, hart
    <2> QED
      BY <1>5, <2>1 DEF vars, hart, loads, lanes, store, TypeInv, TypeOK, BoundInv
  <1> QED
    BY <1>1, <1>2, <1>3, <1>4, <1>5 DEF Next, Poll, Finished

\* Every variable keeps its type, whatever is refused, broken, absent or late:
\* no program runs past its end, the FIFO and the Puts in flight never exceed
\* what the drain holds, and no block is put behind the last.
THEOREM TypeCorrect == Spec => []TypeOK
  <1>1. Spec => []TypeInv
    BY InitTyped, NextTyped, PTL DEF Spec
  <1> QED
    BY <1>1, PTL DEF TypeInv
-----------------------------------------------------------------------------
(* The unit follows the program: with budgets that outlast it, hart 1 finds  *)
(* it at rest wherever the program says so.                                  *)

\* The types the proofs about the unit rest on.
LEMMA UnitTypes ==
  ASSUME TypeInv
  PROVE  /\ kind \in AllKinds /\ pc \in Nat /\ n \in Nat /\ phase \in {"idle", "run", "software"}
         /\ own \in AllKinds \cup {"engine"} /\ lane.left \in Nat
         /\ fifo \in Seq(Tags) /\ Len(fifo) \in Nat
         /\ drain.issued \in Nat /\ drain.issued <= Blocks /\ drain.run \in BOOLEAN
         /\ drain = [run |-> drain.run, dst |-> drain.dst, issued |-> drain.issued]
         /\ drain.run => drain.issued < Blocks
         /\ Blocks \in Nat /\ Blocks > 0 /\ FifoBlocks \in Nat /\ FifoBlocks > 0
         /\ Depth \in Nat /\ Depth > 0
  BY LaneKindsAssumption, LaneBoundsAssumption DEF TypeInv, TypeOK, BoundInv

\* A lane at work and its drain never stand still: a full FIFO drains, an empty
\* one is filled, and when no block is left the unit is given back.
LEMMA NeverStalls ==
  ASSUME TypeInv, Working, own # "engine" \/ DrainBusy
  PROVE  ~Stalled
  <1> SUFFICES ASSUME Stalled PROVE FALSE
    OBVIOUS
  <1>1. puts = {} /\ Cardinality(puts) = 0
    BY FS_EmptySet DEF Stalled
  <1>2. ~drain.run \/ fifo = << >>
    BY <1>1, UnitTypes DEF Stalled, CanPut
  <1>3. own = "engine" \/ (lane.left # 0 /\ Len(fifo) >= FifoBlocks)
    BY UnitTypes DEF Stalled, CanEmit, CanFinish
  <1>4. ~drain.run => drain.issued = Blocks
    BY UnitTypes DEF Working
  <1>5. fifo = << >> => Len(fifo) = 0
    OBVIOUS
  <1>6. CASE own # "engine"
    BY <1>2, <1>3, <1>4, <1>5, <1>6, UnitTypes DEF Working
  <1>7. CASE own = "engine"
    <2>1. drain.run /\ lane.left = 0
      BY <1>1, <1>7 DEF DrainBusy, Working
    <2> QED
      BY <1>2, <1>5, <2>1, UnitTypes DEF Working
  <1> QED
    BY <1>6, <1>7

\* Taking a dispatch up finds everything at rest.
LEMMA IssueUnit ==
  ASSUME TypeInv, UnitInv, NEW k \in Kinds, Issue(k)
  PROVE  UnitInv'
  <1>1. phase = "idle" /\ Rest
    BY DEF UnitInv, Issue
  <1>2. Rest' /\ pc' = 1 /\ phase' = "run" /\ held' = "OK"
    BY <1>1 DEF Issue, Rest, loads, lanes, store
  <1>3. 1 <= StAt' /\ ~(1 > BusyAt') /\ ~(1 > GoAt')
    BY DEF StAt, BusyAt, GoAt
  <1>4. ~(1 > StAt') /\ ~(1 > StAt' + 1)
    BY DEF StAt
  <1> QED
    BY <1>2, <1>3, <1>4 DEF UnitInv

\* Steps that leave the lane and its drain alone and move hart 1 on by one, or
\* return where everything is at rest; the fences, st, lgo and the wait for
\* the unit say more, and go on elsewhere.
LEMMA PlainUnit ==
  ASSUME TypeInv, UnitInv, phase = "run",
         UNCHANGED <<n, kind, held, absent, own, lane, fifo, drain, puts>>,
         pc > GoAt => UNCHANGED cfgBad,
         err' => err, ld'.busy => ld.busy \/ pc < BusyAt,
         phase' # "run" => Rest,
         phase' = "run" => /\ pc' = pc + 1
                           /\ pc \notin {BusyAt, StAt, GoAt, OwnAt, EndAt}
                           /\ pc = StAt + 1 => ~err
  PROVE  UnitInv'
  <1>1. /\ LenAt' = LenAt /\ BusyAt' = BusyAt /\ StAt' = StAt /\ GoAt' = GoAt
        /\ OwnAt' = OwnAt /\ EndAt' = EndAt
    BY SamePlaces
  <1>2. Rest' <=> Rest
    BY DEF Rest
  <1>3. CASE phase' # "run"
    BY <1>2, <1>3 DEF UnitInv
  <1>4. CASE phase' = "run"
    <2>1. Armed' <=> Armed
      BY DEF Armed
    <2>2. /\ BusyAt \in Nat /\ StAt \in Nat /\ GoAt \in Nat /\ OwnAt \in Nat /\ EndAt \in Nat
          /\ pc \in Nat /\ pc' \in Nat /\ BusyAt < StAt /\ StAt + 1 < GoAt
      <3>1. kind \in AllKinds /\ pc \in Nat
        BY UnitTypes
      <3> QED
        BY <1>4, <3>1, PlaceOrder
    <2>3. /\ (pc' > BusyAt) <=> (pc > BusyAt)
          /\ (pc' > StAt) <=> (pc > StAt)
          /\ (pc' > GoAt) <=> (pc > GoAt)
          /\ (pc' > OwnAt) <=> (pc > OwnAt)
          /\ (pc' > EndAt) <=> (pc > EndAt)
          /\ (pc' <= StAt) <=> (pc <= StAt)
          /\ (pc' <= GoAt) <=> (pc <= GoAt)
          /\ (pc' <= EndAt) <=> (pc <= EndAt)
          /\ pc # EndAt
          /\ pc > BusyAt => ~(pc < BusyAt)
          /\ pc' > StAt + 1 => pc > StAt + 1 \/ pc = StAt + 1
      BY <1>4, <2>2
    <2>4. Working => Working'
      <3> HIDE <2>2
      <3> QED
        BY <1>1, <2>3, Zenon DEF Working
    <2> QED
      BY <1>1, <1>2, <1>4, <2>1, <2>3, <2>4 DEF UnitInv
  <1> QED
    BY <1>3, <1>4

\* What moving on or returning does to the place.
LEMMA Outcome ==
  ASSUME TypeInv, phase = "run", Advance \/ \E code : Return(code)
  PROVE  \/ phase' = "run" /\ pc' = pc + 1 /\ pc < LenAt /\ UNCHANGED rc
         \/ phase' \in {"idle", "software"} /\ pc' = pc
  BY Onward DEF Return

\* Until the lane is started the unit rests, and from then on it rests once it
\* has been given back and the last Put is acknowledged.
LEMMA AtRest ==
  ASSUME TypeInv, UnitInv, phase = "run"
  PROVE  /\ pc <= GoAt => Rest
         /\ pc > GoAt /\ own = "engine" /\ ~DrainBusy => Rest
  <1> USE UnitTypes
  <1>1. pc <= GoAt => Rest
    <2>1. StAt \in Nat /\ GoAt \in Nat /\ pc \in Nat
      BY PlaceOrder
    <2> QED
      BY <2>1 DEF UnitInv
  <1>2. ASSUME Working, own = "engine", ~DrainBusy PROVE Rest
    <2>1. lane.left = 0 /\ drain.issued = Blocks /\ puts = {}
      BY <1>2 DEF Working, DrainBusy
    <2>2. Len(fifo) = 0
      BY <1>2, <2>1 DEF Working
    <2>3. fifo = << >>
      BY <2>2
    <2> QED
      BY <1>2, <2>1, <2>3 DEF Rest
  <1> QED
    BY <1>1, <1>2 DEF UnitInv

\* The steps of a dispatch that neither arm, start nor wait for the unit.
LEMMA QuietUnit ==
  ASSUME TypeInv, UnitInv, phase = "run",
         ClearErr \/ LoadStep \/ Check \/ NameBuffer \/ Configure \/ CheckIdle \/ Arm
  PROVE  UnitInv'
  <1>1. /\ kind \in AllKinds /\ pc \in Nat /\ GoAt \in Nat /\ OwnAt \in Nat /\ EndAt \in Nat
        /\ BusyAt \in Nat /\ StAt \in Nat /\ CfgAt \in Nat /\ LoadAt \in Nat
        /\ LoadAt + 1 < BusyAt /\ BusyAt < CfgAt /\ CfgAt + 1 < StAt /\ StAt + 1 < GoAt
        /\ GoAt + 1 < OwnAt /\ EndAt = OwnAt + 1
    BY UnitTypes, PlaceOrder
  <1> DEFINE Plain == pc \notin {BusyAt, StAt, GoAt, OwnAt, EndAt}
  <1>2. CASE ClearErr
    <2>1. Plain /\ pc < GoAt /\ pc # StAt + 1
      <3>1. At("clear")
        BY <1>2 DEF ClearErr
      <3>2. pc < GoAt /\ pc \notin {BusyAt, StAt, StAt + 1}
        BY <3>1, Places
      <3> QED
        BY <1>1, <3>2
    <2>2. Rest /\ (phase' = "run" => pc' = pc + 1)
      BY <1>1, <1>2, <2>1, AtRest, Outcome DEF ClearErr
    <2> QED
      BY <1>1, <1>2, <2>1, <2>2, PlainUnit DEF ClearErr, loads, lanes, store
  <1>3. CASE LoadStep
    <2>1. Plain /\ pc < BusyAt
      BY <1>1, <1>3, Places, PlaceOrder DEF LoadStep
    <2>2. Rest /\ (phase' = "run" => pc' = pc + 1)
      BY <1>1, <1>3, <2>1, AtRest, Outcome DEF LoadStep
    <2> QED
      BY <1>1, <1>3, <2>1, <2>2, PlainUnit DEF LoadStep, lanes, store
  <1>4. CASE Check
    <2>1. PICK s \in DOMAIN RefusalCode :
            At(s) /\ IF err THEN Return(RefusalCode[s]) ELSE Advance
      BY <1>4 DEF Check
    <2>2. pc \in {LoadAt + 1, CfgAt + 1, StAt + 1, GoAt + 1} \/ (kind = "ATTN" /\ pc = 6)
      BY <2>1, Places DEF RefusalCode
    <2>3. Plain /\ (pc <= GoAt \/ pc = GoAt + 1)
      BY <1>1, <2>2, PlaceOrder
    <2>4. pc = GoAt + 1 => ~err
      BY <1>1 DEF UnitInv
    <2>5. phase' = "run" => pc' = pc + 1 /\ ~err
      BY <1>1, <2>1, Outcome DEF Return
    <2>6. phase' # "run" => Rest
      <3>1. CASE err
        BY <2>3, <2>4, <3>1, AtRest
      <3>2. CASE ~err
        <4>1. pc <= EndAt /\ pc # EndAt
          BY <1>1, <2>3
        <4>2. pc < LenAt
          BY <1>1, <4>1, PlaceOrder
        <4>3. phase' = "run"
          BY <2>1, <3>2, <4>2, <1>1, Onward
        <4> QED
          BY <4>3
      <3> QED
        BY <3>1, <3>2
    <2> QED
      BY <1>4, <2>3, <2>5, <2>6, PlainUnit DEF Check, loads, lanes, store
  <1>5. CASE NameBuffer
    <2>1. Plain /\ pc < GoAt /\ pc # StAt + 1
      BY <1>1, <1>5, Places DEF NameBuffer
    <2>2. Rest /\ (phase' = "run" => pc' = pc + 1)
      BY <1>1, <1>5, <2>1, AtRest, Outcome DEF NameBuffer
    <2> QED
      BY <1>1, <1>5, <2>1, <2>2, PlainUnit DEF NameBuffer, lanes, store
  <1>6. CASE Configure
    <2>1. Plain /\ pc < GoAt /\ pc # StAt + 1
      BY <1>1, <1>6, Places, PlaceOrder DEF Configure
    <2>2. Rest /\ (phase' = "run" => pc' = pc + 1)
      BY <1>1, <1>6, <2>1, AtRest, Outcome DEF Configure
    <2> QED
      BY <1>1, <1>6, <2>1, <2>2, PlainUnit DEF Configure, loads, store
  <1>7. CASE CheckIdle
    <2>1. Plain /\ pc < GoAt /\ pc # StAt + 1
      BY <1>1, <1>7, Places, PlaceOrder DEF CheckIdle
    <2>2. Rest /\ (phase' = "run" => pc' = pc + 1)
      BY <1>1, <1>7, <2>1, AtRest, Outcome DEF CheckIdle
    <2> QED
      BY <1>1, <1>7, <2>1, <2>2, PlainUnit DEF CheckIdle, loads, lanes, store
  <1>8. CASE Arm
    <2>1. Plain /\ pc < GoAt /\ pc # StAt + 1
      BY <1>1, <1>8, Places DEF Arm
    <2>2. Rest /\ (phase' = "run" => pc' = pc + 1)
      BY <1>1, <1>8, <2>1, AtRest, Outcome DEF Arm
    <2> QED
      BY <1>1, <1>8, <2>1, <2>2, PlainUnit DEF Arm, loads, lanes, store
  <1> QED
    BY <1>2, <1>3, <1>4, <1>5, <1>6, <1>7, <1>8

\* st and lgo: the drain is armed for this dispatch, then the lane is started.
LEMMA StartUnit ==
  ASSUME TypeInv, UnitInv, phase = "run", ArmDrain \/ Go
  PROVE  UnitInv'
  <1>0. kind \in AllKinds /\ pc \in Nat
    BY UnitTypes
  <1>1. /\ GoAt \in Nat /\ OwnAt \in Nat /\ EndAt \in Nat
        /\ BusyAt \in Nat /\ StAt \in Nat /\ LenAt \in Nat /\ GoAt < LenAt
        /\ BusyAt < StAt /\ StAt + 1 < GoAt /\ GoAt + 1 < OwnAt /\ EndAt = OwnAt + 1
    BY <1>0, PlaceOrder
  <1>2. /\ kind' = kind => /\ LenAt' = LenAt /\ BusyAt' = BusyAt /\ StAt' = StAt /\ GoAt' = GoAt
                           /\ OwnAt' = OwnAt /\ EndAt' = EndAt
    BY SamePlaces
  <1>3. CASE ArmDrain
    <2>1. pc = StAt /\ UNCHANGED <<n, kind, held, err, ld, own, lane, fifo, puts>>
      BY <1>3, Places DEF ArmDrain, loads, lanes
    <2>2. Rest /\ ~drain.run /\ ~ld.busy
      BY <1>0, <1>1, <2>1, AtRest DEF UnitInv
    <2>3. Armed' /\ Rest'
      BY <1>3, <2>1, <2>2 DEF ArmDrain, DrainBusy, Rest, Armed
    <2>4. Advance
      BY <1>3 DEF ArmDrain
    <2>5. phase' = "run" /\ pc' = StAt + 1
      BY <1>0, <1>1, <2>1, <2>4, Onward
    <2>6. held = "OK" \/ (held = "ERR" /\ kind = "ATTN" /\ pc = EndAt)
      BY DEF UnitInv
    <2> QED
      BY <1>0, <1>1, <1>2, <2>1, <2>2, <2>3, <2>5, <2>6 DEF UnitInv
  <1>4. CASE Go
    <2>1. /\ pc = GoAt
          /\ UNCHANGED <<n, kind, held, err, ld, cfgBad, absent, fifo, puts, drain>>
      BY <1>4, Places DEF Go, loads, store
    <2>2. Rest /\ Armed /\ ~ld.busy /\ ~err /\ held = "OK"
      BY <1>0, <1>1, <2>1, AtRest DEF UnitInv
    <2>3. CASE cfgBad[kind]
      <3>1. phase' # "run" /\ UNCHANGED <<own, lane>>
        BY <1>4, <2>2, <2>3 DEF Go, Rest, Return
      <3> QED
        BY <2>1, <2>2, <3>1 DEF UnitInv, Rest
    <2>4. CASE ~cfgBad[kind]
      <3>1. /\ Advance
            /\ IF kind \in absent THEN UNCHANGED <<own, lane>>
               ELSE own' = kind /\ lane'.left = Blocks
        <4>1. own = "engine"
          BY <2>2 DEF Rest
        <4>2. /\ Advance
              /\ IF kind \in absent THEN UNCHANGED <<own, lane>>
                 ELSE /\ own' = kind
                      /\ \E bad : lane' = [id |-> conf[kind], left |-> Blocks, bad |-> bad]
          BY <1>4, <2>4, <4>1, Zenon DEF Go
        <4> QED
          BY <4>2
      <3>2. phase' = "run" /\ pc' = GoAt + 1
        BY <1>0, <1>1, <2>1, <3>1, Onward
      <3>3. CASE kind \in absent
        <4>1. Rest' /\ Armed'
          BY <2>1, <2>2, <3>1, <3>3 DEF Rest, Armed
        <4> QED
          BY <1>0, <1>1, <1>2, <2>1, <2>2, <2>4, <3>2, <3>3, <4>1 DEF UnitInv
      <3>4. CASE kind \notin absent
        <4>1. /\ drain'.run /\ drain'.dst = n /\ drain'.issued = 0 /\ Len(fifo') = 0
              /\ puts' = {} /\ lane'.left = Blocks /\ own' = kind /\ kind # "engine"
          BY <1>0, <1>1, <2>1, <2>2, <3>1, <3>4 DEF Rest, Armed, AllKinds
        <4>2. Working'
          BY <1>0, <1>1, <1>2, <2>1, <3>2, <3>4, <4>1, UnitTypes DEF Working
        <4> QED
          BY <1>0, <1>1, <1>2, <2>1, <2>2, <2>4, <3>2, <4>2 DEF UnitInv
      <3> QED
        BY <3>3, <3>4
    <2> QED
      BY <2>3, <2>4
  <1> QED
    BY <1>3, <1>4

\* The fences: a poll gives up only on a unit that stands still.
LEMMA FenceUnit ==
  ASSUME Patient, TypeInv, UnitInv, phase = "run", Fence
  PROVE  UnitInv'
  <1>0. kind \in AllKinds /\ pc \in Nat
    BY UnitTypes
  <1>1. /\ GoAt \in Nat /\ OwnAt \in Nat /\ EndAt \in Nat
        /\ BusyAt \in Nat /\ StAt \in Nat /\ LenAt \in Nat
        /\ BusyAt < StAt /\ StAt + 1 < GoAt /\ GoAt + 1 < OwnAt /\ EndAt = OwnAt + 1
    BY <1>0, PlaceOrder
  <1>2. /\ UNCHANGED <<n, kind, held, err, ld, own, lane, fifo, puts, drain, cfgBad, absent>>
        /\ LenAt' = LenAt /\ BusyAt' = BusyAt /\ StAt' = StAt /\ GoAt' = GoAt
        /\ OwnAt' = OwnAt /\ EndAt' = EndAt
    BY SamePlaces DEF Fence, loads, lanes, store
  <1>3. Rest' <=> Rest
    BY <1>2 DEF Rest
  <1>4. /\ phase' = "run" /\ pc' = pc + 1 /\ pc < LenAt
        \/ phase' # "run"
    BY Outcome DEF Fence
  <1>5. phase' = "run" => ~Masked
    BY DEF Fence, Return
  <1>6. CASE At("wait_fill")
    <2>1. pc = 4 /\ pc < BusyAt
      BY <1>0, <1>1, <1>6, Places, PlaceOrder
    <2>2. Rest
      BY <1>0, <1>1, <2>1, AtRest
    <2>3. phase' = "run" => pc' = pc + 1
      BY <1>4
    <2> QED
      BY <1>0, <1>1, <1>2, <2>1, <2>2, <2>3, PlainUnit
  <1>7. CASE At("wait_busy")
    <2>1. pc = BusyAt /\ ~At("wait_fill")
      BY <1>0, <1>1, <1>7, Places, PlaceOrder
    <2>2. Rest
      BY <1>0, <1>1, <2>1, AtRest
    <2>3. ~Masked => ~ld.busy /\ ~drain.run
      BY <2>1 DEF Masked, DrainBusy
    <2>4. held = "OK"
      BY <1>0, <1>1, <2>1 DEF UnitInv
    <2> QED
      BY <1>0, <1>1, <1>2, <1>3, <1>4, <1>5, <2>1, <2>2, <2>3, <2>4 DEF UnitInv
  <1>8. CASE At("wait_end")
    <2>1. pc = EndAt /\ ~At("wait_fill")
      BY <1>0, <1>1, <1>8, Places, PlaceOrder
    <2>2. ~ld.busy
      BY <1>0, <1>1, <2>1 DEF UnitInv
    <2>3. CASE Working
      <3>1. own = "engine"
        BY <1>0, <1>1, <2>1, <2>3 DEF Working
      <3>2. ~Masked /\ Advance
        BY <2>1, <2>2, <2>3, NeverStalls DEF Fence, GiveUp, Masked
      <3>3. ~drain.run /\ puts = {}
        BY <2>1, <3>2 DEF Masked, DrainBusy
      <3>4. CASE phase' # "run"
        BY <1>0, <1>1, <1>3, <2>1, <3>1, <3>3, <3>4, AtRest DEF UnitInv, DrainBusy
      <3>5. CASE phase' = "run"
        <4>1. held = "OK" /\ pc' = EndAt + 1 /\ ~cfgBad[kind] /\ ~err
          <5>1. pc' = pc + 1 /\ pc < LenAt
            BY <1>4, <3>5
          <5>2. kind = "LUT"
            BY <1>0, <1>1, <2>1, <5>1, PlaceOrder
          <5> QED
            BY <1>0, <1>1, <2>1, <5>1, <5>2 DEF UnitInv
        <4>2. Working'
          BY <1>2, <2>3, <3>1, <3>3 DEF Working
        <4> QED
          BY <1>0, <1>1, <1>2, <2>1, <2>2, <3>5, <4>1, <4>2 DEF UnitInv
      <3> QED
        BY <3>4, <3>5
    <2>4. CASE ~Working
      <3>1. Rest /\ Armed
        BY <1>0, <1>1, <2>1, <2>4 DEF UnitInv
      <3>2. phase' # "run"
        BY <1>5, <2>1, <3>1 DEF Masked, DrainBusy, Armed
      <3> QED
        BY <1>3, <3>1, <3>2 DEF UnitInv
    <2> QED
      BY <2>3, <2>4
  <1> QED
    BY <1>6, <1>7, <1>8 DEF Fence

\* The wait for the unit, and the LUT's last check.
LEMMA WaitUnit ==
  ASSUME Patient, TypeInv, UnitInv, NoEarlyErr, phase = "run", WaitOwn \/ CheckAcked
  PROVE  UnitInv'
  <1>0. kind \in AllKinds /\ pc \in Nat
    BY UnitTypes
  <1>1. /\ GoAt \in Nat /\ OwnAt \in Nat /\ EndAt \in Nat /\ BusyAt \in Nat /\ StAt \in Nat
        /\ LenAt \in Nat /\ EndAt <= LenAt
        /\ BusyAt < StAt /\ StAt + 1 < GoAt /\ GoAt + 1 < OwnAt /\ EndAt = OwnAt + 1
    BY <1>0, PlaceOrder
  <1>2. /\ UNCHANGED <<n, kind, err, ld, own, lane, fifo, puts, drain, cfgBad, absent>>
        /\ LenAt' = LenAt /\ BusyAt' = BusyAt /\ StAt' = StAt /\ GoAt' = GoAt
        /\ OwnAt' = OwnAt /\ EndAt' = EndAt
    BY SamePlaces DEF WaitOwn, CheckAcked, loads, lanes, store
  <1>3. (Rest' <=> Rest) /\ (Armed' <=> Armed)
    BY <1>2 DEF Rest, Armed
  <1>4. CASE CheckAcked
    <2>1. pc = EndAt + 1 /\ kind = "LUT"
      BY <1>4, Places DEF CheckAcked
    <2>2. phase' # "run"
      <3>1. pc = LenAt
        BY <1>0, <1>1, <2>1, PlaceOrder
      <3> QED
        BY <1>0, <1>1, <1>4, <3>1, Outcome DEF CheckAcked
    <2>3. Working
      BY <1>0, <1>1, <2>1 DEF UnitInv
    <2>4. Rest
      BY <1>0, <1>1, <2>1, <2>3, AtRest DEF Working, DrainBusy
    <2> QED
      BY <1>3, <2>2, <2>4 DEF UnitInv
  <1>5. CASE WaitOwn
    <2>1. pc = OwnAt
      BY <1>5, Places DEF WaitOwn
    <2>2. held = "OK" /\ ~cfgBad[kind] /\ ~err /\ ~ld.busy
      BY <1>0, <1>1, <2>1 DEF UnitInv
    <2>3. own = "engine"
      <3> SUFFICES ASSUME own # "engine" PROVE FALSE
        OBVIOUS
      <3>1. Working
        BY <1>0, <1>1, <2>1 DEF UnitInv, Rest
      <3>2. GiveUp
        BY <1>5 DEF WaitOwn
      <3> QED
        BY <3>1, <3>2, NeverStalls DEF GiveUp
    <2>4. \/ Advance /\ UNCHANGED held
          \/ kind = "ATTN" /\ AfterOwn("ERR")
      BY <1>0, <1>5, <2>2, <2>3 DEF WaitOwn, NoEarlyErr, AllKinds
    <2>5. phase' = "run" /\ pc' = EndAt
          /\ (held' = "OK" \/ (held' = "ERR" /\ kind = "ATTN"))
      <3>1. CASE Advance /\ UNCHANGED held
        BY <1>0, <1>1, <2>1, <2>2, <3>1, Onward
      <3>2. CASE kind = "ATTN" /\ AfterOwn("ERR")
        <4>1. pc < Len(Program)
          BY <1>0, <1>1, <2>1, Places
        <4> QED
          BY <1>0, <1>1, <2>1, <3>2, <4>1 DEF AfterOwn
      <3> QED
        BY <2>4, <3>1, <3>2
    <2>6. Working => Working'
      BY <1>0, <1>1, <1>2, <2>1, <2>3, <2>5 DEF Working
    <2>7. Working \/ (Rest /\ Armed /\ kind \in absent)
      BY <1>0, <1>1, <2>1 DEF UnitInv
    <2> QED
      BY <1>0, <1>1, <1>2, <1>3, <2>1, <2>2, <2>5, <2>6, <2>7 DEF UnitInv
  <1> QED
    BY <1>4, <1>5

\* The unit's own steps happen only while a lane is at work.
LEMMA MovingUnit ==
  ASSUME TypeInv, UnitInv, Unit
  PROVE  UnitInv'
  <1>0. kind \in AllKinds /\ pc \in Nat
    BY UnitTypes
  <1>1. /\ GoAt \in Nat /\ OwnAt \in Nat /\ EndAt \in Nat /\ BusyAt \in Nat /\ StAt \in Nat
        /\ LenAt \in Nat /\ BusyAt < StAt /\ StAt + 1 < GoAt /\ GoAt + 1 < OwnAt
        /\ EndAt = OwnAt + 1
    BY <1>0, PlaceOrder
  <1>2. /\ UNCHANGED <<phase, pc, n, kind, held, cfgBad, absent>>
        /\ LenAt' = LenAt /\ BusyAt' = BusyAt /\ StAt' = StAt /\ GoAt' = GoAt
        /\ OwnAt' = OwnAt /\ EndAt' = EndAt
    BY SamePlaces DEF Unit, FillDone, Emit, GiveBack, StartPut, Ack, hart, lanes
  <1>3. CASE FillDone
    <2>1. UNCHANGED <<own, lane, fifo, puts, drain>> /\ ld.busy /\ ~ld'.busy
      BY <1>3 DEF FillDone, lanes, store, TypeInv, TypeOK
    <2>2. (Rest' <=> Rest) /\ (Armed' <=> Armed) /\ (Working' <=> Working)
      BY <1>2, <2>1 DEF Rest, Armed, Working
    <2>3. phase = "run" => ~(pc > BusyAt)
      BY <2>1 DEF UnitInv
    <2> QED
      BY <1>0, <1>1, <1>2, <2>1, <2>2, <2>3 DEF UnitInv
  <1>4. CASE ~FillDone
    <2>1. ~Rest
      BY <1>4, UnitTypes DEF Unit, Rest, Emit, CanEmit, GiveBack, CanFinish, StartPut, CanPut, Ack
    <2>2. phase = "run" /\ pc > GoAt /\ Working
      BY <1>0, <1>1, <2>1, AtRest DEF UnitInv
    <2>3. UNCHANGED <<err, ld>>
      BY <1>4 DEF Unit, Emit, GiveBack, StartPut, Ack, loads
    <2>4. Working'
      <3>1. CASE Emit
        <4>1. /\ Len(fifo') = Len(fifo) + 1 /\ lane'.left = lane.left - 1 /\ own # "engine"
              /\ UNCHANGED <<own, drain, puts>>
          BY <3>1, UnitTypes DEF Emit, CanEmit, TypeInv, TypeOK
        <4> QED
          <5>1. drain.issued + Len(fifo') + lane'.left = Blocks
            BY <2>2, <4>1, UnitTypes DEF Working
          <5> QED
            BY <1>2, <2>2, <4>1, <5>1 DEF Working
      <3>2. CASE GiveBack
        BY <1>2, <2>2, <3>2 DEF Working, GiveBack, CanFinish, store
      <3>3. CASE StartPut
        <4>1. drain.run /\ fifo # << >>
          BY <3>3 DEF StartPut, CanPut
        <4>2. /\ drain'.dst = n /\ drain'.issued = drain.issued + 1
              /\ drain'.run <=> drain.issued + 1 < Blocks
              /\ Len(fifo') = Len(fifo) - 1
              /\ \A p \in puts' : p.dst = n
          <5>1. Len(fifo') = Len(fifo) - 1
            BY <3>3, <4>1, UnitTypes DEF StartPut
          <5>2. drain' = [drain EXCEPT !.issued = @ + 1, !.run = drain.issued + 1 < Blocks]
            BY <3>3 DEF StartPut, DrainBlocks
          <5>3. /\ drain'.dst = drain.dst /\ drain'.issued = drain.issued + 1
                /\ drain'.run <=> drain.issued + 1 < Blocks
            BY <5>2, UnitTypes
          <5>4. drain.dst = n /\ \A p \in puts : p.dst = n
            BY <2>2 DEF Working
          <5>5. \A p \in puts' : p.dst = n
            BY <3>3, <5>4 DEF StartPut
          <5> QED
            BY <5>1, <5>3, <5>4, <5>5
        <4>3. UNCHANGED <<own, lane>>
          BY <3>3 DEF StartPut, lanes
        <4>4. ~(pc > EndAt)
          BY <2>2, <4>1 DEF Working
        <4>5. drain'.issued + Len(fifo') + lane.left = Blocks
          BY <2>2, <4>2, UnitTypes DEF Working
        <4>6. drain'.run <=> drain'.issued < Blocks
          BY <4>2
        <4> QED
          BY <1>2, <2>2, <4>2, <4>3, <4>4, <4>5, <4>6, Zenon DEF Working
      <3>4. CASE Ack
        BY <1>2, <2>2, <3>4 DEF Working, Ack, lanes
      <3> QED
        BY <1>4, <3>1, <3>2, <3>3, <3>4 DEF Unit
    <2>5. pc > StAt /\ pc > BusyAt /\ ~(pc <= StAt) /\ ~(pc <= GoAt) /\ pc > StAt + 1
      BY <1>0, <1>1, <2>2
    <2>6. ~err /\ ~ld.busy /\ ~cfgBad[kind]
          /\ (held = "OK" \/ (held = "ERR" /\ kind = "ATTN" /\ pc = EndAt))
      BY <2>2, <2>5 DEF UnitInv
    <2> QED
      BY <1>2, <2>2, <2>3, <2>4, <2>5, <2>6 DEF UnitInv
  <1> QED
    BY <1>3, <1>4

\* Every step keeps the unit where the program says it is.
LEMMA UnitStep ==
  ASSUME Patient, TypeInv, UnitInv, NoEarlyErr, [Next]_vars
  PROVE  UnitInv'
  <1>1. ASSUME NEW k \in Kinds, Issue(k) PROVE UnitInv'
    BY <1>1, IssueUnit
  <1>2. CASE EngineRun \/ Software
    <2>1. Rest /\ phase' = "idle" /\ UNCHANGED <<own, lane, fifo, puts>>
      BY <1>2 DEF EngineRun, Software, UnitInv, hart, lanes, store
    <2> QED
      BY <2>1 DEF UnitInv, Rest
  <1>3. CASE Hart1 /\ ~Software
    <2>1. phase = "run"
      BY <1>3, InProgram
    <2> QED
      BY <1>3, <2>1, QuietUnit, StartUnit, FenceUnit, WaitUnit DEF Hart1
  <1>4. CASE Unit
    BY <1>4, MovingUnit
  <1>5. CASE UNCHANGED vars
    <2>1. /\ LenAt' = LenAt /\ BusyAt' = BusyAt /\ StAt' = StAt /\ GoAt' = GoAt
          /\ OwnAt' = OwnAt /\ EndAt' = EndAt
      BY <1>5, SamePlaces DEF vars, hart
    <2>2. (Rest' <=> Rest) /\ (Armed' <=> Armed) /\ (Working' <=> Working)
      BY <1>5, <2>1 DEF vars, hart, lanes, store, Rest, Armed, Working
    <2> QED
      <3>1. UNCHANGED <<phase, pc, n, kind, held, err, ld, drain, cfgBad, absent>>
        BY <1>5 DEF vars, hart, loads, lanes, store
      <3> QED
        BY <2>1, <2>2, <3>1 DEF UnitInv
  <1> QED
    BY <1>1, <1>2, <1>3, <1>4, <1>5 DEF Next, Poll, Finished
-----------------------------------------------------------------------------
(* Until the first fault.                                                    *)

\* What is known of a run's place in its program before anything goes wrong.
LEMMA CleanPlace ==
  ASSUME TypeInv, UnitInv, CleanInv, phase = "run"
  PROVE  /\ ~err /\ ~cfgBad[kind] /\ ~lerr[kind] /\ held = "OK" /\ kind \notin absent
         /\ pc <= GoAt => own = "engine" /\ puts = {}
         /\ pc > GoAt => Working
  <1>0. kind \in AllKinds /\ pc \in Nat
    BY UnitTypes
  <1>1. GoAt \in Nat /\ StAt \in Nat /\ StAt + 1 < GoAt
    BY <1>0, PlaceOrder
  <1>2. pc <= GoAt => Rest
    BY AtRest
  <1> QED
    BY <1>0, <1>1, <1>2 DEF CleanInv, UnitInv, Rest

\* Before anything has gone wrong nothing is refused and no wait gives up: every
\* step moves on.
LEMMA CleanMoves ==
  ASSUME Patient, TypeInv, UnitInv, CleanInv, phase = "run", Hart1
  PROVE  Advance /\ UNCHANGED held
  <1>0. kind \in AllKinds /\ pc \in Nat
    BY UnitTypes
  <1>1. /\ GoAt \in Nat /\ OwnAt \in Nat /\ EndAt \in Nat /\ BusyAt \in Nat /\ StAt \in Nat
        /\ LenAt \in Nat /\ BusyAt < StAt /\ StAt + 1 < GoAt /\ GoAt + 1 < OwnAt
        /\ EndAt = OwnAt + 1
    BY <1>0, PlaceOrder
  <1>2. CASE Software
    BY <1>2 DEF Software
  <1>3. CASE ClearErr \/ LoadStep \/ NameBuffer \/ ArmDrain \/ Configure
    BY <1>3 DEF ClearErr, LoadStep, NameBuffer, ArmDrain, Configure
  <1>4. CASE Check
    BY <1>4, CleanPlace DEF Check
  <1>5. CASE CheckIdle
    <2>1. pc <= GoAt
      BY <1>0, <1>1, <1>5, Places, PlaceOrder DEF CheckIdle
    <2> QED
      BY <1>5, <2>1, CleanPlace DEF CheckIdle
  <1>6. CASE Arm
    BY <1>6, CleanPlace DEF Arm
  <1>7. CASE Go
    <2>1. pc <= GoAt
      BY <1>0, <1>1, <1>7, Places DEF Go
    <2>2. own = "engine" /\ ~cfgBad[kind]
      BY <2>1, CleanPlace
    <2> QED
      BY <1>7, <2>2, Zenon DEF Go
  <1>8. CASE Fence
    <2>1. ~(Masked /\ GiveUp)
      <3> SUFFICES ASSUME Masked, Stalled PROVE FALSE
        BY DEF GiveUp
      <3>1. DrainBusy /\ ~At("wait_fill")
        BY DEF Masked, Stalled
      <3>2. CASE At("wait_busy")
        <4>1. pc = BusyAt
          BY <3>2, Places
        <4> QED
          BY <1>0, <1>1, <3>1, <4>1, CleanPlace DEF CleanInv, DrainBusy
      <3>3. CASE At("wait_end")
        <4>1. pc > GoAt
          BY <1>0, <1>1, <3>3, Places
        <4> QED
          BY <3>1, <4>1, CleanPlace, NeverStalls
      <3> QED
        BY <1>8, <3>1, <3>2, <3>3 DEF Fence
    <2> QED
      BY <1>8, <2>1 DEF Fence
  <1>9. CASE WaitOwn
    <2>1. pc > GoAt
      BY <1>0, <1>1, <1>9, Places DEF WaitOwn
    <2>2. ~(own # "engine" /\ GiveUp)
      BY <2>1, CleanPlace, NeverStalls DEF GiveUp
    <2> QED
      BY <1>9, <2>2, CleanPlace DEF WaitOwn
  <1>10. CASE CheckAcked
    <2>1. pc = EndAt + 1
      BY <1>10, Places DEF CheckAcked
    <2>2. Working
      BY <1>0, <1>1, <2>1, CleanPlace
    <2>3. puts = {} /\ ~drain.run
      BY <1>0, <1>1, <2>1, <2>2 DEF Working
    <2>4. Acked = Blocks
      BY <2>2, <2>3, UnitTypes DEF Working, Acked
    <2> QED
      BY <1>10, <2>4 DEF CheckAcked
  <1> QED
    BY <1>2, <1>3, <1>4, <1>5, <1>6, <1>7, <1>8, <1>9, <1>10 DEF Hart1

\* A dispatch that returns has waited for its drain.
LEMMA CleanReturn ==
  ASSUME Patient, TypeInv, UnitInv, CleanInv, phase = "run", Hart1, pc = LenAt
  PROVE  ~drain'.run
  <1>0. kind \in AllKinds /\ pc \in Nat
    BY UnitTypes
  <1>1. /\ GoAt \in Nat /\ OwnAt \in Nat /\ EndAt \in Nat /\ BusyAt \in Nat /\ StAt \in Nat
        /\ LenAt \in Nat /\ BusyAt < StAt /\ StAt + 1 < GoAt /\ GoAt + 1 < OwnAt
        /\ EndAt = OwnAt + 1 /\ LenAt = (IF kind = "LUT" THEN EndAt + 1 ELSE EndAt)
    BY <1>0, PlaceOrder
  <1>2. Working
    BY <1>0, <1>1, CleanPlace
  <1>3. ~ArmDrain
    BY <1>0, <1>1, Places DEF ArmDrain
  <1>4. UNCHANGED drain
    BY <1>3 DEF Hart1, Software, ClearErr, LoadStep, Check, NameBuffer, Configure,
       CheckIdle, Arm, Go, Fence, WaitOwn, CheckAcked, store
  <1>5. CASE kind = "LUT"
    BY <1>0, <1>1, <1>2, <1>4, <1>5 DEF Working
  <1>6. CASE kind # "LUT"
    <2>1. Len(Program) = LenAt /\ Program[pc] = "wait_end"
      <3>1. CASE kind = "LN"
        BY <1>0, <3>1 DEF Program, LN, LenAt
      <3>2. CASE kind = "ATTN"
        BY <1>0, <3>2 DEF Program, ATTN, LenAt
      <3> QED
        BY <1>0, <1>6, <3>1, <3>2 DEF AllKinds
    <2>2. Fence
      BY <2>1, InProgram
         DEF Hart1, Software, ClearErr, LoadStep, Check, NameBuffer, ArmDrain, Configure,
             CheckIdle, Arm, Go, WaitOwn, CheckAcked, At, RefusalCode
    <2>3. At("wait_end") /\ ~At("wait_fill") /\ ~At("wait_busy")
      BY <2>1 DEF At
    <2>4. ~Masked
      <3> SUFFICES ASSUME Masked, Stalled PROVE FALSE
        BY <2>2 DEF Fence, GiveUp
      <3> QED
        BY <1>2, <2>3, NeverStalls DEF Masked, Stalled
    <2> QED
      BY <1>4, <2>3, <2>4 DEF Masked, DrainBusy
  <1> QED
    BY <1>5, <1>6

\* A dispatcher that has met no fault causes none.
LEMMA CleanHart1 ==
  ASSUME Patient, TypeInv, UnitInv, CleanInv, phase = "run", Hart1, ~Fault
  PROVE  CleanInv'
  <1>0. kind \in AllKinds /\ pc \in Nat /\ BusyAt \in Nat /\ StAt \in Nat /\ BusyAt < StAt
    <2>1. kind \in AllKinds /\ pc \in Nat
      BY UnitTypes
    <2> QED
      BY <2>1, PlaceOrder
  <1>1. Advance /\ UNCHANGED held
    BY CleanMoves
  <1>2. /\ ~Software
        /\ UNCHANGED <<n, kind, refusal, absent>> /\ (err' => err)
    <2>1. ~Software
      BY DEF Software
    <2>2. CASE ClearErr
      BY <2>1, <2>2 DEF ClearErr, lanes
    <2>3. CASE Configure
      BY <2>1, <2>3 DEF Configure
    <2>4. CASE Go
      BY <2>1, <2>4, Zenon DEF Go
    <2> QED
      BY <2>1, <2>2, <2>3, <2>4
         DEF Hart1, LoadStep, Check, NameBuffer, ArmDrain, CheckIdle, Arm, Fence, WaitOwn,
             CheckAcked, lanes
  <1>3. \/ pc < LenAt /\ pc' = pc + 1 /\ UNCHANGED <<phase, rc>>
        \/ pc = LenAt /\ Return("OK")
    BY <1>1, Onward DEF CleanInv
  <1>4. phase' \in {"idle", "run"} /\ \A d \in Disp : rc'[d] \in {"none", "OK"}
    BY <1>3 DEF CleanInv, Return, TypeInv, TypeOK
  <1>5. \A k \in AllKinds : ~lerr'[k] /\ ~cfgBad'[k]
    <2>1. CASE Configure
      <3>1. own = "engine"
        <4>1. pc <= GoAt
          BY <1>0, <2>1, Places, PlaceOrder DEF Configure
        <4> QED
          BY <4>1, CleanPlace
      <3>2. /\ cfgBad' = [cfgBad EXCEPT ![kind] = refusal]
            /\ lerr' = [lerr EXCEPT ![kind] = kind # "LN" /\ (lerr[kind] \/ own = kind)]
        BY <2>1 DEF Configure
      <3>3. own # kind
        BY <1>0, <3>1 DEF AllKinds
      <3>4. (kind # "LN" /\ (lerr[kind] \/ own = kind)) = FALSE
        BY <1>0, <3>3 DEF CleanInv
      <3> QED
        BY <3>2, <3>4 DEF CleanInv, TypeInv, TypeOK
    <2>2. CASE ~Configure
      <3>1. UNCHANGED <<lerr, cfgBad>>
        BY <1>2, <2>2 DEF Hart1, ClearErr, LoadStep, Check, NameBuffer, ArmDrain,
           CheckIdle, Arm, Go, Fence, WaitOwn, CheckAcked, lanes
      <3> QED
        BY <3>1 DEF CleanInv
    <2> QED
      BY <2>1, <2>2
  <1>6. ~lane'.bad
    BY DEF Fault, CleanInv
  <1>7. phase' # "run" \/ pc' <= BusyAt' => ~drain'.run
    <2>1. CASE pc = LenAt
      BY <2>1, CleanReturn
    <2>2. CASE pc # LenAt
      <3>1. phase' = "run" /\ pc' = pc + 1
        BY <1>3, <2>2
      <3>2. BusyAt' = BusyAt
        BY <1>2, SamePlaces
      <3>3. CASE ArmDrain
        BY <1>0, <3>1, <3>2, <3>3, Places DEF ArmDrain
      <3>4. CASE ~ArmDrain
        <4>1. UNCHANGED drain
          BY <3>4 DEF Hart1, Software, ClearErr, LoadStep, Check, NameBuffer, Configure,
             CheckIdle, Arm, Go, Fence, WaitOwn, CheckAcked, store
        <4> QED
          BY <1>0, <3>1, <3>2, <4>1 DEF CleanInv
      <3> QED
        BY <3>3, <3>4
    <2> QED
      BY <2>1, <2>2
  <1>8. ~err' /\ ~refusal' /\ held' = "OK" /\ kind' \notin absent'
    BY <1>1, <1>2 DEF CleanInv
  <1> QED
    BY <1>4, <1>5, <1>6, <1>7, <1>8 DEF CleanInv

\* Until something goes wrong, nothing does.
LEMMA CleanStep ==
  ASSUME Patient, TypeInv, UnitInv, CleanInv, [Next]_vars, ~Fault
  PROVE  CleanInv'
  <1>1. ASSUME NEW k \in Kinds, Issue(k) PROVE CleanInv'
    <2>1. phase = "idle" /\ n' # n /\ phase' = "run" /\ pc' = 1 /\ held' = "OK"
      BY <1>1 DEF Issue, TypeInv, TypeOK
    <2>2. ~refusal' /\ kind' \notin absent'
      BY <1>1, <2>1 DEF Fault, Issue, lanes
    <2>3. UNCHANGED <<err, lane, lerr, cfgBad, rc, drain>>
      BY <1>1 DEF Issue, lanes, store
    <2> QED
      BY <2>1, <2>2, <2>3 DEF CleanInv
  <1>2. CASE EngineRun
    <2>1. ~err'
      BY <1>2 DEF Fault, CleanInv
    <2>2. UNCHANGED <<phase, pc, n, kind, refusal, held, rc, lane, lerr, cfgBad, absent, drain>>
          /\ phase = "idle"
      BY <1>2 DEF EngineRun, hart, lanes, store
    <2> QED
      BY <2>1, <2>2 DEF CleanInv
  <1>3. CASE Hart1
    <2>1. ~Software
      BY DEF Software, CleanInv
    <2> QED
      BY <1>3, <2>1, InProgram, CleanHart1
  <1>4. CASE Unit
    <2>1. /\ UNCHANGED <<phase, pc, n, kind, refusal, held, rc, cfgBad, absent>>
          /\ BusyAt' = BusyAt
      BY <1>4, SamePlaces DEF Unit, FillDone, Emit, GiveBack, StartPut, Ack, hart, lanes
    <2>2. ~err'
      BY DEF Fault, CleanInv
    <2>3. ~lane'.bad
      BY DEF Fault, CleanInv
    <2>4. \A k \in AllKinds : ~lerr'[k]
      <3>1. CASE GiveBack
        <4>1. lerr' = [lerr EXCEPT ![own] = @ \/ lane.bad] /\ own \in AllKinds
          BY <3>1, UnitTypes DEF GiveBack, CanFinish
        <4>2. (lerr[own] \/ lane.bad) = FALSE
          BY <4>1 DEF CleanInv
        <4> QED
          BY <4>1, <4>2 DEF CleanInv, TypeInv, TypeOK
      <3>2. CASE ~GiveBack
        <4>1. UNCHANGED lerr
          BY <1>4, <3>2 DEF Unit, FillDone, Emit, StartPut, Ack, lanes
        <4> QED
          BY <4>1 DEF CleanInv
      <3> QED
        BY <3>1, <3>2
    <2>5. phase # "run" \/ pc <= BusyAt => ~drain'.run
      <3>1. CASE StartPut
        <4>1. drain.run
          BY <3>1 DEF StartPut, CanPut
        <4> QED
          BY <4>1 DEF CleanInv
      <3>2. CASE ~StartPut
        <4>1. UNCHANGED drain
          BY <1>4, <3>2 DEF Unit, FillDone, Emit, GiveBack, Ack, store
        <4> QED
          BY <4>1 DEF CleanInv
      <3> QED
        BY <3>1, <3>2
    <2> QED
      BY <2>1, <2>2, <2>3, <2>4, <2>5 DEF CleanInv
  <1>5. CASE UNCHANGED vars
    <2>1. UNCHANGED <<phase, pc, n, kind, refusal, held, rc, err, lane, lerr, cfgBad, absent,
                      drain>> /\ BusyAt' = BusyAt
      BY <1>5, SamePlaces DEF vars, hart, lanes, store
    <2> QED
      BY <2>1 DEF CleanInv
  <1> QED
    BY <1>1, <1>2, <1>3, <1>4, <1>5 DEF Next, Poll, Finished

\* Nothing is known to hold of the unit once something has gone wrong.
CleanUntilFault == ~faulted => UnitInv /\ CleanInv

\* The unit starts clean and at rest.
LEMMA InitClean == Init => UnitInv /\ CleanInv
  <1> SUFFICES ASSUME Init PROVE UnitInv /\ CleanInv
    OBVIOUS
  <1>1. Rest /\ phase = "idle"
    BY DEF Init, Rest
  <1>2. UnitInv
    BY <1>1 DEF UnitInv
  <1>3. CleanInv
    BY DEF Init, CleanInv
  <1> QED
    BY <1>2, <1>3

\* A clean unit keeps both promises.
LEMMA CleanPromises == UnitInv /\ CleanInv => NotContagious /\ NoOrphanDrain
  BY DEF CleanInv, UnitInv, Rest, NotContagious, NoOrphanDrain, DrainBusy

\* The runs' invariant, until the first fault.
LEMMA CleanHolds ==
  ASSUME Patient
  PROVE  HSpec => []CleanUntilFault
  <1>1. HInit => TypeInv /\ CleanUntilFault
    BY InitTyped, InitClean DEF HInit, CleanUntilFault
  <1>2. TypeInv /\ CleanUntilFault /\ [HNext]_hvars => TypeInv' /\ CleanUntilFault'
    <2> SUFFICES ASSUME TypeInv, CleanUntilFault, [HNext]_hvars
                 PROVE  TypeInv' /\ CleanUntilFault'
      OBVIOUS
    <2>1. [Next]_vars
      BY DEF HNext, hvars
    <2>2. TypeInv'
      BY <2>1, NextTyped
    <2>3. ASSUME ~faulted' PROVE UnitInv' /\ CleanInv'
      <3>1. ~faulted /\ (~Fault \/ UNCHANGED vars)
        <4>1. CASE HNext
          BY <2>3, <4>1, Zenon DEF HNext
        <4>2. CASE UNCHANGED hvars
          BY <2>3, <4>2 DEF hvars
        <4> QED
          BY <4>1, <4>2
      <3>2. UNCHANGED vars => ~Fault
        BY DEF vars, hart, lanes, Fault
      <3>3. UnitInv /\ CleanInv /\ NoEarlyErr
        BY <3>1 DEF CleanUntilFault, CleanInv, NoEarlyErr, AllKinds
      <3> QED
        BY <2>1, <3>1, <3>2, <3>3, UnitStep, CleanStep
    <2> QED
      BY <2>2, <2>3 DEF CleanUntilFault
  <1> QED
    BY <1>1, <1>2, PTL DEF HSpec

\* Until something goes wrong every dispatch returns OK, however many are
\* issued, of whatever length and in whatever order: a fence always clears, the
\* unit is always given back, and no check finds an error (mbxr_lanes.h).
THEOREM OKUntilFaultHolds ==
  ASSUME Patient
  PROVE  HSpec => []OKUntilFault
  <1>1. CleanUntilFault => OKUntilFault
    BY CleanPromises DEF CleanUntilFault, OKUntilFault
  <1> QED
    BY <1>1, CleanHolds, PTL

\* Until something goes wrong a dispatch leaves no drain armed, no Put in
\* flight and no block in the FIFO: its last fence waited for them all.
THEOREM NoOrphanUntilFaultHolds ==
  ASSUME Patient
  PROVE  HSpec => []NoOrphanUntilFault
  <1>1. CleanUntilFault => NoOrphanUntilFault
    BY CleanPromises DEF CleanUntilFault, NoOrphanUntilFault
  <1> QED
    BY <1>1, CleanHolds, PTL
-----------------------------------------------------------------------------
(* What a dispatch that returns OK has left behind, whatever is refused,     *)
(* broken or absent.                                                         *)

\* What each step of a dispatcher leaves alone, and how it ends.
LEMMA HartFrame ==
  ASSUME TypeInv, phase = "run", Hart1
  PROVE  /\ UNCHANGED <<n, kind, refusal, absent, fifo, puts, mem>> /\ ~Software
         /\ ~LoadStep => UNCHANGED <<ld, bufs>>
         /\ ~NameBuffer => UNCHANGED tbuf
         /\ ~Configure => UNCHANGED <<conf, cfgBad, lerr>>
         /\ ~Go => UNCHANGED <<own, lane>>
         /\ ~ArmDrain => UNCHANGED drain
         /\ ~WaitOwn => UNCHANGED held
         /\ ~ClearErr => UNCHANGED err
  <1>1. ~Software
    BY DEF Software
  <1>2. CASE ClearErr
    BY <1>1, <1>2 DEF ClearErr, loads, lanes, store
  <1>3. CASE LoadStep
    BY <1>1, <1>3 DEF LoadStep, lanes, store
  <1>4. CASE Configure
    BY <1>1, <1>4 DEF Configure, loads, store
  <1>5. CASE Go
    BY <1>1, <1>5, Zenon DEF Go, loads, store
  <1>6. CASE Check \/ NameBuffer \/ ArmDrain
    BY <1>1, <1>6 DEF Check, NameBuffer, ArmDrain, loads, lanes, store
  <1>7. CASE CheckIdle \/ Arm \/ Fence \/ WaitOwn \/ CheckAcked
    BY <1>1, <1>7 DEF CheckIdle, Arm, Fence, WaitOwn, CheckAcked, loads, lanes, store
  <1> QED
    BY <1>1, <1>2, <1>3, <1>4, <1>5, <1>6, <1>7 DEF Hart1

\* A dispatcher goes on, or is done and OK, or reports why it is not.
LEMMA HartEnds ==
  ASSUME TypeInv, phase = "run", Hart1
  PROVE  \/ phase' = "run" /\ pc' = pc + 1 /\ pc < LenAt /\ UNCHANGED rc
         \/ phase' = "software" /\ rc'[n] # "OK"
         \/ phase' = "idle" /\ pc = LenAt /\ held = "OK" /\ Advance
  <1>1. rc \in [Disp -> Codes] /\ n \in Disp /\ pc \in 1 .. LenAt
    BY Places DEF TypeInv, TypeOK, BoundInv, Disp
  <1>0. LenAt \in Nat
    BY UnitTypes, PlaceOrder
  <1>2. ASSUME NEW code, Return(code), code # "OK" PROVE phase' = "software" /\ rc'[n] # "OK"
    BY <1>1, <1>2 DEF Return
  <1>3. CASE Advance
    <2>1. CASE pc < LenAt
      BY <1>0, <1>1, <1>3, <2>1, Onward
    <2>2. CASE Return(held) /\ pc = LenAt
      <3>1. CASE held # "OK"
        BY <1>2, <2>2, <3>1
      <3>2. CASE held = "OK"
        BY <1>3, <2>2, <3>2 DEF Return
      <3> QED
        BY <3>1, <3>2
    <2> QED
      BY <1>1, <1>3, <2>1, <2>2, Onward
  <1>4. CASE \E code : Return(code) /\ code # "OK"
    BY <1>2, <1>4
  <1>5. CASE ~Advance /\ WaitOwn
    <2>1. AfterOwn("ERR") \/ AfterOwn("HANG")
      BY <1>5 DEF WaitOwn
    <2>2. Len(Program) = LenAt
      BY Places
    <2> QED
      BY <1>2, <2>1, <2>2 DEF AfterOwn
  <1>6. CASE ~Advance /\ ~WaitOwn
    <2>1. CASE Check
      BY <1>6, <2>1, <1>4 DEF Check, RefusalCode
    <2>2. CASE CheckIdle \/ Arm \/ Fence \/ CheckAcked
      BY <1>6, <2>2, <1>4 DEF CheckIdle, Arm, Fence, CheckAcked
    <2>3. CASE Go
      <3>1. Return("BUSY") \/ Return("ARM")
        BY <1>6, <2>3, Zenon DEF Go
      <3> QED
        BY <1>4, <3>1
    <2> QED
      BY <1>6, <2>1, <2>2, <2>3, HartFrame
         DEF Hart1, ClearErr, LoadStep, NameBuffer, ArmDrain, Configure
  <1> QED
    BY <1>3, <1>5, <1>6

\* The places the fills are about.
LEMMA FillPlaces ==
  ASSUME TypeInv
  PROVE  /\ kind \in AllKinds /\ n \in Nat /\ pc \in Nat /\ LenAt \in Nat /\ LoadAt \in Nat
         /\ BusyAt \in Nat /\ CfgAt \in Nat /\ ConfAt \in Nat /\ GoAt \in Nat
         /\ 1 <= LoadAt /\ LoadAt + 1 < BusyAt /\ BusyAt < CfgAt /\ CfgAt + 1 < ConfAt
         /\ ConfAt < GoAt /\ GoAt < LenAt
         /\ kind = "ATTN" => LoadAt = 2 /\ BusyAt = 7
         /\ bufs \in [Spad -> Tags] /\ {"a0", "w"} \subseteq Spad /\ "a0" # "w"
  <1>1. kind \in AllKinds /\ n \in Nat /\ pc \in Nat
    BY UnitTypes
  <1>2. bufs \in [Spad -> Tags] /\ {"a0", "w"} \subseteq Spad
    BY DEF TypeInv, TypeOK, Spad
  <1> QED
    BY <1>1, <1>2, PlaceOrder

\* A load is issued only when none is under way, so it is never dropped.
LEMMA LoadFills ==
  ASSUME TypeInv, UnitInv, FillInv, phase = "run", LoadStep, phase' = "run"
  PROVE  FillInv'
  <1> USE FillPlaces
  <1>1. /\ UNCHANGED <<n, kind, err, tbuf, conf>> /\ pc' = pc + 1
    BY HartEnds DEF LoadStep, lanes, Hart1
  <1>2. LoadAt' = LoadAt /\ CfgAt' = CfgAt /\ ConfAt' = ConfAt
    BY <1>1, SamePlaces
  <1>3. CASE At("load_a") /\ Load("a0")
    <2>1. pc = LoadAt /\ ~ld.busy
      BY <1>3, Places DEF FillInv
    <2>2. ld' = [busy |-> TRUE, buf |-> "a0", tag |-> n]
      BY <1>3, <2>1 DEF Load, LoadAccepted
    <2>3. Filling("a0")'
      BY <1>1, <2>2 DEF Filling
    <2>4. kind = "ATTN" => pc' = 3
      BY <1>1, <2>1
    <2>5. ~(pc' <= LoadAt) /\ ~(pc' > CfgAt) /\ ~(pc' > CfgAt + 1) /\ ~(pc' > ConfAt)
      BY <1>1, <2>1
    <2>6. ld'.tag = n
      BY <2>2
    <2> QED
      BY <1>1, <1>2, <2>3, <2>4, <2>5, <2>6 DEF FillInv
  <1>4. CASE At("load_w") /\ Load("w")
    <2>1. kind = "ATTN" /\ pc = 5 /\ ~ld.busy /\ (Failing \/ bufs["a0"] = n)
      BY <1>4, Places DEF FillInv
    <2>2. ld' = [busy |-> TRUE, buf |-> "w", tag |-> n] /\ bufs' = [bufs EXCEPT !["w"] = 0]
      BY <1>4, <2>1 DEF Load, LoadAccepted
    <2>3. Filling("w")' /\ bufs'["a0"] = bufs["a0"] /\ ld'.tag = n
      BY <1>1, <2>2 DEF Filling
    <2>4. Failing' <=> Failing
      BY <1>1 DEF Failing
    <2>5. pc' = 6 /\ ~(pc' <= LoadAt) /\ ~(pc' > CfgAt) /\ ~(pc' > CfgAt + 1) /\ ~(pc' > ConfAt)
      BY <1>1, <2>1
    <2>6. Failing' \/ bufs'["a0"] = n'
      BY <1>1, <2>1, <2>3, <2>4
    <2>7. Failing' \/ Filling("a0")'
      BY <2>6 DEF Filling
    <2> QED
      BY <1>1, <1>2, <2>3, <2>5, <2>6, <2>7 DEF FillInv
  <1> QED
    BY <1>3, <1>4 DEF LoadStep

\* The step that is due at a place of the program.
LEMMA LoadSteps ==
  ASSUME TypeInv, phase = "run"
  PROVE  /\ pc = LoadAt => At("load_a")
         /\ kind = "ATTN" /\ pc = 5 => At("load_w")
  <1>1. kind \in AllKinds
    BY UnitTypes
  <1> QED
    BY <1>1 DEF AllKinds, At, Program, LN, ATTN, LUT, LoadAt

\* What hart 1 does where it names the buffer, checks it, and writes the lane's
\* registers.
LEMMA CfgStep ==
  ASSUME TypeInv, phase = "run", phase' = "run", Hart1
  PROVE  /\ pc = CfgAt => NameBuffer
         /\ pc = CfgAt + 1 => Check /\ ~err
         /\ pc = ConfAt => Configure
  <1>1. kind \in AllKinds
    BY UnitTypes
  <1>2. /\ pc = CfgAt => Program[pc] = "cfg"
        /\ pc = CfgAt + 1 => Program[pc] = "chk_cfg"
        /\ pc = ConfAt => Program[pc] = "conf"
    BY <1>1 DEF AllKinds, Program, LN, ATTN, LUT, CfgAt, ConfAt
  <1>3. pc = CfgAt => NameBuffer
    BY <1>2
       DEF Hart1, Software, ClearErr, LoadStep, Check, ArmDrain, Configure, CheckIdle, Arm,
           Go, Fence, WaitOwn, CheckAcked, At, RefusalCode
  <1>4. pc = ConfAt => Configure
    BY <1>2
       DEF Hart1, Software, ClearErr, LoadStep, Check, NameBuffer, ArmDrain, CheckIdle, Arm,
           Go, Fence, WaitOwn, CheckAcked, At, RefusalCode
  <1>5. pc = CfgAt + 1 => Check
    BY <1>2
       DEF Hart1, Software, ClearErr, LoadStep, NameBuffer, ArmDrain, Configure, CheckIdle,
           Arm, Go, Fence, WaitOwn, CheckAcked, At
  <1>6. Check => ~err
    BY DEF Check, Return
  <1> QED
    BY <1>3, <1>4, <1>5, <1>6

\* A dispatcher's steps keep what is known of the buffers it loads and names.
LEMMA HartFills ==
  ASSUME Patient, TypeInv, UnitInv, FillInv, phase = "run", Hart1
  PROVE  FillInv'
  <1> USE FillPlaces
  <1>1. UNCHANGED <<n, kind>>
    BY HartFrame
  <1>2. /\ LenAt' = LenAt /\ LoadAt' = LoadAt /\ CfgAt' = CfgAt /\ ConfAt' = ConfAt
        /\ BusyAt' = BusyAt
    BY <1>1, SamePlaces
  <1>3. CASE phase' = "software"
    <2>1. rc'[n'] # "OK"
      BY <1>1, <1>3, HartEnds
    <2> QED
      BY <1>3, <2>1 DEF FillInv
  <1>4. CASE phase' = "idle"
    <2>1. pc = LenAt
      BY <1>4, HartEnds
    <2>2. ~ld.busy /\ ~LoadStep
      BY <2>1, Places DEF UnitInv, LoadStep
    <2>3. ~ld'.busy
      BY <2>2, HartFrame
    <2> QED
      BY <1>4, <2>3 DEF FillInv
  <1>5. CASE phase' = "run" /\ LoadStep
    BY <1>5, LoadFills
  <1>6. CASE phase' = "run" /\ ~LoadStep
    <2>1. pc' = pc + 1 /\ UNCHANGED <<ld, bufs>>
      BY <1>6, HartEnds, HartFrame
    <2>2. pc # LoadAt /\ ~(kind = "ATTN" /\ pc = 5)
      <3>1. ~At("load_a") /\ ~At("load_w")
        BY <1>6, InProgram
           DEF Hart1, Software, ClearErr, Check, NameBuffer, ArmDrain, Configure, CheckIdle,
               Arm, Go, Fence, WaitOwn, CheckAcked, At, LoadStep, RefusalCode
      <3> QED
        BY <3>1, LoadSteps
    <2>3. pc > LoadAt /\ Failing => Failing'
      <3>1. ASSUME ClearErr, pc > LoadAt PROVE kind = "LUT"
        <4>1. kind # "LN" /\ (kind = "ATTN" => pc = 1)
          BY <3>1, Places DEF ClearErr
        <4> QED
          BY <3>1, <4>1 DEF AllKinds
      <3>2. ~ClearErr => err' = err
        BY HartFrame
      <3> QED
        BY <1>1, <3>1, <3>2 DEF Failing
    <2>4. \A b \in {"a0", "w"} : Filling(b)' <=> Filling(b)
      BY <1>1, <2>1 DEF Filling
    <2>5. pc' <= LoadAt => ~ld'.busy
      BY <2>1 DEF FillInv
    <2>6. pc' > LoadAt => Failing' \/ Filling("a0")'
      BY <2>1, <2>2, <2>3, <2>4 DEF FillInv
    <2>7. kind = "ATTN" /\ pc = 4 => ~ld.busy
      <3> SUFFICES ASSUME kind = "ATTN", pc = 4 PROVE ~ld.busy
        OBVIOUS
      <3>1. At("wait_fill")
        BY DEF At, Program, ATTN
      <3>2. Fence
        BY <1>6, <3>1, InProgram
           DEF Hart1, Software, ClearErr, Check, NameBuffer, ArmDrain, Configure, CheckIdle,
               Arm, Go, WaitOwn, CheckAcked, At, LoadStep, RefusalCode
      <3> QED
        BY <1>6, <3>1, <3>2 DEF Fence, Masked, Return
    <2>8. kind = "ATTN" /\ pc' > 4 => Failing' \/ bufs'["a0"] = n
      BY <2>1, <2>3, <2>7 DEF FillInv, Filling
    <2>9. /\ kind = "ATTN" /\ pc' = 5 => ~ld'.busy
          /\ ld'.busy => ld'.tag = n
      BY <2>1, <2>7 DEF FillInv
    <2>10. kind = "ATTN" /\ pc' > 5 => Failing' \/ Filling("w")'
      BY <2>1, <2>2, <2>3, <2>4 DEF FillInv
    <2>11. pc' > CfgAt => tbuf' = "a0"
      <3>1. pc = CfgAt => NameBuffer
        BY <1>6, CfgStep
      <3>2. NameBuffer => tbuf' = "a0"
        BY DEF NameBuffer
      <3> QED
        BY <2>1, <3>1, <3>2, HartFrame DEF FillInv
    <2>12. pc' > CfgAt + 1 => bufs'["a0"] = n /\ (kind = "ATTN" => bufs'["w"] = n)
      <3>1. pc = CfgAt + 1 => ~err
        BY <1>6, CfgStep DEF Check, Return
      <3>2. pc = CfgAt + 1 => ~ld.busy /\ ~Failing
        BY <3>1 DEF UnitInv, Failing
      <3> QED
        BY <2>1, <3>2 DEF FillInv, Filling
    <2>13. pc' > ConfAt => conf'[kind] = n
      <3>1. pc = ConfAt => Configure /\ own = "engine"
        BY <1>6, CfgStep, AtRest DEF Rest
      <3>2. Configure /\ own = "engine" => conf'[kind] = n
        BY DEF Configure, TypeInv, TypeOK
      <3>3. Configure => pc = ConfAt
        BY Places DEF Configure
      <3> QED
        BY <2>1, <3>1, <3>2, <3>3, HartFrame DEF FillInv
    <2> QED
      BY <1>1, <1>2, <1>6, <2>5, <2>6, <2>8, <2>9, <2>10, <2>11, <2>12, <2>13 DEF FillInv
  <1> QED
    BY <1>3, <1>4, <1>5, <1>6, HartEnds

\* The rest of the system: a fill that ends, or fails, and the steps between
\* dispatches.
LEMMA FillStep ==
  ASSUME Patient, "LUT" \notin BusErrs, TypeInv, UnitInv, FillInv, [Next]_vars
  PROVE  FillInv'
  <1> USE FillPlaces
  <1>1. ASSUME NEW k \in Kinds, Issue(k) PROVE FillInv'
    <2>1. phase = "idle" /\ phase' = "run" /\ pc' = 1 /\ UNCHANGED ld
      BY <1>1 DEF Issue, loads
    <2>2. ~ld.busy
      BY <1>1, <2>1 DEF Issue, FillInv, Stalled
    <2>3. 1 <= LoadAt' /\ ~(1 > LoadAt') /\ ~(1 > CfgAt') /\ ~(1 > CfgAt' + 1) /\ ~(1 > ConfAt')
      BY DEF LoadAt, CfgAt, ConfAt
    <2> QED
      BY <2>1, <2>2, <2>3 DEF FillInv
  <1>2. CASE EngineRun
    BY <1>2 DEF EngineRun, hart, FillInv
  <1>3. CASE Software
    BY <1>3 DEF Software, loads, FillInv, TypeInv, BoundInv
  <1>4. CASE Hart1 /\ ~Software
    BY <1>4, InProgram, HartFills
  <1>5. CASE FillDone
    <2>1. /\ UNCHANGED <<phase, pc, n, kind, rc, tbuf, conf>> /\ ld.busy
          /\ ld' = [ld EXCEPT !.busy = FALSE]
      BY <1>5 DEF FillDone, hart, lanes
    <2>2. ~ld'.busy
      BY <2>1 DEF TypeInv, TypeOK
    <2>3. /\ LoadAt' = LoadAt /\ CfgAt' = CfgAt /\ ConfAt' = ConfAt
      BY <2>1, SamePlaces
    <2>4. CASE phase = "run"
      <3>1. ld.tag = n /\ ~(pc > BusyAt) /\ pc > LoadAt
        BY <2>1, <2>4 DEF FillInv, UnitInv
      <3>2. CASE UNCHANGED err /\ bufs' = [bufs EXCEPT ![ld.buf] = ld.tag]
        <4>1. \A b \in {"a0", "w"} : Filling(b) => bufs'[b] = n
          BY <3>1, <3>2 DEF Filling
        <4>2. \A b \in {"a0", "w"} : bufs[b] = n => bufs'[b] = n
          BY <4>1 DEF Filling
        <4>3. Failing' <=> Failing
          BY <2>1, <3>2 DEF Failing
        <4>4. \A b \in {"a0", "w"} : bufs'[b] = n => Filling(b)'
          BY <2>1 DEF Filling
        <4>5. ~(pc > CfgAt) /\ ~(pc > CfgAt + 1) /\ ~(pc > ConfAt)
          BY <3>1
        <4> QED
          BY <2>1, <2>2, <2>3, <2>4, <3>1, <4>1, <4>2, <4>3, <4>4, <4>5 DEF FillInv
      <3>3. CASE kind \in BusErrs /\ err' = TRUE
        <4>1. Failing'
          BY <2>1, <3>3 DEF Failing
        <4>2. ~(pc > CfgAt) /\ ~(pc > CfgAt + 1) /\ ~(pc > ConfAt)
          BY <3>1
        <4> QED
          BY <2>1, <2>2, <2>3, <2>4, <4>1, <4>2 DEF FillInv
      <3> QED
        BY <1>5, <3>2, <3>3 DEF FillDone
    <2>5. CASE phase # "run"
      BY <2>1, <2>2, <2>5 DEF FillInv
    <2> QED
      BY <2>4, <2>5
  <1>6. CASE UNCHANGED vars \/ (Unit /\ ~FillDone)
    <2>1. UNCHANGED <<phase, pc, n, kind, rc, err, tbuf, ld, bufs, conf>>
      BY <1>6 DEF vars, Unit, Emit, GiveBack, StartPut, Ack, hart, loads, lanes
    <2>2. LoadAt' = LoadAt /\ CfgAt' = CfgAt /\ ConfAt' = ConfAt
      BY <2>1, SamePlaces
    <2>3. Failing' <=> Failing
      BY <2>1 DEF Failing
    <2>4. \A b \in {"a0", "w"} : Filling(b)' <=> Filling(b)
      BY <2>1 DEF Filling
    <2> QED
      BY <2>1, <2>2, <2>3, <2>4 DEF FillInv
  <1> QED
    BY <1>1, <1>2, <1>3, <1>4, <1>5, <1>6 DEF Next, Unit, Poll, Finished

\* Only an attention's lane meets data errors (mbxr_lanes.h lets the other two
\* return one before their drain is done), and no fill of the LUT's fails: its
\* dispatcher clears the error it would have been refused for.
FewFaults == LaneErrs \subseteq {"ATTN"} /\ "LUT" \notin BusErrs

\* No lane but the attention's ever raises an error bit.
LEMMA ErrStep ==
  ASSUME TypeInv, UnitInv, NoEarlyErr, LandInv, [Next]_vars
  PROVE  NoEarlyErr'
  <1>1. CASE Configure
    <2>1. phase = "run" /\ pc = ConfAt
      BY <1>1, Places DEF Configure, At
    <2>2. own = "engine"
      BY <2>1, AtRest, FillPlaces DEF Rest
    <2>3. lerr' = [lerr EXCEPT ![kind] = kind # "LN" /\ (lerr[kind] \/ own = kind)]
      BY <1>1 DEF Configure
    <2>4. kind \in {"LN", "LUT"} => (kind # "LN" /\ (lerr[kind] \/ own = kind)) = FALSE
      BY <2>2 DEF NoEarlyErr
    <2>5. lerr \in [AllKinds -> BOOLEAN] /\ kind \in AllKinds
      BY UnitTypes DEF TypeInv, TypeOK
    <2> QED
      BY <2>3, <2>4, <2>5 DEF NoEarlyErr, AllKinds
  <1>2. CASE GiveBack
    <2>1. /\ lerr' = [lerr EXCEPT ![own] = @ \/ lane.bad] /\ own # "engine"
          /\ lerr \in [AllKinds -> BOOLEAN]
      BY <1>2 DEF GiveBack, CanFinish, TypeInv, TypeOK
    <2>2. phase = "run" /\ pc > GoAt /\ Working
      <3>1. ~Rest
        BY <2>1 DEF Rest
      <3>2. phase = "run" /\ ~(pc <= GoAt)
        BY <3>1, AtRest DEF UnitInv
      <3> QED
        BY <3>1, <3>2, FillPlaces DEF UnitInv
    <2>3. own \in {"LN", "LUT"} => ~lane.bad
      BY <2>1, <2>2 DEF Working, LandInv
    <2>4. own \in {"LN", "LUT"} => (lerr[own] \/ lane.bad) = FALSE
      BY <2>3 DEF NoEarlyErr
    <2> QED
      BY <2>1, <2>4 DEF NoEarlyErr, AllKinds
  <1>3. CASE ~Configure /\ ~GiveBack
    <2>1. UNCHANGED lerr
      <3>1. CASE Hart1
        <4>1. CASE Software
          BY <4>1 DEF Software, lanes
        <4>2. CASE ~Software
          BY <1>3, <3>1, <4>2, InProgram, HartFrame
        <4> QED
          BY <4>1, <4>2
      <3>2. CASE ~Hart1
        BY <1>3, <3>2 DEF Next, Issue, EngineRun, Unit, Poll, Finished, FillDone, Emit,
           StartPut, Ack, vars, lanes
      <3> QED
        BY <3>1, <3>2
    <2> QED
      BY <2>1 DEF NoEarlyErr
  <1> QED
    BY <1>1, <1>2, <1>3

\* Once the lane has been started nothing of it is left to hart 1 but to wait.
LEMMA HartWaits ==
  ASSUME TypeInv, phase = "run", Hart1, pc > GoAt
  PROVE  UNCHANGED <<own, lane, fifo, drain, puts, mem, conf, bufs, tbuf, lerr>>
  <1>1. /\ ~LoadStep /\ ~NameBuffer /\ ~Configure /\ ~Go /\ ~ArmDrain
    <2>1. /\ pc \in Nat /\ LoadAt \in Nat /\ CfgAt \in Nat /\ StAt \in Nat /\ ConfAt \in Nat
          /\ GoAt \in Nat /\ LoadAt < GoAt /\ CfgAt < GoAt /\ StAt < GoAt /\ ConfAt < GoAt
          /\ kind = "ATTN" => 5 < GoAt
      <3>1. kind \in AllKinds /\ pc \in Nat
        BY UnitTypes
      <3> QED
        BY <3>1, PlaceOrder
    <2> QED
      <3>1. ~At("load_a") /\ ~At("load_w") /\ ~At("cfg") /\ ~At("conf")
            /\ ~At("go") /\ ~At("st")
        BY <2>1, Places
      <3> QED
        BY <3>1 DEF LoadStep, NameBuffer, Configure, Go, ArmDrain
  <1> QED
    BY <1>1, HartFrame

\* What hart 1 does at lgo and at the wait for the unit.
LEMMA WaitStep ==
  ASSUME TypeInv, phase = "run", Hart1
  PROVE  /\ pc = GoAt => Go
         /\ pc = OwnAt => WaitOwn
  <1>1. kind \in AllKinds
    BY UnitTypes
  <1>2. /\ pc = GoAt => Program[pc] = "go"
        /\ pc = OwnAt => Program[pc] = "own"
    BY <1>1 DEF AllKinds, Program, LN, ATTN, LUT, GoAt, OwnAt
  <1>3. pc = GoAt => Go
    BY <1>2
       DEF Hart1, Software, ClearErr, LoadStep, Check, NameBuffer, ArmDrain, Configure,
           CheckIdle, Arm, Fence, WaitOwn, CheckAcked, At, RefusalCode
  <1>4. pc = OwnAt => WaitOwn
    BY <1>2
       DEF Hart1, Software, ClearErr, LoadStep, Check, NameBuffer, ArmDrain, Configure,
           CheckIdle, Arm, Go, Fence, CheckAcked, At, RefusalCode
  <1> QED
    BY <1>3, <1>4

\* lgo finds the lane and its FIFO empty and the drain armed for this dispatch.
LEMMA GoRests ==
  ASSUME TypeInv, UnitInv, phase = "run", pc = GoAt
  PROVE  Rest /\ Armed
  <1>1. kind \in AllKinds /\ pc \in Nat
    BY UnitTypes
  <1>2. StAt \in Nat /\ GoAt \in Nat /\ StAt + 1 < GoAt
    BY <1>1, PlaceOrder
  <1> QED
    BY <1>1, <1>2 DEF UnitInv

\* A dispatcher that waits for the unit of a lane that has met an error of the
\* data carries that on to its last fence.
LEMMA HartLands ==
  ASSUME Patient, FewFaults, TypeInv, UnitInv, NoEarlyErr, FillInv, LandInv, phase = "run",
         Hart1
  PROVE  LandInv'
  <1> USE FillPlaces
  <1>1. UNCHANGED <<n, kind, absent>>
    BY HartFrame
  <1>2. /\ LenAt' = LenAt /\ GoAt' = GoAt /\ OwnAt' = OwnAt
    BY <1>1, SamePlaces
  <1>3. CASE phase' # "run" \/ kind \in absent
    BY <1>1, <1>3 DEF LandInv
  <1>4. CASE phase' = "run" /\ kind \notin absent /\ pc > GoAt
    <2>1. /\ UNCHANGED <<own, lane, fifo, drain, puts, mem, conf, bufs, tbuf, lerr>>
          /\ pc' = pc + 1
      BY <1>4, HartWaits, HartEnds
    <2>2. OwnAt \in Nat /\ GoAt + 1 < OwnAt
      BY PlaceOrder
    <2>3. lane.bad /\ pc > OwnAt => held' = "ERR"
      <3>1. WaitOwn => pc = OwnAt
        BY Places DEF WaitOwn
      <3> QED
        BY <1>4, <2>2, <3>1, HartFrame DEF LandInv
    <2>4. lane.bad /\ pc = OwnAt => held' = "ERR"
      <3> SUFFICES ASSUME lane.bad, pc = OwnAt PROVE held' = "ERR"
        OBVIOUS
      <3>1. WaitOwn
        BY <1>4, WaitStep
      <3>2. Working /\ kind = "ATTN"
        <4>1. UnitInv /\ ~(pc <= GoAt) /\ pc > GoAt
          BY <1>4
        <4> QED
          BY <1>4, <4>1 DEF UnitInv, LandInv
      <3>3. own = "engine"
        BY <3>1, <3>2, NeverStalls DEF WaitOwn, GiveUp
      <3>4. lerr[kind]
        BY <1>4, <3>2, <3>3 DEF LandInv
      <3>5. AfterOwn("ERR")
        BY <3>1, <3>3, <3>4 DEF WaitOwn
      <3> QED
        BY <1>4, <3>5 DEF AfterOwn, Return
    <2>5. lane.bad' <=> lane.bad
      BY <2>1
    <2>6. lane.id' = n'
      BY <1>1, <1>4, <2>1 DEF LandInv
    <2>7. CASE lane.bad
      <3>1. kind = "ATTN" /\ (own = "engine" => lerr[kind])
        BY <1>4, <2>7 DEF LandInv
      <3>2. kind' = "ATTN" /\ (own' = "engine" => lerr'[kind'])
        BY <1>1, <2>1, <3>1
      <3>3. pc' > OwnAt' => held' = "ERR"
        <4>1. pc \in Nat
          BY <1>4, Places
        <4> QED
          BY <1>2, <2>1, <2>2, <2>3, <2>4, <2>7, <4>1
      <3> QED
        BY <2>5, <2>6, <2>7, <3>2, <3>3 DEF LandInv
    <2>8. CASE ~lane.bad
      <3>1. /\ \A i \in 1 .. Len(fifo) : fifo[i] = n
            /\ \A p \in puts : p.tag = n
            /\ \A i \in 0 .. drain.issued - 1 :
                 mem[n][i + 1] = n \/ \E p \in puts : p.i = i
        BY <1>4, <2>8 DEF LandInv
      <3> QED
        BY <1>1, <2>1, <2>5, <2>6, <2>8, <3>1 DEF LandInv
    <2> QED
      BY <2>7, <2>8
  <1>5. CASE phase' = "run" /\ kind \notin absent /\ ~(pc > GoAt)
    <2>1. pc' = pc + 1
      BY <1>5, HartEnds
    <2>2. CASE pc # GoAt
      BY <1>2, <1>5, <2>1, <2>2 DEF LandInv
    <2>3. CASE pc = GoAt
      <3>1. Go /\ Rest /\ Armed
        BY <1>5, <2>3, WaitStep, GoRests
      <3>2. conf[kind] = n
        BY <2>3 DEF FillInv
      <3>3. PICK bad \in (IF kind \in LaneErrs THEN BOOLEAN ELSE {FALSE}) :
              lane' = [id |-> conf[kind], left |-> Blocks, bad |-> bad] /\ own' = kind
        <4>1. ~Return("ARM") /\ ~Return("BUSY")
          BY <1>5 DEF Return
        <4> QED
          BY <1>5, <3>1, <4>1, Zenon DEF Go
      <3>4. lane'.id = n /\ lane'.bad = bad
        BY <3>2, <3>3
      <3>5. bad => kind = "ATTN"
        BY <3>3 DEF FewFaults
      <3>6. fifo' = << >> /\ puts' = {} /\ drain'.issued = 0
        <4>1. UNCHANGED <<fifo, puts, drain>>
          BY <3>1 DEF Go, store
        <4> QED
          BY <3>1, <4>1 DEF Rest, Armed
      <3>7. own' # "engine" /\ OwnAt \in Nat /\ GoAt + 1 < OwnAt
        BY <3>3, PlaceOrder DEF AllKinds
      <3>8. ~(pc' > OwnAt')
        BY <1>2, <2>1, <2>3, <3>7
      <3> QED
        BY <1>1, <3>4, <3>5, <3>6, <3>7, <3>8 DEF LandInv
    <2> QED
      BY <2>2, <2>3
  <1> QED
    BY <1>3, <1>4, <1>5

\* A block the lane puts out is the current dispatch's answer, or the lane has
\* met an error; each keeps its place until it is in memory.
LEMMA UnitLands ==
  ASSUME TypeInv, UnitInv, FillInv, LandInv, Unit
  PROVE  LandInv'
  <1> USE FillPlaces, UnitTypes
  <1>1. UNCHANGED <<phase, pc, n, kind, held, absent, conf>>
        /\ LenAt' = LenAt /\ GoAt' = GoAt /\ OwnAt' = OwnAt
    BY SamePlaces DEF Unit, FillDone, Emit, GiveBack, StartPut, Ack, hart, lanes
  <1>2. CASE ~(phase = "run" /\ pc > GoAt /\ kind \notin absent)
    BY <1>1, <1>2 DEF LandInv
  <1>3. CASE phase = "run" /\ pc > GoAt /\ kind \notin absent
    <2>1. Working /\ lane.id = n
      <3>1. UnitInv /\ phase = "run" /\ pc > GoAt
        BY <1>3
      <3> QED
        BY <1>3, <3>1 DEF UnitInv, LandInv
    <2>2. CASE FillDone
      <3>1. UNCHANGED <<own, lerr, lane, fifo, drain, puts, mem>>
        BY <2>2 DEF FillDone, lanes, store
      <3> QED
        BY <1>1, <3>1 DEF LandInv
    <2>3. CASE Emit
      <3>1. /\ fifo' = Append(fifo, Answer) /\ lane' = [lane EXCEPT !.left = @ - 1]
            /\ own # "engine" /\ UNCHANGED <<own, lerr, drain, puts, mem>>
        BY <2>3 DEF Emit, CanEmit
      <3>2. lane'.id = lane.id /\ lane'.bad = lane.bad
        BY <3>1 DEF TypeInv, TypeOK
      <3>3. lane.bad \/ Answer = n
        <4>1. own = kind /\ conf[kind] = n
          BY <1>3, <2>1, <3>1 DEF Working, FillInv
        <4>2. tbuf = "a0" /\ bufs["a0"] = n /\ (kind = "ATTN" => bufs["w"] = n)
          BY <1>3 DEF FillInv
        <4> QED
          BY <2>1, <4>1, <4>2 DEF Answer
      <3>4. ASSUME ~lane.bad PROVE \A i \in 1 .. Len(fifo') : fifo'[i] = n
        <4>1. \A i \in 1 .. Len(fifo) : fifo[i] = n
          BY <1>3, <3>4 DEF LandInv
        <4>2. fifo' = Append(fifo, n) /\ fifo \in Seq(Tags) /\ n \in Tags
          BY <3>1, <3>3, <3>4 DEF TypeInv, TypeOK, Tags
        <4>3. Len(fifo') = Len(fifo) + 1 /\ fifo'[Len(fifo) + 1] = n
              /\ \A i \in 1 .. Len(fifo) : fifo'[i] = fifo[i]
          BY <4>2
        <4>4. Len(fifo) \in Nat
          BY <4>2
        <4> HIDE UnitTypes, FillPlaces
        <4>5. \A i \in 1 .. Len(fifo') : i \in 1 .. Len(fifo) \/ i = Len(fifo) + 1
          BY <4>3, <4>4
        <4> QED
          BY <4>1, <4>3, <4>5
      <3> QED
        BY <1>1, <1>3, <2>1, <3>1, <3>2, <3>4 DEF LandInv
    <2>4. CASE GiveBack
      <3>1. /\ own' = "engine" /\ lerr' = [lerr EXCEPT ![own] = @ \/ lane.bad]
            /\ UNCHANGED <<lane, fifo, drain, puts, mem>> /\ own = kind
        BY <2>1, <2>4 DEF GiveBack, CanFinish, store, Working
      <3>2. lane.bad => lerr'[kind]
        BY <3>1 DEF TypeInv, TypeOK
      <3> QED
        BY <1>1, <1>3, <3>1, <3>2 DEF LandInv
    <2>5. CASE StartPut
      <3> DEFINE new == [dst |-> drain.dst, i |-> drain.issued, tag |-> Head(fifo)]
      <3>1. /\ fifo # << >> /\ drain.run /\ puts' = puts \cup {new} /\ fifo' = Tail(fifo)
            /\ drain' = [drain EXCEPT !.issued = @ + 1, !.run = drain.issued + 1 < DrainBlocks]
            /\ UNCHANGED <<own, lerr, lane, mem>>
        BY <2>5 DEF StartPut, CanPut, lanes
      <3>2. drain'.issued = drain.issued + 1
        BY <3>1
      <3>3. ASSUME ~lane.bad
            PROVE  /\ \A i \in 1 .. Len(fifo') : fifo'[i] = n
                   /\ \A p \in puts' : p.tag = n
                   /\ \A i \in 0 .. drain'.issued - 1 :
                        mem[n][i + 1] = n \/ \E p \in puts' : p.i = i
        <4>1. /\ \A i \in 1 .. Len(fifo) : fifo[i] = n
              /\ \A p \in puts : p.tag = n
              /\ \A i \in 0 .. drain.issued - 1 :
                   mem[n][i + 1] = n \/ \E p \in puts : p.i = i
          BY <1>3, <3>3 DEF LandInv
        <4>2. Len(fifo) >= 1 /\ Head(fifo) = fifo[1] /\ Len(fifo') = Len(fifo) - 1
              /\ \A i \in 1 .. Len(fifo') : fifo'[i] = fifo[i + 1]
          BY <3>1
        <4>3. \A i \in 1 .. Len(fifo') : fifo'[i] = n
          <5>1. Len(fifo) \in Nat
            OBVIOUS
          <5> HIDE UnitTypes, FillPlaces
          <5>2. \A i \in 1 .. Len(fifo') : i + 1 \in 1 .. Len(fifo)
            BY <4>2, <5>1
          <5> QED
            BY <4>1, <4>2, <5>2
        <4>4. new.tag = n /\ new.i = drain.issued /\ new \in puts'
          <5>1. fifo[1] = n
            <6>1. 1 \in 1 .. Len(fifo)
              BY <4>2
            <6> QED
              BY <4>1, <6>1
          <5> QED
            BY <3>1, <4>2, <5>1
        <4>5. \A p \in puts' : p.tag = n
          BY <3>1, <4>1, <4>4
        <4>6. ASSUME NEW i \in 0 .. drain'.issued - 1
              PROVE  mem[n][i + 1] = n \/ \E p \in puts' : p.i = i
          <5>1. CASE i = drain.issued
            BY <4>4, <5>1
          <5>2. CASE i # drain.issued
            <6>1. i \in 0 .. drain.issued - 1
              <7>1. drain.issued \in Nat /\ i \in 0 .. (drain.issued + 1) - 1
                BY <3>2
              <7> HIDE UnitTypes, FillPlaces
              <7> QED
                BY <5>2, <7>1
            <6> QED
              BY <3>1, <4>1, <6>1
          <5> QED
            BY <5>1, <5>2
        <4> QED
          BY <4>3, <4>5, <4>6
      <3> QED
        BY <1>1, <1>3, <3>1, <3>3 DEF LandInv
    <2>6. CASE Ack
      <3>1. PICK p \in puts : /\ puts' = puts \ {p}
                              /\ mem' = [mem EXCEPT ![p.dst][p.i + 1] = p.tag]
        BY <2>6 DEF Ack
      <3>2. UNCHANGED <<own, lerr, lane, fifo, drain>>
        BY <2>6 DEF Ack, lanes
      <3>3. p.dst = n
        BY <2>1 DEF Working
      <3>4. /\ mem \in [Disp -> [1 .. Blocks -> Tags]] /\ n \in Disp /\ p.i \in 0 .. Blocks - 1
            /\ drain.issued \in 0 .. Blocks
        BY <3>1, <3>3 DEF TypeInv, TypeOK
      <3>5. ASSUME ~lane.bad
            PROVE  /\ \A q \in puts' : q.tag = n
                   /\ \A i \in 0 .. drain.issued - 1 :
                        mem'[n][i + 1] = n \/ \E q \in puts' : q.i = i
        <4>1. /\ \A q \in puts : q.tag = n
              /\ \A i \in 0 .. drain.issued - 1 :
                   mem[n][i + 1] = n \/ \E q \in puts : q.i = i
          BY <1>3, <3>5 DEF LandInv
        <4>2. /\ mem'[n][p.i + 1] = n
              /\ \A i \in 1 .. Blocks : i # p.i + 1 => mem'[n][i] = mem[n][i]
          BY SMTT(30), <3>1, <3>3, <3>4, <4>1
        <4>3. ASSUME NEW i \in 0 .. drain.issued - 1
              PROVE  mem'[n][i + 1] = n \/ \E q \in puts' : q.i = i
          <5>1. CASE i = p.i
            BY <4>2, <5>1
          <5>2. CASE i # p.i
            <6>1. i + 1 \in 1 .. Blocks /\ i + 1 # p.i + 1
              <7>1. Blocks \in Nat /\ i \in Nat /\ p.i \in Nat /\ i < drain.issued
                    /\ drain.issued \in Nat /\ drain.issued <= Blocks
                BY <3>4
              <7> HIDE UnitTypes, FillPlaces
              <7> QED
                BY <5>2, <7>1
            <6>2. mem'[n][i + 1] = mem[n][i + 1]
              BY <4>2, <6>1
            <6>3. \A q \in puts : q.i = i => q \in puts'
              BY <3>1, <5>2
            <6> QED
              BY <4>1, <6>2, <6>3
          <5> QED
            BY <5>1, <5>2
        <4> QED
          BY <3>1, <4>1, <4>3
      <3> QED
        BY <1>1, <1>3, <3>2, <3>5 DEF LandInv
    <2> QED
      BY <2>2, <2>3, <2>4, <2>5, <2>6 DEF Unit
  <1> QED
    BY <1>2, <1>3

\* Every step keeps what the lane has made on its way to memory.
LEMMA LandStep ==
  ASSUME Patient, FewFaults, TypeInv, UnitInv, NoEarlyErr, FillInv, LandInv, [Next]_vars
  PROVE  LandInv'
  <1>1. ASSUME NEW k \in Kinds, Issue(k) PROVE LandInv'
    <2>1. pc' = 1 /\ ~(1 > GoAt')
      BY <1>1 DEF Issue, GoAt
    <2> QED
      BY <2>1 DEF LandInv
  <1>2. CASE EngineRun \/ Software
    <2>1. phase' = "idle"
      BY <1>2 DEF EngineRun, Software, hart
    <2> QED
      BY <2>1 DEF LandInv
  <1>3. CASE Hart1 /\ ~Software
    BY <1>3, InProgram, HartLands
  <1>4. CASE Unit
    BY <1>4, UnitLands
  <1>5. CASE UNCHANGED vars
    <2>1. GoAt' = GoAt /\ OwnAt' = OwnAt
      BY <1>5, SamePlaces DEF vars, hart
    <2>2. UNCHANGED <<phase, pc, n, kind, held, absent, own, lerr, lane, fifo, drain, puts, mem>>
      BY <1>5 DEF vars, hart, lanes, store
    <2> QED
      BY <2>1, <2>2 DEF LandInv
  <1> QED
    BY <1>1, <1>2, <1>3, <1>4, <1>5 DEF Next, Poll, Finished

\* The four invariants hold together.
DispatchInv == TypeInv /\ UnitInv /\ NoEarlyErr /\ FillInv /\ LandInv

LEMMA DispatchHolds ==
  ASSUME Patient, FewFaults
  PROVE  Spec => []DispatchInv
  <1>1. Init => DispatchInv
    <2> SUFFICES ASSUME Init PROVE DispatchInv
      OBVIOUS
    <2>1. TypeInv /\ UnitInv
      BY InitTyped, InitClean
    <2>2. phase = "idle" /\ ~ld.busy /\ ~lerr["LN"] /\ ~lerr["LUT"]
      BY DEF Init, AllKinds
    <2> QED
      BY <2>1, <2>2 DEF DispatchInv, NoEarlyErr, FillInv, LandInv
  <1>2. DispatchInv /\ [Next]_vars => DispatchInv'
    BY NextTyped, UnitStep, ErrStep, FillStep, LandStep DEF DispatchInv, FewFaults
  <1> QED
    BY <1>1, <1>2, PTL DEF Spec
-----------------------------------------------------------------------------
(* The dispatchers keep the promise of Offload.                              *)

\* A tensor's blocks as the promise names them.
Shown(m, b, k) == IF b = 0 \/ m[b][k] = 0 THEN <<0, 0>> ELSE <<m[b][k], k>>
Outs == [b \in 0 .. MaxN |-> [k \in 1 .. Blocks |-> Shown(mem, b, k)]]

\* The promise's names for what a step says of the dispatch and the tensors.
LEMMA Names ==
  ASSUME TypeInv
  PROVE  /\ n \in 0 .. MaxN /\ n % (MaxN + 1) = n
         /\ Promise!Bufs = 0 .. MaxN /\ Promise!Buf = n
         /\ Promise!Parts = 1 .. Blocks
  <1>1. n \in 0 .. MaxN /\ MaxN \in Nat
    BY LaneBoundsAssumption DEF TypeInv, TypeOK
  <1>2. n % (MaxN + 1) = n
    BY <1>1
  <1>3. 0 .. (MaxN + 1) - 1 = 0 .. MaxN
    BY <1>1
  <1> QED
    BY <1>1, <1>2, <1>3 DEF Promise!Bufs, Promise!Buf, Promise!Parts

\* A step that changes neither the dispatch nor its tensor nor whether hart 1 is
\* in a kernel is none of the promise's.
LEMMA Stutters ==
  ASSUME UNCHANGED <<n, mem>>, phase' = "idle" <=> phase = "idle"
  PROVE  UNCHANGED Promise!vars
  BY DEF Promise!vars

\* Only the current dispatch's tensor is written, by the fallback or by a Put.
LEMMA OneTensor ==
  ASSUME TypeInv, UNCHANGED n,
         \A d \in Disp : d # n => mem'[d] = mem[d]
  PROVE  Promise!OnlyCurrent
  <1>1. ASSUME NEW b \in 0 .. MaxN, b # n PROVE Outs'[b] = Outs[b]
    <2>1. b = 0 \/ mem'[b] = mem[b]
      BY <1>1 DEF Disp
    <2> QED
      BY <2>1 DEF Outs, Shown
  <1> QED
    BY <1>1, Names DEF Promise!OnlyCurrent, Outs, Shown

\* A dispatch that returns with its tensor written keeps the promise.
LEMMA ReturnsRight ==
  ASSUME TypeInv, n >= 1, phase # "idle", phase' = "idle", UNCHANGED n,
         \A d \in Disp : d # n => mem'[d] = mem[d],
         \A k \in 1 .. Blocks : mem'[n][k] = n
  PROVE  Promise!Next
  <1>1. Promise!OnlyCurrent
    BY OneTensor
  <1>2. n \in 0 .. MaxN /\ n # 0
    BY Names
  <1>3. \A k \in 1 .. Blocks : Outs'[n][k] = <<n, k>>
    BY <1>2 DEF Outs, Shown
  <1>4. Promise!Right(Outs'[n])
    BY <1>2, <1>3 DEF Promise!Right
  <1> QED
    BY <1>1, <1>2, <1>4, Names DEF Promise!Next, Promise!Return, Outs, Shown

\* A dispatch that returns OK has seen its lane give back the unit and its last
\* Put acknowledged.
LEMMA EndRests ==
  ASSUME TypeInv, UnitInv, phase = "run", Hart1, phase' = "idle"
  PROVE  pc = LenAt /\ held = "OK" /\ kind \notin absent /\ Working /\ ~drain.run /\ puts = {}
  <1>0. kind \in AllKinds /\ pc \in Nat
    BY UnitTypes
  <1>1. /\ GoAt \in Nat /\ OwnAt \in Nat /\ EndAt \in Nat /\ StAt \in Nat /\ BusyAt \in Nat
        /\ LenAt \in Nat /\ StAt + 1 < GoAt /\ GoAt + 1 < OwnAt /\ BusyAt < StAt
        /\ EndAt = OwnAt + 1 /\ LenAt = (IF kind = "LUT" THEN EndAt + 1 ELSE EndAt)
    BY <1>0, PlaceOrder
  <1>2. pc = LenAt /\ held = "OK"
    BY HartEnds
  <1>3. Working \/ (Rest /\ Armed /\ kind \in absent /\ pc <= EndAt)
    BY <1>0, <1>1, <1>2 DEF UnitInv
  <1>4. CASE kind = "LUT"
    <2>1. pc > EndAt
      BY <1>1, <1>2, <1>4
    <2>2. Working
      BY <1>0, <1>1, <1>3, <2>1
    <2> QED
      BY <1>2, <2>1, <2>2 DEF Working
  <1>5. CASE kind # "LUT"
    <2>1. Program[pc] = "wait_end"
      BY <1>0, <1>2, <1>5 DEF AllKinds, Program, LN, ATTN, LenAt
    <2>2. Fence
      BY <2>1
         DEF Hart1, Software, ClearErr, LoadStep, Check, NameBuffer, ArmDrain, Configure,
             CheckIdle, Arm, Go, WaitOwn, CheckAcked, At, RefusalCode
    <2>3. At("wait_end") /\ ~At("wait_fill")
      BY <2>1 DEF At
    <2>4. ~Masked
      BY <2>2 DEF Fence, Return
    <2>5. ~drain.run /\ puts = {}
      BY <2>3, <2>4 DEF Masked, DrainBusy
    <2> QED
      BY <1>2, <1>3, <2>5 DEF Armed, Working
  <1> QED
    BY <1>4, <1>5

\* So every block of its tensor is its own.
LEMMA EndRight ==
  ASSUME TypeInv, UnitInv, LandInv, phase = "run", Hart1, phase' = "idle"
  PROVE  \A k \in 1 .. Blocks : mem[n][k] = n
  <1>1. /\ pc = LenAt /\ held = "OK" /\ kind \notin absent /\ Working /\ ~drain.run
        /\ puts = {}
    BY EndRests
  <1>2. drain.issued = Blocks /\ Blocks \in Nat
    BY <1>1, UnitTypes DEF Working
  <1>3. pc > GoAt /\ pc > OwnAt
    <2>1. kind \in AllKinds
      BY UnitTypes
    <2>2. /\ GoAt \in Nat /\ OwnAt \in Nat /\ LenAt \in Nat /\ GoAt + 1 < OwnAt
          /\ LenAt > OwnAt
      BY <2>1, PlaceOrder
    <2> QED
      BY <1>1, <2>2
  <1>4. ~lane.bad
    BY <1>1, <1>3 DEF LandInv
  <1>5. \A i \in 0 .. Blocks - 1 : mem[n][i + 1] = n
    BY <1>1, <1>2, <1>3, <1>4 DEF LandInv
  <1>6. \A k \in 1 .. Blocks : k - 1 \in 0 .. Blocks - 1 /\ (k - 1) + 1 = k
    BY <1>2
  <1> QED
    BY <1>5, <1>6

\* Every step of hart 1 and the unit is a step of the promise, or none.
LEMMA NextDispatch == DispatchInv /\ [Next]_vars => [Promise!Next]_Promise!vars
  <1> SUFFICES ASSUME TypeInv, UnitInv, FillInv, LandInv, [Next]_vars
               PROVE  Promise!Next \/ UNCHANGED Promise!vars
    BY DEF DispatchInv
  <1> USE DEF hart
  <1>1. ASSUME NEW k \in Kinds, Issue(k) PROVE Promise!Next
    <2>1. /\ phase = "idle" /\ phase' = "run" /\ n < MaxN /\ n' = n + 1 /\ mem' = mem
          /\ n \in Nat
      BY <1>1, UnitTypes DEF Issue
    <2>2. n' # 0 /\ Blocks \in 1 .. Blocks
      BY <2>1, LaneBoundsAssumption
    <2>3. UNCHANGED Outs
      BY <2>1 DEF Outs, Shown
    <2> QED
      BY <2>1, <2>2, <2>3, Names DEF Promise!Next, Promise!Begin, Outs, Shown
  <1>2. CASE Software
    <2>1. phase = "software" /\ phase' = "idle" /\ UNCHANGED n
          /\ mem' = [mem EXCEPT ![n] = All(n)]
      BY <1>2 DEF Software
    <2>2. n >= 1 /\ n \in Disp /\ mem \in [Disp -> [1 .. Blocks -> Tags]]
      BY <2>1 DEF TypeInv, TypeOK, BoundInv, Disp
    <2>3. /\ \A d \in Disp : d # n => mem'[d] = mem[d]
          /\ \A k \in 1 .. Blocks : mem'[n][k] = n
      BY <2>1, <2>2 DEF All
    <2> QED
      BY <2>1, <2>2, <2>3, ReturnsRight
  <1>3. CASE Hart1 /\ ~Software
    <2>1. phase = "run" /\ UNCHANGED <<n, mem>>
      BY <1>3, InProgram, HartFrame
    <2>2. CASE phase' = "idle"
      <3>1. \A k \in 1 .. Blocks : mem[n][k] = n
        BY <1>3, <2>1, <2>2, EndRight
      <3>2. n >= 1
        BY <2>1 DEF TypeInv, BoundInv
      <3>3. \A d \in Disp : d # n => mem'[d] = mem[d]
        BY <2>1
      <3>4. \A k \in 1 .. Blocks : mem'[n][k] = n
        BY <2>1, <3>1
      <3> QED
        BY <2>1, <2>2, <3>2, <3>3, <3>4, ReturnsRight
    <2>3. CASE phase' # "idle"
      BY <2>1, <2>3, Stutters
    <2> QED
      BY <2>2, <2>3
  <1>4. CASE Ack
    <2>1. PICK p \in puts : mem' = [mem EXCEPT ![p.dst][p.i + 1] = p.tag]
      BY <1>4 DEF Ack
    <2>2. UNCHANGED <<phase, n>>
      BY <1>4 DEF Ack
    <2>3. ~Rest
      BY <1>4 DEF Ack, Rest
    <2>4. phase = "run" /\ p.dst = n
      <3>1. phase = "run" /\ ~(pc <= GoAt)
        BY <2>3, AtRest DEF UnitInv
      <3>2. pc > GoAt
        BY <3>1, FillPlaces
      <3>3. Working
        BY <2>3, <3>1, <3>2 DEF UnitInv
      <3> QED
        BY <3>1, <3>3 DEF Working
    <2>5. \A d \in Disp : d # n => mem'[d] = mem[d]
      BY <2>1, <2>4 DEF TypeInv, TypeOK
    <2>6. Promise!OnlyCurrent
      BY <2>2, <2>5, OneTensor
    <2> QED
      BY <2>2, <2>4, <2>6 DEF Promise!Next, Promise!Work
  <1>5. CASE EngineRun \/ (Unit /\ ~Ack) \/ UNCHANGED vars
    <2>1. UNCHANGED <<phase, n, mem>>
      BY <1>5 DEF EngineRun, Unit, FillDone, Emit, GiveBack, StartPut, vars
    <2> QED
      BY <2>1, Stutters
  <1> QED
    BY <1>1, <1>2, <1>3, <1>4, <1>5 DEF Next, Poll, Finished

\* Whatever a dispatch is refused for, whichever lanes are missing and whatever
\* fills fail, the network gets the right tensor: the unit writes nothing but
\* the current dispatch's, all of it by the time OK is returned, and nothing of
\* it lands later.  The poll budgets outlast the unit, only attention's lane
\* meets data errors and none of the LUT's fills fails; without these the code
\* makes no such promise.
THEOREM DispatchOffloadsHolds ==
  ASSUME Patient, FewFaults
  PROVE  Spec => DispatchOffloads
  <1>1. Init => Promise!Init
    <2> SUFFICES ASSUME Init PROVE Promise!Init
      OBVIOUS
    <2>1. phase = "idle" /\ n = 0 /\ mem = [d \in Disp |-> All(0)]
      BY DEF Init
    <2>2. \A b \in 0 .. MaxN : \A k \in 1 .. Blocks : Shown(mem, b, k) = <<0, 0>>
      BY <2>1 DEF Shown, All, Disp
    <2>3. 0 .. (MaxN + 1) - 1 = 0 .. MaxN
      BY LaneBoundsAssumption
    <2> QED
      BY <2>1, <2>2, <2>3
         DEF Promise!Init, Promise!Bufs, Promise!Parts, Promise!None, Shown
  <1> QED
    BY <1>1, NextDispatch, DispatchHolds, PTL DEF Spec, DispatchOffloads, Promise!Spec
=============================================================================
