--------------------------- MODULE Handoff_proofs ---------------------------
(***************************************************************************)
(* Theorems about Handoff, for every value of its constants.  Type         *)
(* correctness holds for every network; the protocol theorems leave out    *)
(* the one network that breaks them, a convolution with give-ups, whose    *)
(* kernel posts again after giving up on hart 1 (handoff_conv_repost).     *)
(***************************************************************************)
EXTENDS Handoff, TLAPS

\* Everything starts with its type.
LEMMA InitTyped == Init => TypeOK
  <1> SUFFICES ASSUME Init PROVE TypeOK
    OBVIOUS
  <1> USE BoundsAssumption DEF Init
  <1>1. None \in Ids /\ 1 \in Parts
    BY DEF None, Ids, Parts
  <1>2. job \in Jobs /\ wjob \in Jobs
    BY <1>1 DEF Jobs, NoJob, Sets
  <1>3. call \in Calls
    BY <1>1 DEF Calls, NoCall
  <1>4. stage \in [Sets -> Ids] /\ out \in [Bufs -> [Parts -> Ids]]
    BY <1>1
  <1>5. redo \in BOOLEAN /\ gaveUp \in BOOLEAN /\ widthOk \in BOOLEAN
    BY Zenon
  <1> QED
    BY <1>1, <1>2, <1>3, <1>4, <1>5 DEF TypeOK, Waiting, InFlight

\* Every dispatch names one of the image sets.
LEMMA SetTyped == \A kind, k : SetOf(kind, k) \in Sets
  BY DEF SetOf, Sets

\* A call has a kind and a number of parts.
LEMMA CallTyped ==
  TypeOK => /\ call.k \in 1 .. MaxParts /\ call.n \in 1 .. MaxParts
            /\ call.kind \in {"ENGINE", "LANE", "ATTN", "CONV"}
  BY DEF TypeOK, Calls, Parts

\* The part after the current one is a part.
LEMMA NextPartTyped == TypeOK /\ call.k < call.n => call.k + 1 \in Parts
  BY CallTyped, BoundsAssumption DEF Parts

\* The dispatch a call is at has an identity.
LEMMA IdTyped == TypeOK => <<calls, call.k>> \in Ids /\ call.k \in Parts
  BY BoundsAssumption DEF TypeOK, Ids, Calls, Parts

\* Writing an answer keeps the tensors well formed.
LEMMA WrittenTyped ==
  ASSUME TypeOK, NEW c \in Nat, NEW k, NEW v \in Ids
  PROVE  Written(c, k, v) \in [Bufs -> [Parts -> Ids]]
  BY DEF TypeOK, Written

\* The kernels keep every type.
LEMMA Hart0Typed == TypeOK /\ Hart0 => TypeOK'
  <1> SUFFICES ASSUME TypeOK, Hart0 PROVE TypeOK'
    OBVIOUS
  <1> USE BoundsAssumption
  <1> USE DEF shared, hart0, hart1, memory, TypeOK, Waiting, InFlight
  <1>1. CASE Stage
    BY <1>1, SetTyped, IdTyped DEF Stage
  <1>2. CASE Fill
    <2>1. PICK d \in DstOf(call.kind) :
            job' = [op |-> call.kind, id |-> <<calls, call.k>>,
                    src |-> SetOf(call.kind, call.k), dst |-> d]
      BY <1>2 DEF Fill
    <2>2. job' \in Jobs
      <3>1. call.kind \in {"ENGINE", "LANE", "ATTN", "CONV"}
        BY CallTyped
      <3>2. d \in {"tensor", "scratch"}
        BY <3>1 DEF DstOf
      <3> QED
        BY <2>1, <3>1, <3>2, SetTyped, IdTyped DEF Jobs
    <2>3. redo' \in BOOLEAN
      <3>1. (run >= B126N) \in BOOLEAN
        OBVIOUS
      <3> QED
        BY <1>2, <3>1, Zenon DEF Fill
    <2>4. run' \in Nat
      BY <1>2 DEF Fill
    <2> QED
      BY <1>2, <2>2, <2>3, <2>4 DEF Fill
  <1>3. CASE ClearDone
    BY <1>3 DEF ClearDone
  <1>4. CASE Post
    BY <1>4 DEF Post
  <1>5. CASE Give
    BY <1>5 DEF Give, SemGive, GoLimit
  <1>6. CASE Ahead
    <2>1. <<calls, call.k + 1>> \in Ids
      BY <1>6, CallTyped DEF Ahead, StagesAhead, Ids
    <2> QED
      BY <1>6, <2>1, SetTyped DEF Ahead
  <1>7. CASE Poll
    BY <1>7 DEF Poll
  <1>8. CASE Late
    <2>1. call' \in Calls
      BY <1>8 DEF Late, Failed, Calls
    <2>2. sem' \in 0 .. 1 /\ pc1' \in {pc1, "ready"}
      BY <1>8 DEF Late, SemGive, GoLimit
    <2>3. pc0' \in {"stage", "software", "poll"} /\ state' \in 0 .. 2
      BY <1>8 DEF Late, Failed
    <2>4. gaveUp' \in BOOLEAN
      BY <1>8, Zenon DEF Late
    <2> QED
      BY <1>8, <2>1, <2>2, <2>3, <2>4 DEF Late
  <1>9. CASE Collect
    <2>1. out' \in [Bufs -> [Parts -> Ids]]
      BY <1>9, WrittenTyped DEF Collect
    <2>2. call' \in Calls
      <3>1. CASE call' = call
        BY <3>1
      <3>2. CASE call' = [call EXCEPT !.retry = TRUE]
        BY <3>2 DEF Calls
      <3>3. CASE call.k < call.n /\ call' = [call EXCEPT !.k = @ + 1]
        <4>1. call.k + 1 \in Parts
          BY <3>3, NextPartTyped
        <4> QED
          BY <3>3, <4>1 DEF Calls
      <3> QED
        BY <1>9, <3>1, <3>2, <3>3 DEF Collect, Failed
    <2> QED
      BY <1>9, <2>1, <2>2 DEF Collect, Failed
  <1>10. CASE Software
    <2>1. \A k \in Parts : <<calls, k>> \in Ids
      BY DEF Ids, Parts
    <2>2. out' \in [Bufs -> [Parts -> Ids]]
      BY <1>10, <2>1 DEF Software
    <2> QED
      BY <1>10, <2>2 DEF Software
  <1> QED
    BY <1>1, <1>2, <1>3, <1>4, <1>5, <1>6, <1>7, <1>8, <1>9, <1>10 DEF Hart0

\* The worker keeps every type.
LEMMA Hart1Typed == TypeOK /\ Hart1 => TypeOK'
  <1> SUFFICES ASSUME TypeOK, Hart1 PROVE TypeOK'
    OBVIOUS
  <1> USE BoundsAssumption
  <1> USE DEF shared, hart0, hart1, memory, TypeOK, Waiting, InFlight
  <1>1. CASE Boot
    BY <1>1 DEF Boot
  <1>2. CASE Take
    BY <1>2 DEF Take
  <1>3. CASE ReadSeq
    BY <1>3 DEF ReadSeq
  <1>4. CASE Start
    BY <1>4 DEF Start
  <1>5. CASE Dispatch
    <2>1. reps' \in 0 .. 2
      BY <1>5 DEF Dispatch, Repeats
    <2>2. redo' \in BOOLEAN
      BY <1>5, Zenon DEF Dispatch
    <2> QED
      BY <1>5, <2>1, <2>2 DEF Dispatch
  <1>6. CASE Load
    BY <1>6 DEF Load, Jobs
  <1>7. CASE Run
    <2>1. Answer \in Ids
      BY DEF Answer, Jobs, Bad, Ids
    <2>2. wjob.id[1] \in Nat
      BY DEF Jobs, Ids
    <2>3. out' \in [Bufs -> [Parts -> Ids]] /\ scratch' \in Ids
      BY <1>7, <2>1, <2>2, WrittenTyped DEF Run
    <2>4. since' \in Nat
      BY <1>7 DEF Run
    <2> QED
      BY <1>7, <2>3, <2>4 DEF Run, Finish
  <1>8. CASE Retire
    BY <1>8 DEF Retire
  <1>9. CASE \E f \in Faults : Fault(f)
    <2>1. PICK f \in Faults : Fault(f)
      BY <1>9
    <2> QED
      BY <2>1, FaultsAssumption DEF Fault, Finish
  <1> QED
    BY <1>1, <1>2, <1>3, <1>4, <1>5, <1>6, <1>7, <1>8, <1>9 DEF Hart1

\* Every variable keeps its type under every step of both harts.
THEOREM TypeCorrect == Spec => []TypeOK
  <1>1. TypeOK /\ [Next]_vars => TypeOK'
    <2> SUFFICES ASSUME TypeOK, [Next]_vars PROVE TypeOK'
      OBVIOUS
    <2> USE DEF shared, hart0, hart1, memory
    <2>1. ASSUME NEW kind \in Kinds,
                 NEW n \in (IF kind \in {"ENGINE", "CONV"} THEN {1} ELSE Parts),
                 Call(kind, n)
          PROVE  TypeOK'
      <3>1. n \in Parts /\ 1 \in Parts
        BY <2>1, BoundsAssumption DEF Parts
      <3>2. call' \in Calls
        BY <2>1, <3>1, KindsAssumption DEF Call, Calls
      <3>3. calls' \in 0 .. MaxCalls
        BY <2>1, BoundsAssumption DEF Call, TypeOK
      <3> QED
        BY <2>1, <3>2, <3>3 DEF Call, TypeOK, Waiting, InFlight
    <2>2. CASE Hart0
      BY <2>2, Hart0Typed
    <2>3. CASE Tick
      BY <2>3, BoundsAssumption DEF Tick, TypeOK
    <2>4. CASE Hart1
      BY <2>4, Hart1Typed
    <2>5. CASE UNCHANGED vars
      BY <2>5 DEF vars, TypeOK
    <2> QED
      BY <2>1, <2>2, <2>3, <2>4, <2>5 DEF Next, Finished
  <1> QED
    BY <1>1, InitTyped, PTL DEF Spec
-----------------------------------------------------------------------------
(* The protocol.  TypeOK gives the arithmetic its types; SetsDiffer is why   *)
(* staging the next head cannot touch the image of the head in flight.       *)

\* Neighbouring heads use different image sets.
LEMMA SetsDiffer == \A k \in Nat : SetOf("ATTN", k) # SetOf("ATTN", k + 1)
  BY DEF SetOf

\* Before the worker starts the invariant holds.
LEMMA InitProtocol == Init => ProtocolInv
  BY DEF Init, NoCall, NoJob, ProtocolInv, StateInv, NumberInv, ImageInv, Waiting,
     InFlight, Active

\* The kernels keep the invariant: issue, kicks, give-up and collection.
LEMMA Hart0Protocol ==
  ASSUME ConvSafe, TypeOK, ProtocolInv, Hart0
  PROVE  ProtocolInv'
  <1> USE DEF shared, hart0, hart1, memory, ProtocolInv, StateInv, NumberInv, ImageInv,
              Waiting, InFlight, Active
  <1>t. seq \in Nat /\ ran \in Nat /\ done \in 0 .. 1 /\ state \in 0 .. 2
    BY DEF TypeOK
  <1>u. age \in Nat /\ kickAt \in Nat /\ age <= MaxAge
    BY BoundsAssumption DEF TypeOK
  <1>1. CASE Stage
    <2>1. StateInv'
      BY <1>1, <1>t DEF Stage
    <2>2. NumberInv'
      BY <1>1, <1>t DEF Stage
    <2>3. ImageInv'
      <3>1. stage'[SetOf(call.kind, call.k)] = <<calls, call.k>>
        BY <1>1, SetTyped DEF Stage, TypeOK
      <3> QED
        BY <1>1, <1>t, <3>1 DEF Stage, StagesAhead
    <2> QED
      BY <2>1, <2>2, <2>3
  <1>2. CASE Fill
    <2>1. StateInv'
      BY <1>2, <1>t DEF Fill
    <2>2. NumberInv'
      BY <1>2, <1>t DEF Fill
    <2>3. ImageInv'
      <3>1. PICK d \in DstOf(call.kind) :
              job' = [op |-> call.kind, id |-> <<calls, call.k>>,
                      src |-> SetOf(call.kind, call.k), dst |-> d]
        BY <1>2 DEF Fill
      <3>2. d = "tensor" => call.kind # "ATTN"
        BY DEF DstOf
      <3>3. pc1 \notin InFlight
        BY <1>2, <1>t DEF Fill
      <3> QED
        BY <1>2, <1>t, <3>1, <3>2, <3>3 DEF Fill
    <2> QED
      BY <2>1, <2>2, <2>3
  <1>3. CASE ClearDone
    <2>1. StateInv'
      BY <1>3, <1>t DEF ClearDone
    <2>2. NumberInv'
      BY <1>3, <1>t DEF ClearDone
    <2>3. ImageInv'
      BY <1>3, <1>t DEF ClearDone
    <2> QED
      BY <2>1, <2>2, <2>3
  <1>4. CASE Post
    <2>1. StateInv'
      BY <1>4, <1>t DEF Post
    <2>2. NumberInv'
      BY <1>4, <1>t DEF Post
    <2>3. ImageInv'
      BY <1>4, <1>t DEF Post
    <2> QED
      BY <2>1, <2>2, <2>3
  <1>5. CASE Give
    <2>1. StateInv'
      BY <1>5, <1>t DEF Give, SemGive, GoLimit, StagesAhead
    <2>2. NumberInv'
      BY <1>5, <1>t DEF Give, SemGive, GoLimit, StagesAhead
    <2>3. ImageInv'
      BY <1>5, <1>t DEF Give, SemGive, GoLimit, StagesAhead
    <2> QED
      BY <2>1, <2>2, <2>3
  <1>6. CASE Ahead
    <2>1. StateInv'
      BY <1>6, <1>t DEF Ahead, StagesAhead
    <2>2. NumberInv'
      BY <1>6, <1>t DEF Ahead, StagesAhead
    <2>3. ImageInv'
      <3>1. SetOf("ATTN", call.k + 1) # SetOf(call.kind, call.k)
        BY <1>6, CallTyped, SetsDiffer DEF Ahead, StagesAhead
      <3>2. /\ stage'[SetOf("ATTN", call.k + 1)] = <<calls, call.k + 1>>
            /\ stage'[SetOf(call.kind, call.k)] = stage[SetOf(call.kind, call.k)]
        BY <1>6, <3>1, SetTyped DEF Ahead, TypeOK
      <3> QED
        BY <1>6, <1>t, <3>2 DEF Ahead, StagesAhead
    <2> QED
      BY <2>1, <2>2, <2>3
  <1>7. CASE Poll
    <2>1. StateInv'
      BY <1>7, <1>t, <1>u DEF Poll, StagesAhead
    <2>2. NumberInv'
      BY <1>7, <1>t DEF Poll, StagesAhead
    <2>3. ImageInv'
      BY <1>7, <1>t DEF Poll, StagesAhead
    <2> QED
      BY <2>1, <2>2, <2>3
  <1>8. CASE Late
    <2>0. pc1' = pc1 \/ (pc1 = "pend" /\ pc1' = "ready")
      BY <1>8 DEF Late, SemGive, GoLimit
    <2>1. CASE GivesUp
      <3>0. ~AnswersInTime
        BY <1>8, <1>u, <2>1, BoundsAssumption DEF Late, GivesUp, AnswersInTime
      <3>1. state' = 2 /\ gaveUp' = TRUE /\ pc0' = "software" /\ UNCHANGED call
        BY <1>8, <2>1, <3>0 DEF Late, Failed, ConvSafe
      <3>2. StateInv'
        BY <1>8, <1>t, <2>0, <3>0, <3>1 DEF Late
      <3>3. NumberInv'
        BY <1>8, <1>t, <2>0, <3>1 DEF Late
      <3>4. ImageInv'
        BY <1>8, <1>t, <2>0, <3>1 DEF Late, StagesAhead
      <3> QED
        BY <3>2, <3>3, <3>4
    <2>2. CASE ~GivesUp
      <3>1. pc0' = "poll" /\ UNCHANGED <<state, gaveUp, call>>
        BY <1>8, <2>2 DEF Late
      <3>2. StateInv'
        BY <1>8, <1>t, <2>0, <3>1 DEF Late
      <3>3. NumberInv'
        BY <1>8, <1>t, <2>0, <3>1 DEF Late
      <3>4. ImageInv'
        BY <1>8, <1>t, <2>0, <3>1 DEF Late, StagesAhead
      <3> QED
        BY <3>2, <3>3, <3>4
    <2> QED
      BY <2>1, <2>2
  <1>9. CASE Collect
    <2>1. CASE Failed /\ UNCHANGED out
      <3>1. call'.kind = call.kind /\ call'.k = call.k /\ call'.n = call.n
        BY <2>1 DEF Failed, TypeOK, Calls
      <3>2. \/ pc0' = "software"
            \/ pc0' = "stage" /\ call'.kind = "CONV" /\ call'.retry
        BY <2>1, <3>1 DEF Failed, TypeOK, Calls
      <3>3. StateInv'
        BY <1>9, <1>t, <3>1, <3>2 DEF Collect
      <3>4. NumberInv'
        BY <1>9, <1>t, <3>2 DEF Collect
      <3>5. ImageInv'
        BY <1>9, <1>t, <3>1, <3>2 DEF Collect, StagesAhead
      <3> QED
        BY <3>3, <3>4, <3>5
    <2>2. CASE rc = "OK" /\ call.k < call.n /\ call' = [call EXCEPT !.k = @ + 1]
               /\ pc0' = (IF call.kind = "ATTN" THEN "fill" ELSE "stage")
      <3>1. state' = state
        BY <1>9, <2>2 DEF Collect
      <3>2. /\ call'.kind = call.kind /\ call'.k = call.k + 1 /\ call'.n = call.n
            /\ call'.retry = call.retry
        BY <2>2 DEF TypeOK, Calls
      <3>3. StateInv'
        BY <1>9, <2>2, <3>1, <3>2 DEF Collect
      <3>4. NumberInv'
        BY <1>9, <2>2, <3>1 DEF Collect
      <3>5. ImageInv'
        BY <1>9, <2>2, <3>1, <3>2 DEF Collect, StagesAhead
      <3> QED
        BY <3>3, <3>4, <3>5
    <2>3. CASE rc = "OK" /\ pc0' = "idle" /\ UNCHANGED call
      <3>1. StateInv'
        BY <1>9, <1>t, <2>3 DEF Collect
      <3>2. NumberInv'
        BY <1>9, <1>t, <2>3 DEF Collect
      <3>3. ImageInv'
        BY <1>9, <1>t, <2>3 DEF Collect, StagesAhead
      <3> QED
        BY <3>1, <3>2, <3>3
    <2> QED
      BY <1>9, <2>1, <2>2, <2>3 DEF Collect
  <1>10. CASE Software
    <2>1. StateInv'
      BY <1>10, <1>t DEF Software
    <2>2. NumberInv'
      BY <1>10, <1>t DEF Software
    <2>3. ImageInv'
      BY <1>10, <1>t DEF Software
    <2> QED
      BY <2>1, <2>2, <2>3
  <1> QED
    BY <1>1, <1>2, <1>3, <1>4, <1>5, <1>6, <1>7, <1>8, <1>9, <1>10 DEF Hart0

\* The worker keeps it: wake-up, the stale-token test, the run, the completion.
LEMMA Hart1Protocol ==
  ASSUME TypeOK, ProtocolInv, Hart1
  PROVE  ProtocolInv'
  <1> USE DEF shared, hart0, hart1, memory, ProtocolInv, StateInv, NumberInv, ImageInv,
              Waiting, InFlight, Active, StagesAhead
  <1>t. seq \in Nat /\ ran \in Nat /\ done \in 0 .. 1 /\ state \in 0 .. 2
    BY DEF TypeOK
  <1>1. CASE Boot
    BY <1>1, <1>t DEF Boot
  <1>2. CASE Take
    BY <1>2, <1>t DEF Take
  <1>3. CASE ReadSeq
    BY <1>3, <1>t DEF ReadSeq, NewJob
  <1>4. CASE Start
    BY <1>4, <1>t DEF Start
  <1>5. CASE Dispatch
    BY <1>5, <1>t DEF Dispatch, Repeats
  <1>6. CASE Load
    BY <1>6, <1>t DEF Load
  <1>7. CASE Run
    BY <1>7, <1>t DEF Run, Finish
  <1>8. CASE Retire
    BY <1>8, <1>t DEF Retire
  <1>9. CASE \E f \in Faults : Fault(f)
    <2>1. PICK f \in Faults : Fault(f)
      BY <1>9
    <2> QED
      BY <2>1, <1>t DEF Fault, Finish
  <1> QED
    BY <1>1, <1>2, <1>3, <1>4, <1>5, <1>6, <1>7, <1>8, <1>9 DEF Hart1

\* The invariant is inductive.
LEMMA NextProtocol ==
  ASSUME ConvSafe
  PROVE  TypeOK /\ ProtocolInv /\ [Next]_vars => ProtocolInv'
  <1> SUFFICES ASSUME TypeOK, ProtocolInv, [Next]_vars PROVE ProtocolInv'
    OBVIOUS
  <1>1. ASSUME NEW kind \in Kinds,
               NEW n \in (IF kind \in {"ENGINE", "CONV"} THEN {1} ELSE Parts),
               Call(kind, n)
        PROVE  ProtocolInv'
    BY <1>1 DEF Call, Available, shared, hart0, hart1, memory, ProtocolInv, StateInv,
       NumberInv, ImageInv, Waiting, InFlight, Active, TypeOK
  <1>2. CASE Hart0
    BY <1>2, Hart0Protocol
  <1>3. CASE Tick
    BY <1>3 DEF Tick, shared, hart1, memory, ProtocolInv, StateInv, NumberInv, ImageInv,
       StagesAhead, TypeOK
  <1>4. CASE Hart1
    BY <1>4, Hart1Protocol
  <1>5. CASE UNCHANGED vars
    BY <1>5 DEF vars, shared, hart0, hart1, memory, ProtocolInv, StateInv, NumberInv,
       ImageInv, StagesAhead
  <1> QED
    BY <1>1, <1>2, <1>3, <1>4, <1>5 DEF Next, Finished

\* Unless a convolution may be given up on, the hand-off keeps its inductive
\* invariant.
THEOREM ProtocolHolds ==
  ASSUME ConvSafe
  PROVE  Spec => []ProtocolInv
  BY TypeCorrect, InitProtocol, NextProtocol, PTL DEF Spec

\* Only posting changes the sequence number.
LEMMA PostOnly == [Next]_vars => seq' = seq \/ pc0 = "post"
  <1> USE DEF shared, hart0, hart1, memory
  <1>1. Hart0 => seq' = seq \/ pc0 = "post"
    BY DEF Hart0, Stage, Fill, ClearDone, Post, Give, Ahead, Poll, Late, Collect, Software
  <1>2. Hart1 => seq' = seq
    BY DEF Hart1, Boot, Take, ReadSeq, Start, Dispatch, Load, Run, Retire, Fault
  <1> QED
    BY <1>1, <1>2 DEF Next, Call, Tick, Finished, vars

\* Only starting a job changes the last number started.
LEMMA StartOnly == [Next]_vars => started' = started \/ (pc1 = "start" /\ started' = wseq)
  <1> USE DEF shared, hart0, hart1, memory
  <1>1. Hart0 => started' = started
    BY DEF Hart0, Stage, Fill, ClearDone, Post, Give, Ahead, Poll, Late, Collect, Software
  <1>2. Hart1 => started' = started \/ (pc1 = "start" /\ started' = wseq)
    BY DEF Hart1, Boot, Take, ReadSeq, Start, Dispatch, Load, Run, Retire, Fault
  <1> QED
    BY <1>1, <1>2 DEF Next, Call, Tick, Finished, vars

\* Unless a convolution may be given up on, the done flag a waiting caller
\* sees is always that of its own dispatch, however late, kicked or failed
\* the earlier ones were.
THEOREM DoneIsMineHolds ==
  ASSUME ConvSafe
  PROVE  Spec => []DoneIsMine
  <1>1. ProtocolInv => DoneIsMine
    BY DEF ProtocolInv, NumberInv, DoneIsMine
  <1> QED
    BY <1>1, ProtocolHolds, PTL

\* Unless a convolution may be given up on, hart 0 never refills the job hart
\* 1 works from.
THEOREM JobStableHolds ==
  ASSUME ConvSafe
  PROVE  Spec => []JobStable
  <1>1. ProtocolInv => JobStable
    BY DEF ProtocolInv, ImageInv, JobStable
  <1> QED
    BY <1>1, ProtocolHolds, PTL

\* Unless a convolution may be given up on, the fill of hart 1 reads the
\* image staged for its own dispatch and never one hart 0 is staging
\* meanwhile.
THEOREM FillReadsOwnImageHolds ==
  ASSUME ConvSafe
  PROVE  Spec => []FillReadsOwnImage
  <1>1. TypeOK /\ ProtocolInv => FillReadsOwnImage
    BY DEF TypeOK, ProtocolInv, NumberInv, ImageInv, InFlight, FillReadsOwnImage
  <1> QED
    BY <1>1, ProtocolHolds, TypeCorrect, PTL

\* Unless a convolution may be given up on, a dispatch is posted only while
\* hart 1 is at rest.
THEOREM OneInFlightHolds ==
  ASSUME ConvSafe
  PROVE  Spec => OneInFlight
  <1>1. TypeOK /\ ProtocolInv /\ [Next]_vars =>
          [seq' # seq => pc1 \notin InFlight /\ ran = seq]_vars
    BY PostOnly DEF ProtocolInv, StateInv, NumberInv, Waiting, Active, TypeOK
  <1> QED
    BY <1>1, ProtocolHolds, TypeCorrect, PTL DEF Spec, OneInFlight

\* Without a convolution, nothing is posted after the worker was given up.
THEOREM NoPostAfterGiveupHolds ==
  ASSUME "CONV" \notin Kinds
  PROVE  Spec => NoPostAfterGiveup
  <1>0. ConvSafe
    BY DEF ConvSafe
  <1>1. ProtocolInv /\ [Next]_vars => [seq' # seq => state = 1]_vars
    BY PostOnly DEF ProtocolInv, StateInv, Active
  <1> QED
    BY <1>0, <1>1, ProtocolHolds, PTL DEF Spec, NoPostAfterGiveup

\* Unless a convolution may be given up on, every posted job is started
\* exactly once, in order.
THEOREM EachJobStartsOnceHolds ==
  ASSUME ConvSafe
  PROVE  Spec => EachJobStartsOnce
  <1>1. TypeOK /\ ProtocolInv /\ [Next]_vars =>
          [started' # started => started' = started + 1]_vars
    BY StartOnly DEF ProtocolInv, NumberInv, InFlight, TypeOK
  <1> QED
    BY <1>1, ProtocolHolds, TypeCorrect, PTL DEF Spec, EachJobStartsOnce
-----------------------------------------------------------------------------
(* B126: hart 0's count of the engine dispatches since an attention, the     *)
(* unit's, and the second run an attention is given when there were many.    *)

\* What the counting argument needs to know of the dispatch under way.
LEMMA JobFacts ==
  ASSUME TypeOK, ProtocolInv
  PROVE  /\ since \in Nat /\ run \in Nat /\ B126N \in Nat /\ B126N > 0
         /\ job.op \in {"ENGINE", "LANE", "ATTN", "CONV"}
         /\ call.kind \in {"ENGINE", "LANE", "ATTN", "CONV"}
         /\ pc1 \in InFlight => ran # seq
         /\ ran # seq /\ ~gaveUp => pc0 \in Waiting /\ job.op = call.kind
         /\ pc1 \in {"load", "run"} => wjob = job
         /\ pc1 \in {"load", "run"} => reps \in {1, 2} /\ (wjob.op # "ATTN" => reps = 1)
         /\ pc0 \in {"fill", "clear", "post"} => ran = seq /\ ~gaveUp
         /\ Kinds \cap Engines = {} => job.op \notin Engines
         /\ "ATTN" \notin Kinds => job.op # "ATTN"
  BY BoundsAssumption DEF TypeOK, Jobs, Calls, ProtocolInv, StateInv, NumberInv, ImageInv,
     InFlight, Waiting, Active, Engines

\* Nothing has been counted before the worker starts.
LEMMA InitCount == Init => CountInv
  BY DEF Init, CountInv, Ahead0, Waiting

\* The kernels keep the counts: only an attention clears hart 0's, and only
\* after it has decided from it.
LEMMA Hart0Count ==
  ASSUME TypeOK, ProtocolInv, CountInv, Hart0
  PROVE  CountInv'
  <1> USE JobFacts DEF shared, hart1, memory, CountInv, Ahead0, Over0, Waiting, InFlight
  <1>1. CASE Stage
    BY <1>1 DEF Stage
  <1>2. CASE Fill
    <2>1. pc1 \notin InFlight /\ ~gaveUp /\ pc0' = "clear" /\ UNCHANGED <<since, pc1, gaveUp, call>>
      BY <1>2 DEF Fill, ProtocolInv, NumberInv
    <2>2. since <= run
      BY <1>2, <2>1 DEF Fill
    <2>3. CASE call.kind = "ATTN"
      <3>1. redo' = (run >= B126N)
        BY <1>2, <2>3 DEF Fill
      <3>2. redo' \/ since < B126N
        <4>1. run >= B126N \/ since < B126N
          BY <2>2
        <4> QED
          BY <3>1, <4>1, Zenon
      <3> QED
        BY <1>2, <2>1, <2>3, <3>2 DEF Fill
    <2>4. CASE call.kind # "ATTN"
      <3>1. run' = run
        BY <1>2, <2>4 DEF Fill, ClearsRun
      <3> QED
        BY <1>2, <2>1, <2>2, <2>4, <3>1 DEF Fill
    <2> QED
      BY <2>3, <2>4
  <1>3. CASE ClearDone
    BY <1>3 DEF ClearDone
  <1>4. CASE Post
    <2>1. pc1 \notin InFlight
      BY <1>4 DEF Post
    <2>2. seq' # ran
      BY <1>4 DEF Post, TypeOK
    <2> QED
      BY <1>4, <2>1, <2>2 DEF Post
  <1>5. CASE Give
    BY <1>5 DEF Give, SemGive, GoLimit
  <1>6. CASE Ahead
    BY <1>6 DEF Ahead
  <1>7. CASE Poll
    BY <1>7 DEF Poll
  <1>8. CASE Late
    <2>1. pc1' = pc1 \/ (pc1 = "pend" /\ pc1' = "ready")
      BY <1>8 DEF Late, SemGive, GoLimit
    <2>2. CASE GivesUp
      BY <1>8, <2>1, <2>2 DEF Late, Failed
    <2>3. CASE ~GivesUp
      BY <1>8, <2>1, <2>3 DEF Late
    <2> QED
      BY <2>2, <2>3
  <1>9. CASE Collect
    <2>1. /\ run' = run + (IF call.kind \in Engines THEN 1 ELSE 0)
          /\ pc0' \in {"fill", "stage", "idle", "software"}
      BY <1>9 DEF Collect, Failed, Engines
    <2>2. ran = seq
      BY <1>9 DEF Collect, ProtocolInv, NumberInv
    <2>3. since <= run'
      BY <1>9, <2>1, <2>2 DEF Collect
    <2> QED
      BY <1>9, <2>1, <2>2, <2>3 DEF Collect
  <1>10. CASE Software
    BY <1>10 DEF Software
  <1> QED
    BY <1>1, <1>2, <1>3, <1>4, <1>5, <1>6, <1>7, <1>8, <1>9, <1>10 DEF Hart0

\* The worker keeps them: what the unit counts, hart 0 counts when it collects,
\* and a second run follows the one that put the unit right.
LEMMA Hart1Count ==
  ASSUME RefusalSafe, TypeOK, ProtocolInv, CountInv, Hart1
  PROVE  CountInv'
  <1> USE JobFacts DEF shared, hart0, memory, CountInv, Ahead0, Over0, Waiting, InFlight
  <1>1. CASE Boot
    BY <1>1 DEF Boot
  <1>2. CASE Take
    BY <1>2 DEF Take
  <1>3. CASE ReadSeq
    BY <1>3 DEF ReadSeq
  <1>4. CASE Start
    BY <1>4 DEF Start
  <1>5. CASE Dispatch
    <2>1. CASE gaveUp
      BY <1>5, <2>1 DEF Dispatch, Repeats, ProtocolInv, StateInv, Active
    <2>2. CASE ~gaveUp
      <3>1. job.op = call.kind /\ pc0 \in Waiting /\ ran # seq
        BY <1>5, <2>2 DEF Dispatch
      <3>2. reps' = Repeats /\ wjob' = job /\ pc1' = "load"
        BY <1>5 DEF Dispatch
      <3>3. CASE call.kind = "ATTN"
        <4>1. since < B126N \/ redo
          BY <1>5, <3>1, <3>3 DEF Dispatch
        <4>2. since < B126N \/ reps' = 2
          BY <3>1, <3>2, <3>3, <4>1 DEF Repeats
        <4>3. reps' \in {1, 2}
          BY <3>2 DEF Repeats
        <4> QED
          BY <1>5, <3>1, <3>2, <3>3, <4>2, <4>3 DEF Dispatch
      <3>4. CASE call.kind # "ATTN"
        <4>1. reps' = 1
          BY <3>1, <3>2, <3>4 DEF Repeats
        <4> QED
          BY <1>5, <3>1, <3>2, <3>4, <4>1 DEF Dispatch
      <3> QED
        BY <3>3, <3>4
    <2> QED
      BY <2>1, <2>2
  <1>6. CASE Load
    BY <1>6 DEF Load
  <1>7. CASE Run
    <2>1. wjob = job /\ ran # seq /\ pc1 = "run" /\ widthOk /\ reps \in {1, 2}
      BY <1>7 DEF Run
    <2>2. \/ reps = 2 /\ reps' = 1 /\ pc1' = "load"
          \/ reps = 1 /\ pc1' = "retire" /\ reps' = 1
      BY <1>7, <2>1 DEF Run, Finish
    <2>3. CASE job.op = "ATTN"
      <3>1. since' = 0
        BY <1>7, <2>1, <2>3 DEF Run
      <3> QED
        BY <1>7, <2>1, <2>2, <2>3, <3>1 DEF Run
    <2>4. CASE job.op = "LANE"
      <3>1. since' = since
        BY <1>7, <2>1, <2>4 DEF Run
      <3>2. gaveUp \/ (call.kind = "LANE" /\ pc0 \in Waiting /\ since <= run)
        BY <2>1, <2>4 DEF Engines
      <3>3. /\ UNCHANGED <<pc0, gaveUp, call, run, redo, seq, ran, wjob, widthOk>>
            /\ Kinds \cap Engines = {} => since' = 0
        BY <1>7, <3>1 DEF Run
      <3>4. CASE gaveUp
        BY <2>1, <2>2, <2>4, <3>1, <3>3, <3>4 DEF ProtocolInv, StateInv, Active
      <3>5. CASE ~gaveUp
        BY <2>1, <2>2, <2>4, <3>1, <3>2, <3>3, <3>5 DEF Engines
      <3> QED
        BY <3>4, <3>5
    <2>5. CASE job.op \in Engines
      <3>1. since' = since + 1 /\ reps = 1
        BY <1>7, <2>1, <2>5 DEF Run, Engines
      <3>2. Kinds \cap Engines # {}
        BY <2>5
      <3>3. pc1' = "retire"
        BY <2>2, <3>1
      <3>4. UNCHANGED <<pc0, gaveUp, call, run, redo, seq, ran, wjob, widthOk>>
        BY <1>7 DEF Run
      <3>5. CASE gaveUp
        BY <2>1, <3>2, <3>3, <3>4, <3>5 DEF ProtocolInv, StateInv, Active
      <3>6. CASE ~gaveUp
        <4>1. /\ call.kind = job.op /\ call.kind \in Engines /\ call.kind # "ATTN"
              /\ pc0 \in Waiting
          BY <2>1, <2>5, <3>6 DEF Engines
        <4>2. since <= run
          BY <2>1, <4>1
        <4> QED
          BY <2>1, <3>1, <3>2, <3>3, <3>4, <4>1, <4>2
      <3> QED
        BY <3>5, <3>6
    <2> QED
      BY <2>3, <2>4, <2>5 DEF Engines
  <1>8. CASE Retire
    BY <1>8 DEF Retire, ProtocolInv, NumberInv
  <1>9. CASE \E f \in Faults : Fault(f)
    <2>0. PICK f \in Faults : Fault(f)
      BY <1>9
    <2>1. wjob = job /\ ran # seq /\ pc1 = "run" /\ widthOk /\ reps \in {1, 2}
      BY <2>0 DEF Fault
    <2>2. \/ reps = 2 /\ reps' = 1 /\ pc1' = "load"
          \/ reps = 1 /\ pc1' = "retire" /\ reps' = 1
      BY <2>0, <2>1 DEF Fault, Finish
    <2>3. CASE job.op = "ATTN"
      <3>1. f = "ERR" /\ "ATTN" \in Kinds
        BY <2>0, <2>1, <2>3, FaultsAssumption DEF Fault
      <3>2. since = 0 /\ since' = 0
        BY <2>0, <3>1 DEF RefusalSafe, Fault
      <3> QED
        BY <2>0, <2>1, <2>2, <2>3, <3>2 DEF Fault
    <2>4. CASE job.op = "LANE"
      <3>1. since' = since
        BY <2>0, <2>1, <2>4 DEF Fault
      <3>2. gaveUp \/ (call.kind = "LANE" /\ pc0 \in Waiting /\ since <= run)
        BY <2>1, <2>4 DEF Engines
      <3>3. /\ UNCHANGED <<pc0, gaveUp, call, run, redo, seq, ran, wjob, widthOk>>
            /\ Kinds \cap Engines = {} => since' = 0
        BY <2>0, <3>1 DEF Fault
      <3>4. CASE gaveUp
        BY <2>1, <2>2, <2>4, <3>1, <3>3, <3>4 DEF ProtocolInv, StateInv, Active
      <3>5. CASE ~gaveUp
        BY <2>1, <2>2, <2>4, <3>1, <3>2, <3>3, <3>5 DEF Engines
      <3> QED
        BY <3>4, <3>5
    <2>5. CASE job.op \in Engines
      <3>1. since' \in {since, since + 1} /\ reps = 1
        BY <2>0, <2>1, <2>5 DEF Fault, Engines
      <3>2. Kinds \cap Engines # {}
        BY <2>5
      <3>3. pc1' = "retire"
        BY <2>2, <3>1
      <3>4. UNCHANGED <<pc0, gaveUp, call, run, redo, seq, ran, wjob, widthOk>>
        BY <2>0 DEF Fault
      <3>5. CASE gaveUp
        BY <2>1, <3>2, <3>3, <3>4, <3>5 DEF ProtocolInv, StateInv, Active
      <3>6. CASE ~gaveUp
        <4>1. /\ call.kind = job.op /\ call.kind \in Engines /\ call.kind # "ATTN"
              /\ pc0 \in Waiting
          BY <2>1, <2>5, <3>6 DEF Engines
        <4>2. since <= run
          BY <2>1, <4>1
        <4> QED
          BY <2>1, <3>1, <3>2, <3>3, <3>4, <4>1, <4>2
      <3> QED
        BY <3>5, <3>6
    <2> QED
      BY <2>3, <2>4, <2>5 DEF Engines
  <1> QED
    BY <1>1, <1>2, <1>3, <1>4, <1>5, <1>6, <1>7, <1>8, <1>9 DEF Hart1

\* Every step keeps the counts.
LEMMA NextCount ==
  ASSUME RefusalSafe
  PROVE  TypeOK /\ ProtocolInv /\ CountInv /\ [Next]_vars => CountInv'
  <1> SUFFICES ASSUME TypeOK, ProtocolInv, CountInv, [Next]_vars PROVE CountInv'
    OBVIOUS
  <1>1. ASSUME NEW kind \in Kinds,
               NEW n \in (IF kind \in {"ENGINE", "CONV"} THEN {1} ELSE Parts),
               Call(kind, n)
        PROVE  CountInv'
    BY <1>1, JobFacts DEF Call, Available, shared, hart0, hart1, memory, CountInv, Ahead0,
       Over0, Waiting, ProtocolInv, StateInv
  <1>2. CASE Hart0
    BY <1>2, Hart0Count
  <1>3. CASE Tick
    BY <1>3 DEF Tick, shared, hart1, memory, CountInv, Ahead0, Over0
  <1>4. CASE Hart1
    BY <1>4, Hart1Count
  <1>5. CASE UNCHANGED vars
    BY <1>5 DEF vars, shared, hart0, hart1, memory, CountInv, Ahead0, Over0
  <1> QED
    BY <1>1, <1>2, <1>3, <1>4, <1>5 DEF Next, Finished

\* The counts agree while no refusal can hide an attention.
THEOREM CountHolds ==
  ASSUME ConvSafe, RefusalSafe
  PROVE  Spec => []CountInv
  BY TypeCorrect, ProtocolHolds, InitCount, NextCount, PTL DEF Spec

\* B126: when a dispatch is filled, hart 0's count of the engine dispatches
\* since the last attention is not below what the unit really ran, whatever
\* timed out and however the widths were configured.
THEOREM RunNotUndercountedHolds ==
  ASSUME ConvSafe, RefusalSafe
  PROVE  Spec => []RunNotUndercounted
  <1>1. ProtocolInv /\ CountInv => RunNotUndercounted
    BY DEF ProtocolInv, StateInv, Active, CountInv, Ahead0, Waiting, RunNotUndercounted
  <1> QED
    BY <1>1, ProtocolHolds, CountHolds, PTL
-----------------------------------------------------------------------------
(* What the network gets back.                                               *)

\* Before anything runs there is nothing to count.
LEMMA InitFew == Init => FewInv
  BY DEF Init, NoJob, NoCall, None, FewInv

\* What an identity and a call are made of are numbers.
LEMMA NumbersTyped ==
  ASSUME TypeOK
  PROVE  /\ calls \in Nat /\ seq \in Nat /\ call.k \in Nat /\ call.n \in Nat /\ call.k >= 1
         /\ job.id \in Ids /\ job.id[1] \in Nat /\ job.id[2] \in Nat
  <1>1. calls \in Nat /\ seq \in Nat /\ job.id \in Ids
    BY BoundsAssumption DEF TypeOK, Jobs
  <1>2. call.k \in Nat /\ call.n \in Nat /\ call.k >= 1
    BY CallTyped, BoundsAssumption
  <1>3. job.id[1] \in Nat /\ job.id[2] \in Nat
    BY <1>1 DEF Ids
  <1> QED
    BY <1>1, <1>2, <1>3

\* In a short network the unit never runs more engine dispatches than there
\* were calls.
LEMMA NextFew ==
  ASSUME FewEngines
  PROVE  TypeOK /\ ProtocolInv /\ FewInv /\ [Next]_vars => FewInv'
  <1> SUFFICES ASSUME TypeOK, ProtocolInv, FewInv, [Next]_vars PROVE FewInv'
    OBVIOUS
  <1> USE JobFacts DEF shared, hart0, hart1, memory, FewInv
  <1>0. /\ calls \in Nat /\ job.id[1] \in Nat /\ call.k \in Nat /\ call.n \in Nat
        /\ call.k >= 1 /\ seq \in Nat
    BY NumbersTyped
  <1>c. call.kind # "CONV" /\ job.op # "CONV"
    BY DEF FewEngines, ProtocolInv, StateInv
  <1>1. ASSUME NEW kind \in Kinds,
               NEW n \in (IF kind \in {"ENGINE", "CONV"} THEN {1} ELSE Parts),
               Call(kind, n)
        PROVE  FewInv'
    <2>1. /\ calls' = calls + 1 /\ call' = [kind |-> kind, n |-> n, k |-> 1, retry |-> FALSE]
          /\ pc0 = "idle" /\ pc0' \in {"stage", "software"} /\ (pc1' = pc1 \/ pc1 = "off")
          /\ UNCHANGED <<since, job, seq, ran>>
      BY <1>1 DEF Call, ProtocolInv, StateInv
    <2>2. kind = "ENGINE" => n = 1
      OBVIOUS
    <2>3. pc1 = "off" => ran = seq
      BY DEF ProtocolInv, StateInv
    <2> QED
      BY <1>0, <2>1, <2>2, <2>3
  <1>2. CASE Stage
    BY <1>2 DEF Stage
  <1>3. CASE Fill
    <2>1. job'.op = call.kind /\ job'.id = <<calls, call.k>>
      BY <1>3 DEF Fill
    <2> QED
      BY <1>0, <1>3, <2>1 DEF Fill
  <1>4. CASE ClearDone
    BY <1>4 DEF ClearDone
  <1>5. CASE Post
    BY <1>5 DEF Post
  <1>6. CASE Give
    BY <1>6 DEF Give, SemGive, GoLimit
  <1>7. CASE Ahead
    BY <1>7 DEF Ahead
  <1>8. CASE Poll
    BY <1>8 DEF Poll
  <1>9. CASE Late
    <2>1. (pc1' = pc1 \/ pc1' = "ready") /\ pc0' \in {"software", "poll"} /\ call' = call
      BY <1>9, <1>c DEF Late, SemGive, GoLimit, Failed
    <2>2. pc1' = "ready" => pc1 \in {"pend", "ready"}
      BY <1>9 DEF Late, SemGive, GoLimit
    <2> QED
      BY <1>9, <2>1, <2>2 DEF Late
  <1>10. CASE Collect
    <2>1. ran = seq
      BY <1>10 DEF Collect, ProtocolInv, NumberInv
    <2>2. CASE Failed
      BY <1>10, <1>c, <2>1, <2>2 DEF Collect, Failed
    <2>3. CASE call.k < call.n /\ call' = [call EXCEPT !.k = @ + 1]
      <3>1. call.kind # "ENGINE"
        BY <1>0, <2>3
      <3>2. call'.kind = call.kind /\ call'.n = call.n
        BY <2>3 DEF TypeOK, Calls
      <3>3. pc0' \in {"fill", "stage", "idle", "software"}
        BY <1>10 DEF Collect, Failed
      <3> QED
        BY <1>10, <2>1, <3>1, <3>2, <3>3 DEF Collect
    <2>4. CASE pc0' = "idle" /\ UNCHANGED call
      BY <1>10, <2>1, <2>4 DEF Collect
    <2> QED
      BY <1>10, <2>2, <2>3, <2>4 DEF Collect
  <1>11. CASE Software
    BY <1>11 DEF Software
  <1>12. CASE Tick
    BY <1>12 DEF Tick
  <1>13. CASE Boot
    BY <1>13 DEF Boot
  <1>14. CASE Take
    BY <1>14 DEF Take
  <1>15. CASE ReadSeq
    BY <1>15 DEF ReadSeq
  <1>16. CASE Start
    BY <1>16 DEF Start
  <1>17. CASE Dispatch
    BY <1>17 DEF Dispatch
  <1>18. CASE Load
    BY <1>18 DEF Load
  <1>19. CASE Run
    <2>1. wjob = job /\ ran # seq /\ pc1 = "run"
      BY <1>19 DEF Run, InFlight
    <2>2. job.op = "ENGINE" => since' = since + 1 /\ since < job.id[1] /\ pc1' = "retire"
      BY <1>19, <2>1 DEF Run, Finish
    <2>3. job.op # "ENGINE" => since' \in {0, since}
      BY <1>19, <1>c, <2>1 DEF Run
    <2> QED
      BY <1>0, <1>19, <2>1, <2>2, <2>3 DEF Run
  <1>20. CASE \E f \in Faults : Fault(f)
    <2>0. PICK f \in Faults : Fault(f)
      BY <1>20
    <2>1. wjob = job /\ ran # seq /\ pc1 = "run"
      BY <2>0 DEF Fault, InFlight
    <2>2. job.op = "ENGINE" =>
            since' \in {since, since + 1} /\ since < job.id[1] /\ pc1' = "retire"
      BY <2>0, <2>1 DEF Fault, Finish
    <2>3. job.op # "ENGINE" => since' = since
      BY <2>0, <1>c, <2>1 DEF Fault
    <2> QED
      BY <1>0, <2>0, <2>1, <2>2, <2>3 DEF Fault
  <1>21. CASE Retire
    BY <1>21 DEF Retire, ProtocolInv, NumberInv, InFlight
  <1>22. CASE UNCHANGED vars
    BY <1>22 DEF vars
  <1> QED
    BY <1>1, <1>2, <1>3, <1>4, <1>5, <1>6, <1>7, <1>8, <1>9, <1>10, <1>11, <1>12, <1>13,
       <1>14, <1>15, <1>16, <1>17, <1>18, <1>19, <1>20, <1>21, <1>22
       DEF Next, Hart0, Hart1, Finished

\* Either way an attention that is still waited for ends with a right run.
LEMMA AttnRightHolds ==
  ASSUME ConvSafe, RefusalSafe \/ FewEngines
  PROVE  Spec => []AttnRight
  <1>1. CASE RefusalSafe
    <2>1. TypeOK /\ ProtocolInv /\ CountInv => AttnRight
      BY JobFacts DEF CountInv, AttnRight, Ahead0, Over0, InFlight
    <2> QED
      BY <1>1, <2>1, TypeCorrect, ProtocolHolds, CountHolds, PTL
  <1>2. CASE FewEngines
    <2>1. TypeOK /\ FewInv => AttnRight
      <3> SUFFICES ASSUME TypeOK, FewInv PROVE since < B126N
        BY DEF AttnRight
      <3>1. since \in Nat /\ job.id[1] \in Nat /\ calls \in 0 .. MaxCalls
        BY DEF TypeOK, Jobs, Ids
      <3> QED
        BY <1>2, <3>1, BoundsAssumption DEF FewInv, FewEngines
    <2>2. Spec => []FewInv
      BY <1>2, InitFew, NextFew, TypeCorrect, ProtocolHolds, PTL DEF Spec
    <2> QED
      BY <2>1, <2>2, TypeCorrect, PTL
  <1> QED
    BY <1>1, <1>2

\* A tensor's slot, and what writing one part of it leaves alone.
LEMMA SlotTyped == \A c \in Nat : c % NBufs \in Bufs
  BY BoundsAssumption DEF Bufs

LEMMA WrittenParts ==
  ASSUME TypeOK, NEW c \in Nat, NEW k \in Parts, NEW v
  PROVE  /\ Written(c, k, v)[c % NBufs][k] = v
         /\ \A b \in Bufs, j \in Parts :
              b # c % NBufs \/ j # k => Written(c, k, v)[b][j] = out[b][j]
         /\ out[c % NBufs][k] = v => Written(c, k, v) = out
  BY SlotTyped DEF TypeOK, Written

\* Within the bound of a network without reuse, two calls have two tensors.
LEMMA SlotsDiffer ==
  ASSUME MaxCalls <= NBufs, NEW c \in 1 .. MaxCalls, NEW d \in 1 .. MaxCalls, c # d
  PROVE  c % NBufs # d % NBufs
  <1>1. \A e \in 1 .. NBufs : e % NBufs = (IF e = NBufs THEN 0 ELSE e)
    BY BoundsAssumption
  <1> QED
    BY <1>1, BoundsAssumption

\* No call has been made, so nothing has been promised.
LEMMA InitAnswer == Init => AnswerInv
  BY DEF Init, AnswerInv, Active, Over0, Waiting

\* What the answers need to know of the call and of the dispatch under way.
LEMMA AnswerFacts ==
  ASSUME TypeOK, ProtocolInv
  PROVE  /\ pc0 \in Active => ~gaveUp
         /\ pc1 \in InFlight => ran # seq
         /\ ran # seq /\ ~gaveUp => pc0 \in Waiting
         /\ pc0 \in {"stage", "fill", "clear", "post", "collect"} => ran = seq
         /\ pc0 \in {"clear", "post"} \cup Waiting =>
              job.id = <<calls, call.k>> /\ job.op = call.kind
  BY DEF TypeOK, ProtocolInv, StateInv, NumberInv, ImageInv, InFlight, Waiting, Active

\* Collecting the last answer or the next one: what was over is now landed.
LEMMA CollectAnswer ==
  ASSUME TypeOK, ProtocolInv, AnswerInv, Collect
  PROVE  AnswerInv'
  <1> USE NumbersTyped, AnswerFacts DEF shared, hart1, memory
  <1>1. ran = seq /\ UNCHANGED <<calls, ran, seq, gaveUp>> /\ pc0 = "collect"
    BY DEF Collect
  <1>2. pc0' \notin Waiting /\ ~Over0' /\ calls > 0
    BY <1>1 DEF Collect, Failed, Waiting, Over0, AnswerInv
  <1>3. CASE Failed /\ UNCHANGED out
    <2>1. /\ pc0' \in {"stage", "software"} /\ call'.k = call.k /\ call'.n = call.n
      BY <1>3 DEF Failed, TypeOK, Calls
    <2> QED
      BY <1>1, <1>2, <1>3, <2>1 DEF AnswerInv, Active, Waiting, Landed
  <1>4. CASE rc = "OK" /\ out' = (IF job.dst = "scratch" THEN Written(calls, call.k, scratch)
                                                        ELSE out)
    <2>1. job.dst \in {"tensor", "scratch"} /\ call.k \in Parts
      BY IdTyped DEF TypeOK, Jobs
    <2>2. job.id = <<calls, call.k>> /\ Over0 /\ pc0 \in Active
      BY <1>1 DEF Over0, Waiting, Active
    <2>3. out'[calls % NBufs][call.k] = <<calls, call.k>>
      BY <1>4, <2>1, <2>2, WrittenParts DEF AnswerInv, Landed
    <2>4. \A j \in 1 .. call.k - 1 : out'[calls % NBufs][j] = <<calls, j>>
      <3> SUFFICES ASSUME NEW j \in 1 .. call.k - 1
                   PROVE  out'[calls % NBufs][j] = <<calls, j>>
        OBVIOUS
      <3>1. j \in Parts /\ j # call.k
        BY <2>1, BoundsAssumption DEF Parts
      <3>2. out[calls % NBufs][j] = <<calls, j>>
        BY <2>2 DEF AnswerInv, Landed
      <3> QED
        BY <1>4, <2>1, <3>1, <3>2, WrittenParts, SlotTyped
    <2>5. \A j \in 1 .. call.k : Landed(<<calls, j>>)'
      BY <1>1, <2>3, <2>4 DEF Landed
    <2>6. call.k <= call.n
      BY <2>2 DEF AnswerInv
    <2>7. CASE call.k < call.n /\ call' = [call EXCEPT !.k = @ + 1]
      <3>1. call'.k = call.k + 1 /\ call'.n = call.n
        BY <2>7 DEF TypeOK, Calls
      <3>2. pc0' \in {"fill", "stage", "idle", "software"} /\ (pc0' = "idle" => call' = call)
        BY DEF Collect, Failed
      <3>3. call'.k # call.k
        BY <3>1
      <3>4. pc0' # "idle"
        BY <3>2, <3>3, Zenon
      <3> QED
        BY <1>1, <1>2, <2>5, <2>7, <3>1, <3>2, <3>4 DEF AnswerInv, Active
    <2>8. CASE ~(call.k < call.n) /\ pc0' = "idle" /\ UNCHANGED call
      BY <1>1, <1>2, <2>5, <2>6, <2>8 DEF AnswerInv, Active, Waiting
    <2>9. CASE Failed /\ UNCHANGED out
      BY <1>3, <2>9
    <2> QED
      BY <1>4, <2>7, <2>8, <2>9 DEF Collect
  <1> QED
    BY <1>3, <1>4 DEF Collect

\* The fallback writes every part of its call's tensor and of no other.
LEMMA SoftwareAnswer ==
  ASSUME NoReuse, TypeOK, ProtocolInv, AnswerInv, Software
  PROVE  AnswerInv'
  <1> USE NumbersTyped DEF shared, hart0, hart1, memory
  <1>1. /\ pc0 = "software" /\ pc0' = "idle" /\ calls > 0 /\ calls \in 1 .. MaxCalls
        /\ UNCHANGED <<calls, call, ran, seq, gaveUp, job, rc, scratch, pc1>>
    BY DEF Software, AnswerInv, TypeOK
  <1>2. \A k \in Parts : k <= call.n => out'[calls % NBufs][k] = <<calls, k>>
    BY SlotTyped DEF Software, TypeOK
  <1>3. \A b \in Bufs : b # calls % NBufs => out'[b] = out[b]
    BY DEF Software, TypeOK
  <1>4. \A k \in 1 .. call.n : Landed(<<calls, k>>)'
    <2>1. call.n \in Parts
      BY DEF TypeOK, Calls
    <2> QED
      BY <1>1, <1>2, <2>1, BoundsAssumption DEF Landed, Parts
  <1>5. ASSUME ran # seq PROVE Landed(job.id)'
    <2>1. gaveUp
      BY <1>1, <1>5 DEF ProtocolInv, NumberInv, Waiting
    <2>2. MaxCalls <= NBufs
      BY <2>1 DEF NoReuse, ProtocolInv, StateInv
    <2>3. job.id[1] \in 1 .. calls /\ job.id[2] \in Parts
      BY <1>5 DEF AnswerInv
    <2>4. CASE job.id[1] = calls
      <3>1. job.id = <<calls, job.id[2]>> /\ job.id[2] <= call.n
        BY <1>5, <2>4 DEF AnswerInv, Ids
      <3> QED
        BY <1>1, <1>2, <2>3, <3>1 DEF Landed
    <2>5. CASE job.id[1] # calls
      <3>1. Landed(job.id)
        BY <1>5, <2>5 DEF AnswerInv
      <3>2. job.id[1] \in 1 .. MaxCalls
        BY <1>1, <2>3, BoundsAssumption
      <3>3. job.id[1] % NBufs # calls % NBufs
        BY <1>1, <2>2, <2>5, <3>2, SlotsDiffer
      <3> QED
        BY <1>1, <1>3, <3>1, <3>3, SlotTyped DEF Landed
    <2> QED
      BY <2>4, <2>5
  <1>6. ~Over0' /\ pc0' \notin Active
    BY <1>1 DEF Over0, Active, Waiting
  <1> QED
    BY <1>1, <1>4, <1>5, <1>6 DEF AnswerInv

\* Every other step of the kernels leaves the answers where they are.
LEMMA Hart0Answer ==
  ASSUME NoReuse, TypeOK, ProtocolInv, AnswerInv, Hart0
  PROVE  AnswerInv'
  <1> USE NumbersTyped, AnswerFacts
      DEF shared, hart1, memory, AnswerInv, Active, Over0, Landed, Waiting
  <1>1. CASE Stage
    BY <1>1 DEF Stage
  <1>2. CASE Fill
    <2>1. ran = seq /\ pc0' = "clear"
      BY <1>2 DEF Fill
    <2> QED
      BY <1>2, <2>1 DEF Fill
  <1>3. CASE ClearDone
    BY <1>3 DEF ClearDone
  <1>4. CASE Post
    <2>1. ran = seq /\ pc1 \notin InFlight /\ call.k \in Parts /\ calls \in 1 .. calls
      BY <1>4, IdTyped DEF Post
    <2> QED
      BY <1>4, <2>1 DEF Post, InFlight
  <1>5. CASE Give
    BY <1>5 DEF Give, SemGive, GoLimit
  <1>6. CASE Ahead
    BY <1>6 DEF Ahead
  <1>7. CASE Poll
    BY <1>7 DEF Poll
  <1>8. CASE Late
    <2>1. pc1' = pc1 \/ (pc1 = "pend" /\ pc1' = "ready")
      BY <1>8 DEF Late, SemGive, GoLimit
    <2>2. CASE GivesUp
      <3>1. pc0' \in {"stage", "software"} /\ call'.k = call.k /\ call'.n = call.n
        BY <1>8, <2>2 DEF Late, Failed, TypeOK, Calls
      <3> QED
        BY <1>8, <2>1, <3>1 DEF Late
    <2>3. CASE ~GivesUp
      BY <1>8, <2>1, <2>3 DEF Late
    <2> QED
      BY <2>2, <2>3
  <1>9. CASE Collect
    BY <1>9, CollectAnswer
  <1>10. CASE Software
    BY <1>10, SoftwareAnswer
  <1> QED
    BY <1>1, <1>2, <1>3, <1>4, <1>5, <1>6, <1>7, <1>8, <1>9, <1>10 DEF Hart0

\* A run puts its answer where hart 0 will look for it; of a job given up on
\* it puts there what is already there, or part of the call in progress.
LEMMA RunAnswer ==
  ASSUME TypeOK, ProtocolInv, AttnRight, AnswerInv, Run
  PROVE  AnswerInv'
  <1> USE NumbersTyped, AnswerFacts DEF shared, hart0, memory
  <1>1. /\ pc1 = "run" /\ wjob = job /\ ran # seq /\ reps \in {1, 2} /\ loaded = job.id
        /\ reps = 2 => pc1' = "load"
        /\ reps = 1 => pc1' = "retire"
        /\ UNCHANGED <<pc0, calls, call, job, ran, seq, gaveUp>>
    BY DEF Run, Finish, ProtocolInv, NumberInv, ImageInv, InFlight
  <1>2. Over0' => reps = 1 /\ ~gaveUp /\ pc0 \in Waiting
    BY <1>1 DEF Over0, Waiting, Active, ProtocolInv, StateInv
  <1>3. (reps = 1 /\ ~gaveUp) \/ job.op # "ATTN" => Answer = job.id
    BY <1>1 DEF Answer, AttnRight
  <1>4. job.id[1] \in 1 .. calls /\ job.id[2] \in Parts /\ job.id[1] \in Nat
    BY <1>1 DEF AnswerInv
  <1>5. CASE job.dst = "tensor"
    <2>1. Answer = job.id /\ out' = Written(job.id[1], job.id[2], job.id)
      BY <1>1, <1>3, <1>5 DEF Run, ProtocolInv, ImageInv
    <2>2. Landed(job.id)'
      BY <1>1, <1>4, <2>1, WrittenParts DEF Landed
    <2>3. CASE Landed(job.id)
      <3>1. out' = out
        BY <1>4, <2>1, <2>3, WrittenParts DEF Landed
      <3> QED
        BY <1>1, <1>2, <1>5, <2>2, <3>1 DEF AnswerInv, Landed
    <2>4. CASE ~Landed(job.id)
      <3>1. job.id[1] = calls /\ pc0 # "idle"
        BY <1>1, <2>4 DEF AnswerInv
      <3>2. ASSUME pc0 \in Active, NEW k \in 1 .. call.k - 1
            PROVE  Landed(<<calls, k>>)'
        <4>1. job.id[2] = call.k /\ k \in Parts /\ k # call.k
          BY <1>1, <3>2, IdTyped, BoundsAssumption DEF Parts
        <4>2. out[calls % NBufs][k] = <<calls, k>>
          BY <3>2 DEF AnswerInv, Landed
        <4>3. out'[calls % NBufs][k] = out[calls % NBufs][k]
          BY <1>4, <2>1, <4>1, WrittenParts, SlotTyped
        <4> QED
          BY <1>1, <4>2, <4>3 DEF Landed
      <3> QED
        BY <1>1, <1>2, <1>5, <2>2, <3>1, <3>2 DEF AnswerInv
    <2> QED
      BY <2>3, <2>4
  <1>6. CASE job.dst # "tensor"
    <2>1. out' = out /\ scratch' = Answer
      BY <1>1, <1>6 DEF Run
    <2> QED
      BY <1>1, <1>2, <1>3, <1>6, <2>1 DEF AnswerInv, Landed
  <1> QED
    BY <1>5, <1>6

\* Every other step of the worker leaves the answers where they are.
LEMMA Hart1Answer ==
  ASSUME TypeOK, ProtocolInv, AttnRight, AnswerInv, Hart1
  PROVE  AnswerInv'
  <1> USE AnswerFacts DEF shared, hart0, memory, AnswerInv, Over0, Landed
  <1>1. CASE Boot
    BY <1>1 DEF Boot
  <1>2. CASE Take
    BY <1>2 DEF Take
  <1>3. CASE ReadSeq
    BY <1>3 DEF ReadSeq
  <1>4. CASE Start
    BY <1>4 DEF Start
  <1>5. CASE Dispatch
    BY <1>5 DEF Dispatch
  <1>6. CASE Load
    BY <1>6 DEF Load
  <1>7. CASE Run
    BY <1>7, RunAnswer
  <1>8. CASE Retire
    BY <1>8 DEF Retire, ProtocolInv, NumberInv, InFlight
  <1>9. CASE \E f \in Faults : Fault(f)
    <2>1. PICK f \in Faults : Fault(f)
      BY <1>9
    <2>2. pc1' = "load" \/ (pc1' = "retire" /\ rc' # "OK")
      BY <2>1, FaultsAssumption DEF Fault, Finish
    <2> QED
      BY <2>1, <2>2 DEF Fault, InFlight
  <1> QED
    BY <1>1, <1>2, <1>3, <1>4, <1>5, <1>6, <1>7, <1>8, <1>9 DEF Hart1

\* Every step keeps the answers right.
LEMMA NextAnswer ==
  ASSUME NoReuse
  PROVE  TypeOK /\ ProtocolInv /\ AttnRight /\ AnswerInv /\ [Next]_vars => AnswerInv'
  <1> SUFFICES ASSUME TypeOK, ProtocolInv, AttnRight, AnswerInv, [Next]_vars
               PROVE  AnswerInv'
    OBVIOUS
  <1>1. ASSUME NEW kind \in Kinds,
               NEW n \in (IF kind \in {"ENGINE", "CONV"} THEN {1} ELSE Parts),
               Call(kind, n)
        PROVE  AnswerInv'
    <2>1. n \in Parts
      BY BoundsAssumption DEF Parts
    <2>2. /\ pc0 = "idle" /\ pc0' \in {"stage", "software"} /\ calls' = calls + 1
          /\ call'.k = 1 /\ call'.n = n
          /\ UNCHANGED <<job, rc, scratch, out, ran, seq, gaveUp>>
      BY <1>1 DEF Call, shared, memory
    <2>3. 1 <= n
      BY <2>1, BoundsAssumption DEF Parts
    <2>4. ~Over0'
      BY <2>2 DEF Over0, Waiting
    <2> QED
      BY <2>2, <2>3, <2>4, NumbersTyped DEF AnswerInv, Landed
  <1>2. CASE Hart0
    BY <1>2, Hart0Answer
  <1>3. CASE Tick
    BY <1>3 DEF Tick, shared, hart1, memory, AnswerInv, Over0, Landed
  <1>4. CASE Hart1
    BY <1>4, Hart1Answer
  <1>5. CASE UNCHANGED vars
    BY <1>5 DEF vars, shared, hart0, hart1, memory, AnswerInv, Over0, Landed
  <1> QED
    BY <1>1, <1>2, <1>3, <1>4, <1>5 DEF Next, Finished

\* The answers are where they belong, whatever timed out or was given up on.
THEOREM AnswersHold ==
  ASSUME ConvSafe, RefusalSafe \/ FewEngines, NoReuse
  PROVE  Spec => []AnswerInv
  BY TypeCorrect, ProtocolHolds, AttnRightHolds, InitAnswer, NextAnswer, PTL DEF Spec

\* A job that finishes after hart 0 gave up on it does no harm to the answer
\* the network was given meanwhile, as long as no tensor is used twice.
THEOREM LateJobHarmlessHolds ==
  ASSUME ConvSafe, RefusalSafe \/ FewEngines, NoReuse
  PROVE  Spec => []LateJobHarmless
  <1>1. AnswerInv => LateJobHarmless
    BY DEF AnswerInv, LateJobHarmless, Landed
  <1> QED
    BY <1>1, AnswersHold, PTL
-----------------------------------------------------------------------------
(* The refinement: the hand-off implements what the kernels promise.         *)

\* Nothing is promised of the tensors before the first call.
LEMMA InitOffload == Init => Promise!Init
  BY BoundsAssumption DEF Init, Promise!Init, NoCall, None, Promise!None, Bufs,
     Promise!Bufs, Parts, Promise!Parts

\* A step that leaves the call and the tensors alone is a stutter.
LEMMA Stutters ==
  ASSUME pc0' = "idle" <=> pc0 = "idle", UNCHANGED <<calls, out>>, call'.n = call.n
  PROVE  UNCHANGED Promise!vars
  BY DEF Promise!vars

\* A step inside a call that writes one part of the call's own tensor.
LEMMA WriteStep ==
  ASSUME TypeOK, NEW k \in Parts, NEW v, out' = Written(calls, k, v)
  PROVE  Promise!OnlyCurrent
  <1>1. \A b \in Bufs : b # calls % NBufs => out'[b] = out[b]
    BY DEF Written, TypeOK
  <1> QED
    BY <1>1 DEF Promise!OnlyCurrent, Promise!Bufs, Promise!Buf, Bufs

\* A kernel is entered: the abstract call begins.
LEMMA CallBegins ==
  ASSUME TypeOK, NEW kind \in Kinds,
         NEW n \in (IF kind \in {"ENGINE", "CONV"} THEN {1} ELSE Parts), Call(kind, n)
  PROVE  Promise!Next
  <1>1. n \in Parts
    BY BoundsAssumption DEF Parts
  <1>2. /\ pc0 = "idle" /\ pc0' # "idle" /\ calls < MaxCalls /\ calls' = calls + 1
        /\ call'.n = n /\ out' = out
    BY DEF Call, memory
  <1> QED
    BY <1>1, <1>2 DEF Promise!Next, Promise!Begin, Parts, Promise!Parts

\* The fallback returns with the whole tensor right.
LEMMA SoftwareReturns ==
  ASSUME TypeOK, Software
  PROVE  Promise!Next
  <1>1. \A b \in Bufs : b # calls % NBufs => out'[b] = out[b]
    BY DEF Software, TypeOK
  <1>2. \A k \in Parts : k <= call.n => out'[calls % NBufs][k] = <<calls, k>>
    BY SlotTyped, NumbersTyped DEF Software, TypeOK
  <1>3. \A k \in 1 .. call.n : k \in Parts /\ k <= call.n
    BY CallTyped, BoundsAssumption DEF Parts
  <1>4. pc0 = "software" /\ pc0' = "idle" /\ UNCHANGED <<calls, call>>
    BY DEF Software
  <1> QED
    BY <1>1, <1>2, <1>3, <1>4 DEF Promise!Next, Promise!Return, Promise!OnlyCurrent,
       Promise!Right, Promise!Bufs, Promise!Buf, Bufs

\* Collecting writes one part at most, and the last one returns.
LEMMA CollectWorks ==
  ASSUME TypeOK, ProtocolInv, AnswerInv, Collect
  PROVE  Promise!Next \/ UNCHANGED Promise!vars
  <1> USE DEF shared, hart1, memory
  <1>1. pc0 = "collect" /\ calls' = calls
    BY DEF Collect
  <1>2. call'.n = call.n
    BY DEF Collect, Failed, TypeOK, Calls
  <1>3. Promise!OnlyCurrent
    <2>1. CASE out' = out
      BY <2>1 DEF Promise!OnlyCurrent
    <2>2. CASE out' = Written(calls, call.k, scratch)
      BY <2>2, IdTyped, WriteStep
    <2> QED
      BY <2>1, <2>2 DEF Collect
  <1>4. CASE pc0' # "idle"
    BY <1>1, <1>2, <1>3, <1>4 DEF Promise!Next, Promise!Work
  <1>5. CASE pc0' = "idle"
    <2>1. calls > 0 /\ AnswerInv'
      BY <1>1, CollectAnswer DEF AnswerInv
    <2>2. \A k \in 1 .. call.n : Landed(<<calls, k>>)'
      BY <1>1, <1>2, <1>5, <2>1 DEF AnswerInv
    <2> QED
      BY <1>1, <1>2, <1>3, <1>5, <2>2 DEF Promise!Next, Promise!Return, Promise!Right,
         Promise!Buf, Landed
  <1> QED
    BY <1>4, <1>5

\* A run writes to the tensor of the call in progress or changes nothing.
LEMMA RunWorks ==
  ASSUME TypeOK, ProtocolInv, AttnRight, AnswerInv, Run
  PROVE  Promise!Next \/ UNCHANGED Promise!vars
  <1> USE DEF shared, hart0, memory
  <1>1. /\ pc1 = "run" /\ wjob = job /\ ran # seq /\ loaded = job.id
        /\ UNCHANGED <<pc0, calls, call>>
    BY DEF Run, ProtocolInv, NumberInv, ImageInv, InFlight, TypeOK
  <1>2. job.id[1] \in 1 .. calls /\ job.id[2] \in Parts /\ job.id[1] \in Nat
    BY <1>1, NumbersTyped DEF AnswerInv
  <1>3. CASE job.dst = "tensor"
    <2>1. Answer = job.id
      BY <1>1, <1>3 DEF Answer, ProtocolInv, ImageInv
    <2>2. out' = Written(job.id[1], job.id[2], job.id)
      BY <1>1, <1>3, <2>1 DEF Run
    <2>3. CASE job.id[1] # calls \/ pc0 = "idle"
      <3>1. Landed(job.id)
        BY <1>1, <2>3 DEF AnswerInv
      <3>2. out' = out
        BY <1>2, <2>2, <3>1, WrittenParts DEF Landed
      <3> QED
        BY <1>1, <3>2, Stutters
    <2>4. CASE job.id[1] = calls /\ pc0 # "idle"
      <3>1. Promise!OnlyCurrent
        BY <1>2, <2>2, <2>4, WriteStep
      <3> QED
        BY <1>1, <2>4, <3>1 DEF Promise!Next, Promise!Work
    <2> QED
      BY <2>3, <2>4
  <1>4. CASE job.dst # "tensor"
    <2>1. out' = out
      BY <1>1, <1>4 DEF Run
    <2> QED
      BY <1>1, <2>1, Stutters
  <1> QED
    BY <1>3, <1>4

\* Every step of the two harts is a step of the promise or none.
LEMMA NextOffload ==
  TypeOK /\ ProtocolInv /\ AttnRight /\ AnswerInv /\ [Next]_vars =>
    [Promise!Next]_Promise!vars
  <1> SUFFICES ASSUME TypeOK, ProtocolInv, AttnRight, AnswerInv, [Next]_vars
               PROVE  Promise!Next \/ UNCHANGED Promise!vars
    OBVIOUS
  <1>1. ASSUME NEW kind \in Kinds,
               NEW n \in (IF kind \in {"ENGINE", "CONV"} THEN {1} ELSE Parts),
               Call(kind, n)
        PROVE  Promise!Next
    BY <1>1, CallBegins
  <1>2. CASE Collect
    BY <1>2, CollectWorks
  <1>3. CASE Software
    BY <1>3, SoftwareReturns
  <1>4. CASE Run
    BY <1>4, RunWorks
  <1>5. CASE Late
    <2>1. call'.n = call.n
      BY <1>5 DEF Late, Failed, TypeOK, Calls
    <2>2. UNCHANGED <<calls, out>> /\ pc0 # "idle" /\ pc0' # "idle"
      BY <1>5 DEF Late, Failed, memory
    <2> QED
      BY <2>1, <2>2, Stutters
  <1>6. CASE Stage \/ Fill \/ ClearDone \/ Post \/ Give \/ Ahead \/ Poll \/ Tick
    <2>1. UNCHANGED <<calls, call, out>> /\ pc0 # "idle" /\ pc0' # "idle"
      BY <1>6 DEF Stage, Fill, ClearDone, Post, Give, Ahead, Poll, Tick, memory
    <2> QED
      BY <2>1, Stutters
  <1>7. CASE \/ Boot \/ Take \/ ReadSeq \/ Start \/ Dispatch \/ Load \/ Retire
             \/ \E f \in Faults : Fault(f)
    <2>1. UNCHANGED <<calls, call, out, pc0>>
      BY <1>7 DEF Boot, Take, ReadSeq, Start, Dispatch, Load, Retire, Fault, memory, hart0
    <2> QED
      BY <2>1, Stutters
  <1>8. CASE UNCHANGED vars
    BY <1>8, Stutters DEF vars, hart0, memory
  <1> QED
    BY <1>1, <1>2, <1>3, <1>4, <1>5, <1>6, <1>7, <1>8 DEF Next, Hart0, Hart1, Finished

\* The kernels keep their promise to the network whatever hart 1 does: a call
\* changes no tensor but its own, returns with all of it right, and nothing
\* changes between calls, not even by a job that was given up on.
THEOREM OffloadsHolds ==
  ASSUME ConvSafe, RefusalSafe \/ FewEngines, NoReuse
  PROVE  Spec => Offloads
  BY TypeCorrect, ProtocolHolds, AttnRightHolds, AnswersHold, InitOffload, NextOffload, PTL
     DEF Spec, Offloads, Promise!Spec
=============================================================================
