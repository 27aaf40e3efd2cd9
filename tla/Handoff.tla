------------------------------ MODULE Handoff ------------------------------
(***************************************************************************)
(* The hart 0 -> hart 1 hand-off of the RoCC runtime                       *)
(* (fpga/pynq-z2/sw/roccmoon/mbxr_rt.h) under the kernels that call it     *)
(* (fpga/pynq-z2/modelblaster/kernels/roccmoon).                           *)
(*                                                                         *)
(* Only hart 1 may issue the engine's instructions, so hart 0 writes the   *)
(* one global mbxr_rt_job, bumps mbxr_rt_seq, gives the semaphore and      *)
(* polls mbxr_rt_done; a worker pinned to hart 1 takes the token, runs the *)
(* job and sets done.  Every shared word is accessed by an action of its   *)
(* own, so the two harts interleave as the hardware lets them.             *)
(*                                                                         *)
(* One operator call of the network is up to MaxParts dispatches: the      *)
(* heads of an attention, the tiles of a LayerNorm or LUT map, one engine  *)
(* run for a linear.  Tensor bytes are abstracted to the dispatch they are *)
(* the answer of; addresses, shapes and cycle statistics are left out.     *)
(***************************************************************************)
EXTENDS Naturals

CONSTANTS
  Kinds,       \* operator kinds the network contains
  Faults,      \* the ways a dispatch may fail on the unit
  MaxCalls,    \* bound: operator calls hart 0 makes
  MaxParts,    \* bound: dispatches of one operator call
  NBufs,       \* output tensors; call c writes tensor c % NBufs
  GiveupKicks, \* MBXR_RT_GIVEUP_CYCLES, in units of MBXR_RT_KICK_CYCLES
  MaxAge,      \* bound: kick periods that may pass during one dispatch
  B126N        \* MBXR_RT_B126_N

ASSUME KindsAssumption == Kinds \subseteq {"ENGINE", "LANE", "ATTN", "CONV"}
ASSUME FaultsAssumption == Faults \subseteq {"TIMEOUT", "ERR"}
ASSUME BoundsAssumption ==
  /\ MaxCalls \in Nat /\ MaxAge \in Nat /\ GiveupKicks \in Nat
  /\ MaxParts \in Nat \ {0} /\ NBufs \in Nat \ {0} /\ B126N \in Nat \ {0}

VARIABLES
  \* mbxr_rt.h: the words both harts touch
  state,       \* mbxr_rt_state: 0 not started, 1 running, 2 unavailable (-1)
  sem,         \* count of mbxr_rt_go, limit 1
  seq,         \* mbxr_rt_seq
  started,     \* mbxr_rt_started_seq
  done,        \* mbxr_rt_done
  job,         \* mbxr_rt_job: the fields hart 0 fills
  rc,          \* mbxr_rt_job.rc
  redo,        \* mbxr_rt_b126_redo_now
  \* hart 0
  pc0, calls, call, tok, age, kickAt, run, gaveUp,
  \* hart 1
  pc1, wseq, ran, wjob, loaded, reps, widthOk,
  \* memory and the unit
  stage,       \* the input images hart 0 stages for hart 1's fill
  scratch,     \* the drain destination that is not the tensor itself
  out,         \* the output tensors
  since        \* engine dispatches the unit ran since its last attention one

shared == <<state, sem, seq, started, done, job, rc, redo>>
hart0  == <<pc0, calls, call, tok, age, kickAt, run, gaveUp>>
hart1  == <<pc1, wseq, ran, wjob, loaded, reps, widthOk>>
memory == <<stage, scratch, out, since>>
vars   == <<shared, hart0, hart1, memory>>
-----------------------------------------------------------------------------
Parts == 1 .. MaxParts
Bufs  == 0 .. NBufs - 1
Ids   == (0 .. MaxCalls) \X (0 .. MaxParts)
None  == <<0, 0>>
Bad   == <<0, 1>>             \* bytes that are no dispatch's answer

Sets    == {"in", "set0", "set1"}
NoJob   == [op |-> "LANE", id |-> None, src |-> "in", dst |-> "scratch"]
Jobs    == [op : {"ENGINE", "LANE", "ATTN", "CONV"}, id : Ids,
            src : Sets, dst : {"tensor", "scratch"}]
NoCall  == [kind |-> "LANE", n |-> 1, k |-> 1, retry |-> FALSE]
Calls   == [kind : {"ENGINE", "LANE", "ATTN", "CONV"}, n : Parts, k : Parts,
            retry : BOOLEAN]

OneSet(kind, k)  == IF kind # "ATTN" THEN "in" ELSE "set0"   \* mutant of SetOf

\* An attention alternates two image sets by head number; everything else
\* stages into MBXR_RT_IN_STAGE.
SetOf(kind, k) == IF kind # "ATTN" THEN "in"
                  ELSE IF k % 2 = 1 THEN "set0" ELSE "set1"

\* Where the drain may land: a linear's rows are the tensor's own; an
\* attention head and a convolution go through a copy; a LayerNorm or LUT
\* tile does either, by the alignment of the tensor.
DstOf(kind) == CASE kind = "ENGINE" -> {"tensor"}
                 [] kind = "LANE"   -> {"tensor", "scratch"}
                 [] OTHER           -> {"scratch"}

Written(c, k, v) == [out EXCEPT ![c % NBufs][k] = v]

Init ==
  /\ state = 0 /\ sem = 0 /\ seq = 0 /\ started = 0 /\ done = 0
  /\ job = NoJob /\ rc = "OK" /\ redo = FALSE
  /\ pc0 = "idle" /\ calls = 0 /\ call = NoCall /\ tok = 0
  /\ age = 0 /\ kickAt = 0 /\ run = 0 /\ gaveUp = FALSE
  /\ pc1 = "off" /\ wseq = 0 /\ ran = 0 /\ wjob = NoJob
  /\ loaded = None /\ reps = 0 /\ widthOk = TRUE
  /\ stage = [s \in Sets |-> None] /\ scratch = None
  /\ out = [b \in Bufs |-> [k \in Parts |-> None]] /\ since = 0
-----------------------------------------------------------------------------
(* HART 0: an operator call *)

TruthyState(s) == s # 0                 \* mutant of Available
Available(s)   == s = 1                 \* what mbxr_rt_available() returns

\* A kernel is entered.  The shape is refused before mbxr_rt_available() is
\* asked, or the runtime is asked, starting the worker the first time.
Call(kind, n) ==
  /\ pc0 = "idle" /\ calls < MaxCalls
  /\ calls' = calls + 1
  /\ call' = [kind |-> kind, n |-> n, k |-> 1, retry |-> FALSE]
  /\ \/ pc0' = "software" /\ UNCHANGED <<state, pc1>>
     \/ /\ state = 0
        /\ \/ state' = 1 /\ pc1' = "boot" /\ pc0' = "stage"
           \/ state' = 2 /\ pc1' = pc1    /\ pc0' = "software"
     \/ /\ state # 0
        /\ pc0' = (IF Available(state) THEN "stage" ELSE "software")
        /\ UNCHANGED <<state, pc1>>
  /\ UNCHANGED <<sem, seq, started, done, job, rc, redo, tok, age, kickAt,
                 run, gaveUp, wseq, ran, wjob, loaded, reps, widthOk, memory>>

\* The inputs of the next dispatch are copied where the fill reads them.
Stage ==
  /\ pc0 = "stage"
  /\ stage' = [stage EXCEPT ![SetOf(call.kind, call.k)] = <<calls, call.k>>]
  /\ pc0' = "fill"
  /\ UNCHANGED <<shared, calls, call, tok, age, kickAt, run, gaveUp, hart1,
                 scratch, out, since>>

AnyClears(kind) == TRUE                 \* mutant of ClearsRun
ClearsRun(kind) == kind = "ATTN"

\* issue: the job's fields, and for an attention the one B126 decision
Fill ==
  /\ pc0 = "fill"
  /\ \E d \in DstOf(call.kind) :
       job' = [op |-> call.kind, id |-> <<calls, call.k>>,
               src |-> SetOf(call.kind, call.k), dst |-> d]
  /\ redo' = (IF call.kind = "ATTN" THEN run >= B126N ELSE redo)
  /\ run' = (IF ClearsRun(call.kind) THEN 0 ELSE run)
  /\ pc0' = "clear"
  /\ UNCHANGED <<state, sem, seq, started, done, rc, calls, call, tok, age,
                 kickAt, gaveUp, hart1, memory>>

ClearDone ==
  /\ pc0 = "clear"
  /\ done' = 0 /\ pc0' = "post"
  /\ UNCHANGED <<state, sem, seq, started, job, rc, redo, calls, call, tok,
                 age, kickAt, run, gaveUp, hart1, memory>>

Post ==
  /\ pc0 = "post"
  /\ seq' = seq + 1 /\ tok' = seq + 1
  /\ age' = 0 /\ kickAt' = 1
  /\ pc0' = "give"
  /\ UNCHANGED <<state, sem, started, done, job, rc, redo, calls, call, run,
                 gaveUp, hart1, memory>>

WideLimit == 2                          \* mutant of GoLimit
GoLimit   == 1                          \* k_sem_init(&mbxr_rt_go, 0, 1)

\* k_sem_give: a pending taker gets the token and is made ready, otherwise
\* the count grows to its limit.
SemGive ==
  IF pc1 = "pend" THEN pc1' = "ready" /\ sem' = sem
                  ELSE sem' = (IF sem < GoLimit THEN sem + 1 ELSE sem) /\ pc1' = pc1

\* After the give an attention with a head left stages it (MBP_B86D) before
\* it polls; every other caller polls at once.
StagesAhead == call.kind = "ATTN" /\ call.k < call.n

Give ==
  /\ pc0 = "give"
  /\ SemGive
  /\ pc0' = (IF StagesAhead THEN "ahead" ELSE "poll")
  /\ UNCHANGED <<state, seq, started, done, job, rc, redo, calls, call, tok,
                 age, kickAt, run, gaveUp, wseq, ran, wjob, loaded, reps,
                 widthOk, memory>>

Ahead ==
  /\ pc0 = "ahead" /\ StagesAhead
  /\ stage' = [stage EXCEPT ![SetOf("ATTN", call.k + 1)] = <<calls, call.k + 1>>]
  /\ pc0' = "poll"
  /\ UNCHANGED <<shared, calls, call, tok, age, kickAt, run, gaveUp, hart1,
                 scratch, out, since>>

Poll ==
  /\ pc0 = "poll"
  /\ \/ done = 1 /\ pc0' = "collect" /\ UNCHANGED kickAt
     \/ done = 0 /\ age >= kickAt /\ pc0' = "late" /\ kickAt' = age + 1
  /\ UNCHANGED <<shared, calls, call, tok, age, run, gaveUp, hart1, memory>>

\* A dispatch that failed: a convolution whose pipelined attempt failed runs
\* its shipping path, everything else the curated kernel.
Failed == IF call.kind = "CONV" /\ ~call.retry
            THEN pc0' = "stage" /\ call' = [call EXCEPT !.retry = TRUE]
            ELSE pc0' = "software" /\ UNCHANGED call

NeverGivesUp == FALSE                   \* mutant of GivesUp
GivesUp      == kickAt - 1 > GiveupKicks

\* kick_at passed: give again if the job was not picked up, and past the
\* give-up time stop using the worker
Late ==
  /\ pc0 = "late"
  /\ IF started # tok THEN SemGive ELSE UNCHANGED <<sem, pc1>>
  /\ IF GivesUp
       THEN state' = 2 /\ gaveUp' = TRUE /\ Failed
       ELSE pc0' = "poll" /\ UNCHANGED <<state, gaveUp, call>>
  /\ UNCHANGED <<seq, started, done, job, rc, redo, calls, tok, age, kickAt,
                 run, wseq, ran, wjob, loaded, reps, widthOk, memory>>

\* wait has seen done: read rc and, if it is OK, copy what was not drained
\* in place and go on to the next dispatch of the call
Collect ==
  /\ pc0 = "collect"
  /\ run' = run + (IF call.kind \in {"ENGINE", "CONV"} THEN 1 ELSE 0)
  /\ state' = (IF call.kind \in {"ENGINE", "CONV"} /\ rc \in {"TIMEOUT", "WIDTH"}
                 THEN 2 ELSE state)
  /\ \/ /\ rc = "OK"
        /\ out' = IF job.dst = "scratch" THEN Written(calls, call.k, scratch)
                                         ELSE out
        /\ IF call.k < call.n
             THEN /\ call' = [call EXCEPT !.k = @ + 1]
                  /\ pc0' = (IF call.kind = "ATTN" THEN "fill" ELSE "stage")
             ELSE pc0' = "idle" /\ UNCHANGED call
     \/ /\ \/ rc # "OK"
           \/ call.kind = "CONV" /\ ~call.retry      \* stall_now
        /\ Failed /\ UNCHANGED out
  /\ UNCHANGED <<sem, seq, started, done, job, rc, redo, calls, tok, age,
                 kickAt, gaveUp, hart1, stage, scratch, since>>

\* the curated kernel computes the whole operator on hart 0
Software ==
  /\ pc0 = "software"
  /\ out' = [out EXCEPT ![calls % NBufs] =
               [k \in Parts |-> IF k <= call.n THEN <<calls, k>> ELSE @[k]]]
  /\ pc0' = "idle"
  /\ UNCHANGED <<shared, calls, call, tok, age, kickAt, run, gaveUp, hart1,
                 stage, scratch, since>>

\* rdcycle advances while hart 0 waits
Tick ==
  /\ pc0 \in {"ahead", "poll", "late"} /\ age < MaxAge
  /\ age' = age + 1
  /\ UNCHANGED <<shared, pc0, calls, call, tok, kickAt, run, gaveUp, hart1,
                 memory>>
-----------------------------------------------------------------------------
(* HART 1: mbxr_rt_worker *)

Boot ==
  /\ pc1 = "boot"
  /\ widthOk' \in BOOLEAN
  /\ pc1' = "take"
  /\ UNCHANGED <<shared, hart0, wseq, ran, wjob, loaded, reps, memory>>

Take ==
  /\ pc1 = "take"
  /\ IF sem > 0 THEN sem' = sem - 1 /\ pc1' = "ready"
                ELSE pc1' = "pend" /\ UNCHANGED sem
  /\ UNCHANGED <<state, seq, started, done, job, rc, redo, hart0, wseq, ran,
                 wjob, loaded, reps, widthOk, memory>>

AnyToken == TRUE                        \* mutant of NewJob
NewJob   == seq # ran

\* A token can outlive its job, so only a number not yet run starts one.
ReadSeq ==
  /\ pc1 = "ready"
  /\ wseq' = seq
  /\ pc1' = (IF NewJob THEN "start" ELSE "take")
  /\ UNCHANGED <<shared, hart0, ran, wjob, loaded, reps, widthOk, memory>>

Start ==
  /\ pc1 = "start"
  /\ started' = wseq
  /\ IF widthOk THEN pc1' = "dispatch" /\ UNCHANGED rc
                ELSE pc1' = "retire" /\ rc' = "WIDTH"
  /\ UNCHANGED <<state, sem, seq, done, job, redo, hart0, wseq, ran, wjob,
                 loaded, reps, widthOk, memory>>

Once    == 1                            \* mutant of Repeats
Repeats == IF job.op = "ATTN" /\ redo THEN 2 ELSE 1

\* The arguments are read out of the job and passed by value; an attention
\* consumes the B126 flag.
Dispatch ==
  /\ pc1 = "dispatch"
  /\ wjob' = job
  /\ reps' = Repeats
  /\ redo' = (IF job.op = "ATTN" THEN FALSE ELSE redo)
  /\ pc1' = "load"
  /\ UNCHANGED <<state, sem, seq, started, done, job, rc, hart0, wseq, ran,
                 loaded, widthOk, memory>>

Load ==
  /\ pc1 = "load"
  /\ loaded' = stage[wjob.src]
  /\ pc1' = "run"
  /\ UNCHANGED <<shared, hart0, wseq, ran, wjob, reps, widthOk, memory>>

\* What the unit leaves at the destination.  job.q is read through a pointer
\* while the tiles run, so the job must still be the one dispatched; an
\* attention after a long engine run is wrong with no error (B124).
Answer == IF /\ loaded = wjob.id
             /\ job.id = wjob.id
             /\ wjob.op = "ATTN" => since < B126N
            THEN wjob.id ELSE Bad

Finish(code) ==
  IF reps > 1 THEN reps' = reps - 1 /\ pc1' = "load" /\ UNCHANGED rc
              ELSE pc1' = "retire" /\ rc' = code /\ UNCHANGED reps

Run ==
  /\ pc1 = "run"
  /\ IF wjob.dst = "tensor"
       THEN out' = Written(wjob.id[1], wjob.id[2], Answer) /\ UNCHANGED scratch
       ELSE scratch' = Answer /\ UNCHANGED out
  /\ since' = (CASE wjob.op = "ATTN" -> 0
                 [] wjob.op = "LANE" -> since
                 [] OTHER            -> since + 1)
  /\ Finish("OK")
  /\ UNCHANGED <<state, sem, seq, started, done, job, redo, hart0, wseq, ran,
                 wjob, loaded, widthOk, stage>>

\* The dispatch returns an error.  ERR: refused before the unit ran.
\* TIMEOUT: the engine never finished (a lane's own code does not disable
\* the runtime, so a lane is never given TIMEOUT here).
Fault(f) ==
  /\ pc1 = "run"
  /\ f = "TIMEOUT" => wjob.op \in {"ENGINE", "CONV"}
  /\ Finish(f)
  /\ since' = since + (IF f = "TIMEOUT" THEN 1 ELSE 0)
  /\ UNCHANGED <<state, sem, seq, started, done, job, redo, hart0, wseq, ran,
                 wjob, loaded, widthOk, stage, scratch, out>>

Retire ==
  /\ pc1 = "retire"
  /\ ran' = wseq /\ done' = 1
  /\ pc1' = "take"
  /\ UNCHANGED <<state, sem, seq, started, job, rc, redo, hart0, wseq, wjob,
                 loaded, reps, widthOk, memory>>
-----------------------------------------------------------------------------
Hart0 == \/ Stage \/ Fill \/ ClearDone \/ Post \/ Give \/ Ahead \/ Poll
         \/ Late \/ Collect \/ Software

Hart1 == \/ Boot \/ Take \/ ReadSeq \/ Start \/ Dispatch \/ Load \/ Run
         \/ Retire \/ \E f \in Faults : Fault(f)

\* all the calls of the bounded network were made
Finished == pc0 = "idle" /\ calls = MaxCalls /\ UNCHANGED vars

Next == \/ \E kind \in Kinds : \E n \in (IF kind \in {"ENGINE", "CONV"} THEN {1} ELSE Parts) :
             Call(kind, n)
        \/ Hart0 \/ Tick \/ Hart1 \/ Finished

Spec == Init /\ [][Next]_vars

\* Hart 0 is never descheduled for ever and time passes; nothing is assumed
\* of hart 1, whose wake-up may be lost and whose engine may hang.
FairSpec == Spec /\ WF_vars(Hart0) /\ WF_vars(Tick)
-----------------------------------------------------------------------------
(* PROPERTIES *)

InFlight == {"start", "dispatch", "load", "run", "retire"}
Waiting  == {"give", "ahead", "poll", "late", "collect"}

TypeOK ==
  /\ state \in 0 .. 2 /\ sem \in 0 .. 1 /\ done \in 0 .. 1
  /\ seq \in Nat /\ started \in Nat
  /\ job \in Jobs /\ rc \in {"OK", "WIDTH", "TIMEOUT", "ERR"} /\ redo \in BOOLEAN
  /\ pc0 \in {"idle", "stage", "fill", "clear", "post", "software"} \cup Waiting
  /\ calls \in 0 .. MaxCalls /\ call \in Calls /\ tok \in Nat
  /\ age \in 0 .. MaxAge /\ kickAt \in Nat /\ run \in Nat /\ gaveUp \in BOOLEAN
  /\ pc1 \in {"off", "boot", "take", "pend", "ready"} \cup InFlight
  /\ wseq \in Nat /\ ran \in Nat /\ wjob \in Jobs
  /\ loaded \in Ids /\ reps \in 0 .. 2 /\ widthOk \in BOOLEAN
  /\ stage \in [Sets -> Ids] /\ scratch \in Ids
  /\ out \in [Bufs -> [Parts -> Ids]] /\ since \in Nat

\* The done flag a caller sees is its own dispatch's, never an earlier one's
\* ("a caller holding a token cannot accidentally wait on the wrong dispatch").
DoneIsMine == pc0 \in Waiting /\ done = 1 => ran = tok

\* Rule 1 of the B86D and B102 splits: mbxr_rt_job is one global struct, and
\* hart 1 never works from one that hart 0 has refilled under it.
JobStable == pc1 \in {"load", "run"} => job = wjob

\* Rule 2: what the fill of hart 1 reads is the image staged for its own
\* dispatch, although hart 0 stages the next head in the wait window.
FillReadsOwnImage == pc1 \in {"load", "run"} => stage[wjob.src] = wjob.id

\* B126: when a dispatch is filled, hart 0's count of the engine dispatches
\* since the last attention one is not below what the unit really ran.
RunNotUndercounted == pc0 = "fill" => since <= run

\* No operator's tensor ever receives bytes that are no dispatch's answer.
NoWrongAnswer == \A b \in Bufs, k \in Parts : out[b][k] # Bad

\* Hart 0 posts while hart 1 is at rest: one dispatch is in flight at most.
OneInFlight == [][seq' # seq => pc1 \notin InFlight /\ ran = seq]_vars

\* A kick or a token left over from an earlier dispatch never runs a job a
\* second time, and no job posted is skipped.
EachJobStartsOnce == [][started' # started => started' = started + 1]_vars

\* "Stop using it: the kernel falls back, and so does every later call."
NoPostAfterGiveup == [][seq' # seq => state = 1]_vars

\* "A job that does finish later writes the same bytes the fallback does, if
\* it is right": after a give-up the last answer returned to the network stays.
LateJobHarmless ==
  gaveUp /\ pc0 = "idle" =>
    \A k \in 1 .. call.n : out[calls % NBufs][k] = <<calls, k>>

\* The kernels do what they promise the network, wherever the work ran.
Promise == INSTANCE Offload WITH
             phase <- IF pc0 = "idle" THEN "idle" ELSE "busy",
             cur <- calls, parts <- call.n
Offloads == Promise!Spec

\* Whatever becomes of hart 1, every kernel call returns to the network.
EveryCallReturns == pc0 # "idle" ~> pc0 = "idle"
-----------------------------------------------------------------------------
(* The inductive invariants behind the safety properties.  They are for a      *)
(* network that may run on: without a convolution, whose kernel posts again   *)
(* after a give-up (handoff_conv_repost), or with a hart 1 never given up on. *)

\* Whatever age a wait reaches within the bound, it is not past the give-up time.
AnswersInTime == MaxAge <= GiveupKicks

ConvSafe == "CONV" \in Kinds => AnswersInTime

\* A dispatch is prepared or waited for.
Active == {"stage", "fill", "clear", "post"} \cup Waiting

\* Who may be where: hart 0 prepares and waits only while the worker is
\* trusted, or to retry a convolution whose first attempt failed, and after a
\* give-up it never does either again.
StateInv ==
  /\ call.kind \in Kinds \cup {"LANE"} /\ job.op \in Kinds \cup {"LANE"}
  /\ pc0 \in Active => /\ ~gaveUp /\ pc1 # "off"
                       /\ state = 1 \/ (call.kind = "CONV" /\ call.retry)
  /\ gaveUp => state = 2 /\ ~AnswersInTime
  /\ pc0 \in Waiting => kickAt <= age + 1
  /\ state = 0 \/ pc1 = "off" => seq = 0 /\ ran = 0
  /\ state = 0 => pc1 = "off"
  /\ state = 1 => pc1 # "off"

\* The numbers: at most one job is posted and not yet retired, hart 1 is at
\* work only on that one, and done is its completion.
NumberInv ==
  /\ ran = seq \/ seq = ran + 1
  /\ pc1 \in InFlight => wseq = seq /\ seq = ran + 1
  /\ started = (IF pc1 \in InFlight \ {"start"} THEN wseq ELSE ran)
  /\ pc0 \notin Waiting /\ ~gaveUp => ran = seq
  /\ pc0 = "post" => done = 0
  /\ pc0 \in Waiting => tok = seq /\ (done = 1 <=> ran = seq)
  /\ pc0 = "collect" => ran = seq
  /\ pc1 \in {"load", "run"} => reps \in {1, 2} /\ (wjob.op # "ATTN" => reps = 1)

\* The image a dispatch names stays what was staged for it.
ImageInv ==
  /\ pc0 = "fill" => stage[SetOf(call.kind, call.k)] = <<calls, call.k>>
  /\ pc0 \in {"clear", "post"} \cup Waiting =>
       /\ job.id = <<calls, call.k>> /\ job.op = call.kind
       /\ job.src = SetOf(call.kind, call.k)
  /\ pc0 \in {"clear", "post"} \/ ran # seq => stage[job.src] = job.id
  /\ pc0 \in {"poll", "late", "collect"} /\ StagesAhead =>
       stage[SetOf("ATTN", call.k + 1)] = <<calls, call.k + 1>>
  /\ pc1 \in {"load", "run"} => wjob = job
  /\ pc1 = "run" => loaded = job.id
  /\ job.dst = "tensor" => job.op # "ATTN"

ProtocolInv == StateInv /\ NumberInv /\ ImageInv

\* A lane or the engine may refuse a dispatch only where that cannot leave an
\* attention uncounted for: refused, it has already cleared hart 0's count
\* (handoff_refused).
Engines    == {"ENGINE", "CONV"}
RefusalSafe == "ERR" \in Faults => "ATTN" \notin Kinds \/ Kinds \cap Engines = {}

\* The dispatch hart 0 is at is not filled yet, is under way, or is over.
Ahead0  == pc0 \notin {"clear", "post"} \cup Waiting
Over0   == pc0 \in Waiting /\ (ran = seq \/ pc1 = "retire")

\* Until a give-up hart 0's count is not below the unit's, but for the engine
\* dispatch it is about to count; and an attention that is under way after
\* MBXR_RT_B126_N of them still has its second run before it.
CountInv ==
  /\ pc1 \in {"off", "boot"} => since = 0
  /\ ~widthOk => since = 0 /\ pc1 \notin {"dispatch", "load", "run"}
  /\ Kinds \cap Engines = {} => since = 0
  /\ Ahead0 /\ ~gaveUp => since <= run
  /\ ~Ahead0 /\ call.kind # "ATTN" =>
       since <= run + (IF Over0 /\ call.kind \in Engines THEN 1 ELSE 0)
  /\ ~Ahead0 /\ call.kind = "ATTN" =>
       IF Over0 THEN since <= run
       ELSE since < B126N \/ (IF pc1 \in {"load", "run"} THEN reps = 2 ELSE redo)

\* Or the network is too short for MBXR_RT_B126_N engine dispatches: each
\* linear is one, so there are never more of them than calls.
FewEngines == "CONV" \notin Kinds /\ MaxCalls < B126N

FewInv ==
  /\ since <= job.id[1] /\ job.id[1] <= calls
  /\ call.kind = "ENGINE" => call.n = 1
  /\ call.kind = "ENGINE" /\ pc0 \in {"stage", "fill"} => job.id[1] < calls
  /\ job.op = "ENGINE" /\ (pc0 \in {"clear", "post"} \/ (ran # seq /\ pc1 # "retire")) =>
       since < job.id[1]

\* Either way an attention still waited for ends with a run that is right.
AttnRight == pc1 = "run" /\ ~gaveUp /\ wjob.op = "ATTN" => since < B126N \/ reps = 2

\* Tensors are not written again while a job that was given up on may write.
NoReuse == AnswersInTime \/ MaxCalls <= NBufs

Landed(id) == out[id[1] % NBufs][id[2]] = id

\* Every part up to the current one is right, the answer of a dispatch that is
\* over is where hart 0 looks for it, and the one of a job given up on is
\* already there or belongs to the call in progress.
AnswerInv ==
  /\ pc0 # "idle" \/ gaveUp => calls > 0
  /\ pc0 \in Active => /\ call.k <= call.n
                       /\ \A k \in 1 .. call.k - 1 : Landed(<<calls, k>>)
  /\ pc0 = "idle" /\ calls > 0 => \A k \in 1 .. call.n : Landed(<<calls, k>>)
  /\ Over0 /\ rc = "OK" => IF job.dst = "tensor" THEN Landed(job.id) ELSE scratch = job.id
  /\ ran # seq =>
       /\ job.id[1] \in 1 .. calls /\ job.id[2] \in Parts
       /\ job.id[1] = calls => job.id[2] <= call.n
       /\ job.id[1] # calls \/ pc0 = "idle" => Landed(job.id)
=============================================================================
