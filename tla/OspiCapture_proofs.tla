------------------------- MODULE OspiCapture_proofs -------------------------
(***************************************************************************)
(* Theorems about the frame capture, for every sensor, line buffer, poll   *)
(* limit and number of calls.                                              *)
(*                                                                         *)
(* A call may only return its buffer to its caller once the master is at   *)
(* rest.  What it knows of the master is a status it read some time ago;   *)
(* Rested says that this status is still true, which needs that nobody     *)
(* else can have armed the master since: Sole.                             *)
(*                                                                         *)
(* That a good frame is one whole frame follows from the shape of what the *)
(* second transfer sees, with the beats the line buffer has lost: Shape.   *)
(***************************************************************************)
EXTENDS OspiCapture, TLAPS

\* Photos have the lock from the check of reset_required on; a diagnostic is
\* alone.
Sole ==
  /\ \A t, u \in Threads : Calling(t) /\ Calling(u) /\ t # u =>
       th[t].op = "photo" /\ th[u].op = "photo"
  /\ \A t \in Threads : Calling(t) /\ th[t].op = "photo" /\ th[t].pc # "lock" => lock = t
  /\ \A t \in Threads : th[t].pc \in {"lock", "check", "setup"} => th[t].op = "photo"

\* Nobody's buffer is anybody else's, or one that was given up.
Apart ==
  /\ \A t \in Threads : th[t].pc # "idle" => th[t].buf \notin retained
  /\ \A t, u \in Threads : th[t].pc # "idle" /\ th[u].pc # "idle" /\ t # u =>
       th[t].buf # th[u].buf

\* Before it arms it, a call's buffer is not the master's.
Unarmed == \A t \in Threads : th[t].pc \in {"lock", "check", "setup", "busy?"} /\ dma.busy =>
             dma.to # th[t].buf

\* The first attempt of a call is its first.
Untried == \A t \in Threads :
             th[t].pc \in {"idle", "lock", "check", "setup", "busy?"} => th[t].tries = 0

\* A transfer seen to be over is over.
Rested == \A t \in Threads :
            /\ th[t].pc \notin {"read", "judge"} => ~th[t].st.done
            /\ th[t].pc \in {"read", "judge"} /\ Over(t) => ~dma.busy
            /\ th[t].pc = "finish" /\ th[t].rc # "timeout" => ~dma.busy

\* What is kept besides the types.
Safe == Sole /\ Apart /\ Unarmed /\ Untried /\ Rested /\ NoLateWrite

CaptureInv == TypeOK /\ Safe
-----------------------------------------------------------------------------
(* TYPES *)

\* The states the sensor can be put in.
LEMMA SensorType ==
  ASSUME NEW s \in Sensors, NEW a \in 1 .. N + 1, NEW f \in {0, 1}, NEW b \in BOOLEAN
  PROVE  /\ [s EXCEPT !.at = a, !.frame = f] \in Sensors /\ [s EXCEPT !.at = a] \in Sensors
         /\ [on |-> b, at |-> a, frame |-> f] \in Sensors /\ [s EXCEPT !.on = b] \in Sensors
BY DEF Sensors

\* What the type says of the sensor.
LEMMA SensorFields ==
  ASSUME NEW s \in Sensors
  PROVE  s.on \in BOOLEAN /\ s.at \in 1 .. N + 1 /\ s.frame \in {0, 1}
BY DEF Sensors

\* What the end of a transfer and an error leave of the master's registers.
LEMMA DmaType ==
  ASSUME NEW d \in Transfers, NEW e \in BOOLEAN, NEW f \in BOOLEAN
  PROVE  /\ Ended(d, e, f) \in Transfers /\ Ended(d, e, f).to = d.to
         /\ Ended(d, e, f).busy = d.pending
         /\ [d EXCEPT !.err = e] \in Transfers /\ [d EXCEPT !.err = e].to = d.to
         /\ [d EXCEPT !.err = e].busy = d.busy
         /\ [d EXCEPT !.enabled = e] \in Transfers /\ [d EXCEPT !.enabled = e].to = d.to
         /\ [d EXCEPT !.enabled = e].busy = d.busy
BY DEF Transfers, Ended

\* What the type says of the master.
LEMMA DmaFields ==
  ASSUME NEW d \in Transfers
  PROVE  /\ d.busy \in BOOLEAN /\ d.done \in BOOLEAN /\ d.eof \in BOOLEAN /\ d.err \in BOOLEAN
         /\ d.to \in Buffers
BY DEF Transfers

\* Beats join and leave a queue.
LEMMA SeqType ==
  ASSUME NEW S, NEW s \in Seq(S), NEW e \in S
  PROVE  /\ Append(s, e) \in Seq(S) /\ <<>> \in Seq(S)
         /\ s # <<>> => Head(s) \in S /\ Tail(s) \in Seq(S)
OBVIOUS

\* A transfer writes one buffer.
LEMMA MemType ==
  ASSUME NEW m \in [Buffers -> Seq(Beats)], NEW b \in Buffers, NEW s \in Seq(Beats)
  PROVE  [m EXCEPT ![b] = s] \in [Buffers -> Seq(Beats)] /\ m[b] \in Seq(Beats)
OBVIOUS

\* The states everything starts in have their types.
LEMMA IdleType ==
  /\ Idle \in Callers /\ Idle.pc = "idle" /\ Idle.st.done = FALSE /\ Idle.tries = 0 /\ NoStatus \in Statuses
  /\ IdleDma \in Transfers /\ IdleDma.busy = FALSE /\ Eof \in Beats
<1> DEFINE b0 == CHOOSE b \in Buffers : TRUE
<1>1. b0 \in Buffers
  BY CaptureAssumption
<1>2. 0 \in 0 .. MaxPolls /\ 0 \in 0 .. Attempts /\ 0 \in 0 .. 2 /\ N + 1 \in 1 .. N + 1
  BY CaptureAssumption
<1>3. /\ Idle = [pc |-> "idle", op |-> "none", buf |-> b0, cap |-> 0, polls |-> 0, tries |-> 0,
                 fr |-> 0, st |-> NoStatus, rc |-> "ok"]
      /\ IdleDma = [busy |-> FALSE, pending |-> FALSE, enabled |-> FALSE, done |-> FALSE,
                    eof |-> FALSE, err |-> FALSE, to |-> b0, len |-> 0]
  BY DEF Idle, IdleDma
<1> HIDE DEF b0
<1>4. NoStatus \in Statuses /\ NoStatus.done = FALSE
  BY DEF NoStatus, Statuses
<1>5. Idle \in Callers /\ Idle.pc = "idle" /\ Idle.st.done = FALSE /\ Idle.tries = 0
  BY <1>1, <1>2, <1>3, <1>4 DEF Callers, Steps, Results
<1>6. IdleDma \in Transfers /\ IdleDma.busy = FALSE
  BY <1>1, <1>3 DEF Transfers
<1> QED BY <1>2, <1>4, <1>5, <1>6 DEF Eof, Beats

\* The invariant holds at the start.
LEMMA InitInv == Init => CaptureInv
<1> SUFFICES ASSUME Init PROVE CaptureInv
  OBVIOUS
<1> USE DEF Init
<1>1. sensor \in Sensors
  <2>1. 1 \in 1 .. N + 1
    BY CaptureAssumption
  <2> QED BY <2>1 DEF Sensors
<1>2. calls \in 0 .. MaxCalls /\ drops \in 0 .. MaxDrops /\ frames \in 0 .. 2
  BY CaptureAssumption
<1>3. TypeOK
  <2>1. th \in [Threads -> Callers] /\ dma \in Transfers
    BY IdleType
  <2>2. fifo \in Seq(Beats) /\ mem \in [Buffers -> Seq(Beats)]
    OBVIOUS
  <2> QED BY <1>1, <1>2, <2>1, <2>2 DEF TypeOK
<1>4. \A t \in Threads : th[t].pc = "idle" /\ ~th[t].st.done /\ th[t].tries = 0
  BY IdleType
<1>5. ~dma.busy
  BY IdleType
<1>6. Safe
  BY <1>4, <1>5 DEF Safe, Sole, Apart, Unarmed, Untried, Rested, NoLateWrite, Calling
<1> QED BY <1>3, <1>6 DEF CaptureInv
-----------------------------------------------------------------------------
\* The core never starts the master, and nobody but the callers and a reset
\* tell it where to write.
LEMMA CoreStep ==
  ASSUME TypeOK, Core
  PROVE  TypeOK' /\ UNCHANGED sw /\ dma'.to = dma.to /\ (dma'.busy => dma.busy)
<1>0. /\ sensor \in Sensors /\ fifo \in Seq(Beats) /\ dma \in Transfers
      /\ frames \in 0 .. 2 /\ mem \in [Buffers -> Seq(Beats)] /\ drops \in 0 .. MaxDrops
      /\ Eof \in Beats
  BY IdleType DEF TypeOK
<1>1. CASE Sensor
  <2>1. sensor' \in Sensors
    <3>1. CASE sensor.at = N + 1
      <4>1. 1 \in 1 .. N + 1 /\ 1 - sensor.frame \in {0, 1}
        <5>1. sensor.frame = 0 \/ sensor.frame = 1
          BY <1>0, SensorFields
        <5> QED BY <5>1, CaptureAssumption
      <4> QED BY <1>0, <1>1, <3>1, <4>1, SensorType DEF Sensor
    <3>2. CASE sensor.at # N + 1
      <4>1. sensor.at + 1 \in 1 .. N + 1 /\ 0 \in {0, 1}
        BY <1>0, <3>2, SensorFields, CaptureAssumption
      <4> QED BY <1>0, <1>1, <3>2, <4>1, SensorType DEF Sensor
    <3> QED BY <3>1, <3>2
  <2>2. [frame |-> sensor.frame, pixel |-> sensor.at] \in Beats
    BY <1>0, SensorFields DEF Beats
  <2>3. fifo' \in Seq(Beats)
    BY <1>0, <1>1, <2>2, SeqType DEF Sensor
  <2>4. drops' \in 0 .. MaxDrops
    <3>1. drops' = drops \/ (drops < MaxDrops /\ drops' = drops + 1)
      BY <1>1 DEF Sensor
    <3> QED BY <1>0, <3>1, CaptureAssumption
  <2> QED BY <1>1, <2>1, <2>3, <2>4 DEF Sensor, sw, TypeOK
<1>2. CASE PopEof
  <2>1. fifo' \in Seq(Beats)
    BY <1>0, <1>2, SeqType DEF PopEof
  <2>2. mem' \in [Buffers -> Seq(Beats)]
    <3>1. <<>> \in Seq(Beats) /\ dma.to \in Buffers
      BY <1>0, DmaFields
    <3> QED BY <1>0, <1>2, <3>1, MemType DEF PopEof, Restart
  <2>3. frames' \in 0 .. 2
    BY <1>0, <1>2 DEF PopEof
  <2>4. dma' \in Transfers /\ dma'.to = dma.to /\ dma.busy
    BY <1>0, <1>2, DmaFields, DmaType DEF PopEof
  <2> QED BY <1>2, <2>1, <2>2, <2>3, <2>4 DEF PopEof, sw, TypeOK
<1>3. ASSUME NEW err \in BOOLEAN, PopPixel(err)
      PROVE  TypeOK' /\ UNCHANGED sw /\ dma'.to = dma.to /\ (dma'.busy => dma.busy)
  <2>1. fifo' \in Seq(Beats) /\ Head(fifo) \in Beats
    BY <1>0, <1>3, SeqType DEF PopPixel
  <2>2. /\ dma.to \in Buffers /\ <<>> \in Seq(Beats)
        /\ Append(mem[dma.to], Head(fifo)) \in Seq(Beats)
    <3>1. dma.to \in Buffers /\ mem[dma.to] \in Seq(Beats)
      BY <1>0, DmaFields
    <3> QED BY <2>1, <3>1, SeqType
  <2>3. mem' \in [Buffers -> Seq(Beats)]
    BY <1>0, <1>3, <2>2, MemType DEF PopPixel
  <2>4. dma' \in Transfers /\ dma'.to = dma.to /\ dma.busy
    <3>1. (dma.err \/ err) \in BOOLEAN /\ FALSE \in BOOLEAN
      OBVIOUS
    <3>2. \/ dma' = Ended(dma, FALSE, dma.err \/ err) \/ dma' = [dma EXCEPT !.err = @ \/ err]
      BY <1>3 DEF PopPixel
    <3> QED BY <1>0, <1>3, <3>1, <3>2, DmaType DEF PopPixel
  <2> QED BY <1>3, <2>1, <2>3, <2>4 DEF PopPixel, sw, TypeOK
<1> QED BY <1>1, <1>2, <1>3 DEF Core
-----------------------------------------------------------------------------
(* WHAT A CALLER'S STEP DOES TO THE THREADS *)

\* What the type says of a call.
LEMMA CallerFields ==
  ASSUME NEW r \in Callers
  PROVE  /\ r.pc \in Steps /\ r.op \in {"none", "photo", "frame", "raw"} /\ r.buf \in Buffers
         /\ r.cap \in Caps \cup {0} /\ r.polls \in 0 .. MaxPolls /\ r.tries \in 0 .. Attempts
         /\ r.fr \in 0 .. 2 /\ r.st \in Statuses /\ r.rc \in Results
BY DEF Callers

\* The updates a step makes to its call keep its type.
LEMMA CallerUpdate ==
  ASSUME NEW r \in Callers, NEW pc \in Steps, NEW rc \in Results, NEW st \in Statuses,
         NEW fr \in 0 .. 2, NEW polls \in 0 .. MaxPolls, NEW tries \in 0 .. Attempts
  PROVE  /\ [r EXCEPT !.pc = pc] \in Callers
         /\ [r EXCEPT !.pc = pc, !.fr = fr] \in Callers
         /\ [r EXCEPT !.pc = pc, !.st = st] \in Callers
         /\ [r EXCEPT !.pc = pc, !.polls = polls, !.tries = tries] \in Callers
         /\ [r EXCEPT !.pc = pc, !.rc = rc, !.polls = polls, !.fr = fr, !.st = st] \in Callers
BY DEF Callers

\* A step of one thread leaves the calls of the others.
LEMMA OneCaller ==
  ASSUME NEW f \in [Threads -> Callers], NEW t \in Threads, NEW r \in Callers
  PROVE  /\ [f EXCEPT ![t] = r] \in [Threads -> Callers] /\ [f EXCEPT ![t] = r][t] = r
         /\ \A u \in Threads \ {t} : [f EXCEPT ![t] = r][u] = f[u]
OBVIOUS

\* Others keep their state, whatever a caller does.
Others(t) == /\ th' \in [Threads -> Callers]
             /\ \A u \in Threads \ {t} : th'[u] = th[u]

\* Going on to the next step of a call changes nothing else of it.
LEMMA GotoStep ==
  ASSUME th \in [Threads -> Callers], NEW t \in Threads, NEW pc \in Steps, Goto(t, pc)
  PROVE  Others(t) /\ th'[t] = [th[t] EXCEPT !.pc = pc]
<1>1. th[t] \in Callers
  OBVIOUS
<1>2. [th[t] EXCEPT !.pc = pc] \in Callers
  BY <1>1, CallerFields, CallerUpdate
<1>3. th' = [th EXCEPT ![t] = [th[t] EXCEPT !.pc = pc]]
  BY DEF Goto
<1> QED BY <1>2, <1>3, OneCaller DEF Others

\* A call that ends forgets what it read.
LEMMA LeaveStep ==
  ASSUME th \in [Threads -> Callers], NEW t \in Threads, Leave(t)
  PROVE  Others(t) /\ th'[t] = Idle
BY IdleType, OneCaller DEF Leave, Others

\* A call that ends well keeps its buffer and forgets what it read.
LEMMA GoodStep ==
  ASSUME th \in [Threads -> Callers], NEW t \in Threads, Good(t)
  PROVE  /\ Others(t) /\ th'[t].pc = "ok" /\ th'[t].buf = th[t].buf /\ ~th'[t].st.done
         /\ th'[t].tries = 0
<1> DEFINE r == [Idle EXCEPT !.pc = "ok", !.op = th[t].op, !.buf = th[t].buf]
<1>1. th[t].op \in {"none", "photo", "frame", "raw"} /\ th[t].buf \in Buffers
  BY CallerFields
<1>2. r \in Callers /\ r.pc = "ok" /\ r.buf = th[t].buf /\ r.st = Idle.st /\ r.tries = 0
  BY <1>1, IdleType DEF Callers, Steps
<1>3. th' = [th EXCEPT ![t] = r]
  BY DEF Good
<1> HIDE DEF r
<1> QED BY <1>2, <1>3, IdleType, OneCaller DEF Others

\* What the register sequence up to CTRL_ENABLE does.
LEMMA ArmStep ==
  ASSUME TypeOK, NEW t \in Threads, Arm(t), th[t].tries < Attempts
  PROVE  /\ Others(t) /\ th'[t].pc = "poll" /\ th'[t].op = th[t].op /\ th'[t].buf = th[t].buf
         /\ th'[t].st = th[t].st /\ dma'.to = th[t].buf /\ dma' \in Transfers
         /\ fifo' \in Seq(Beats) /\ mem' \in [Buffers -> Seq(Beats)] /\ sensor' \in Sensors
         /\ frames' \in 0 .. 2 /\ en' \in BOOLEAN
<1>0. th[t] \in Callers /\ th \in [Threads -> Callers]
  BY DEF TypeOK
<1> DEFINE r == [th[t] EXCEPT !.pc = "poll", !.polls = 0, !.tries = th[t].tries + 1]
<1>1. "poll" \in Steps /\ 0 \in 0 .. MaxPolls /\ th[t].tries + 1 \in 0 .. Attempts
  BY <1>0, CallerFields, CaptureAssumption DEF Steps
<1>2. r \in Callers
  <2>1. th[t].rc \in Results /\ th[t].st \in Statuses /\ th[t].fr \in 0 .. 2
    BY <1>0, CallerFields
  <2> QED BY <1>0, <1>1, <2>1, CallerUpdate
<1>3. r.pc = "poll" /\ r.op = th[t].op /\ r.buf = th[t].buf /\ r.st = th[t].st
  BY <1>0 DEF Callers
<1>4. th' = [th EXCEPT ![t] = r]
  BY DEF Arm
<1>5. Others(t) /\ th'[t] = r
  <2> HIDE DEF r
  <2> QED BY <1>0, <1>2, <1>4, OneCaller DEF Others
<1>6. th[t].buf \in Buffers /\ th[t].cap \in Caps \cup {0}
  BY <1>0, CallerFields
<1>7. dma' \in Transfers /\ dma'.to = th[t].buf
  BY <1>6, IdleType DEF Arm, Transfers
<1>8. mem' \in [Buffers -> Seq(Beats)] /\ fifo' \in Seq(Beats)
  BY <1>6 DEF Arm, TypeOK
<1>9. sensor' \in Sensors
  <2>1. PICK at \in 1 .. N + 1 : sensor' = [sensor EXCEPT !.at = at, !.frame = 0]
    BY DEF Arm
  <2> QED BY <2>1, SensorType DEF TypeOK
<1> HIDE DEF r
<1> QED BY <1>3, <1>5, <1>7, <1>8, <1>9 DEF Arm
-----------------------------------------------------------------------------
(* THE INVARIANT, BY THE KIND OF STEP *)

Before == {"lock", "check", "setup", "busy?"}

\* A step inside a call that arms nothing.
LEMMA StayStep ==
  ASSUME TypeOK, Safe, NEW t \in Threads, Others(t), Calling(t), Calling(t)',
         th'[t].op = th[t].op, th'[t].buf = th[t].buf, retained' = retained,
         dma'.to = dma.to, dma'.busy => dma.busy,
         lock' = lock \/ (lock = "free" /\ lock' = t),
         th'[t].op = "photo" /\ th'[t].pc # "lock" => lock' = t,
         th'[t].pc \in Before => th[t].pc \in Before, th'[t].tries = th[t].tries,
         th'[t].pc \in {"lock", "check", "setup"} => th[t].op = "photo",
         th'[t].pc \notin {"read", "judge"} => ~th'[t].st.done,
         th'[t].pc \in {"read", "judge"} /\ Over(t)' => ~dma'.busy,
         th'[t].pc = "finish" /\ th'[t].rc # "timeout" => ~dma'.busy
  PROVE  Safe'
<1> USE DEF Safe, Others
<1>1. \A u \in Threads : Calling(u)' <=> Calling(u)
  BY DEF Calling
<1>2. \A u \in Threads : th'[u].op = th[u].op /\ th'[u].buf = th[u].buf
                        /\ (th'[u].pc # "idle" <=> th[u].pc # "idle")
  BY DEF Calling
<1>3. "free" \notin Threads
  BY CaptureAssumption
<1>4. Sole'
  BY <1>1, <1>2, <1>3 DEF Sole
<1>5. Apart'
  BY <1>2 DEF Apart
<1>6. Unarmed'
  BY <1>2 DEF Unarmed, Before
<1>7. Rested' /\ Untried'
  BY DEF Rested, Over, Untried, Before, Calling
<1>8. NoLateWrite'
  BY <1>1, <1>2 DEF NoLateWrite
<1> QED BY <1>4, <1>5, <1>6, <1>7, <1>8

\* The end of a call: its buffer is kept if the master may still write it.
LEMMA EndStep ==
  ASSUME TypeOK, Safe, NEW t \in Threads, Others(t), Calling(t),
         \/ th'[t].pc = "idle"
         \/ th'[t].pc = "ok" /\ th'[t].buf = th[t].buf /\ retained' = retained,
         ~th'[t].st.done, th'[t].tries = 0,
         dma'.to = dma.to, dma'.busy => dma.busy,
         retained' = retained \/ retained' = retained \cup {th[t].buf},
         dma'.busy /\ dma.to = th[t].buf => th[t].buf \in retained',
         \/ lock' = lock
         \/ lock' = "free" /\ th[t].op = "photo" /\ th[t].pc # "lock"
  PROVE  Safe'
<1> USE DEF Safe, Others
<1>1. ~Calling(t)' /\ \A u \in Threads \ {t} : (Calling(u)' <=> Calling(u)) /\ th'[u] = th[u]
  BY DEF Calling
<1>2. Sole'
  BY <1>1, CaptureAssumption DEF Sole
<1>3. Apart'
  BY <1>1 DEF Apart, Calling
<1>4. Unarmed'
  BY <1>1 DEF Unarmed
<1>5. Rested' /\ Untried'
  BY <1>1 DEF Rested, Over, Untried
<1>6. NoLateWrite'
  BY <1>1 DEF NoLateWrite
<1> QED BY <1>2, <1>3, <1>4, <1>5, <1>6

\* The master is armed on a buffer of the one call that may arm it.
LEMMA ArmedStep ==
  ASSUME TypeOK, Safe, NEW t \in Threads, Others(t), Calling(t), th[t].pc # "lock",
         th[t].pc \notin {"read", "judge"},
         th'[t].pc = "poll", th'[t].op = th[t].op, th'[t].buf = th[t].buf,
         th'[t].st = th[t].st, retained' = retained, lock' = lock,
         dma'.to = th[t].buf
  PROVE  Safe'
<1> USE DEF Safe, Others
<1>1. \A u \in Threads : Calling(u)' <=> Calling(u)
  BY DEF Calling
<1>2. \A u \in Threads : th'[u].op = th[u].op /\ th'[u].buf = th[u].buf
                        /\ (th'[u].pc # "idle" <=> th[u].pc # "idle")
  BY DEF Calling
<1>3. Sole'
  BY <1>1, <1>2 DEF Sole
<1>4. Apart'
  BY <1>2 DEF Apart
<1>5. Unarmed'
  BY <1>2 DEF Unarmed, Apart, Calling
<1>6. \A u \in Threads \ {t} : th[u].pc \notin {"read", "judge", "finish"}
  BY DEF Sole, Calling
<1>7. Rested' /\ Untried'
  BY <1>6 DEF Rested, Over, Untried
<1>8. NoLateWrite'
  BY <1>1, <1>2 DEF NoLateWrite
<1> QED BY <1>3, <1>4, <1>5, <1>7, <1>8
-----------------------------------------------------------------------------
(* THE ACTIONS *)

\* What the types say of a thread and the core.
LEMMA Basics ==
  ASSUME TypeOK, NEW t \in Threads
  PROVE  /\ th \in [Threads -> Callers] /\ th[t] \in Callers /\ dma \in Transfers
         /\ sensor \in Sensors /\ Status \in Statuses /\ Status.done = dma.done
         /\ Status.busy = dma.busy /\ 1 \in 1 .. N + 1 /\ th[t].buf \in Buffers
<1>1. th \in [Threads -> Callers] /\ th[t] \in Callers /\ dma \in Transfers /\ sensor \in Sensors
  BY DEF TypeOK
<1>2. Status \in Statuses
  BY <1>1, DmaFields DEF Status, Statuses
<1>3. th[t].buf \in Buffers
  BY <1>1, CallerFields
<1> QED BY <1>1, <1>2, <1>3, CaptureAssumption DEF Status

\* Turning the capture off keeps the sensor's type.
LEMMA CaptureOffType ==
  ASSUME NEW b \in BOOLEAN, CaptureOff(b)
  PROVE  sensor' \in Sensors /\ en' \in BOOLEAN
<1>1. 1 \in 1 .. N + 1
  BY CaptureAssumption
<1> QED BY <1>1 DEF CaptureOff, Sensors

\* A photo takes the lock.
LEMMA TakeLockStep ==
  ASSUME TypeOK, Safe, NEW t \in Threads, TakeLock(t)
  PROVE  TypeOK' /\ Safe'
<1>1. "check" \in Steps /\ Goto(t, "check") /\ th[t].pc = "lock"
  BY DEF TakeLock, Steps
<1>2. Others(t) /\ th'[t] = [th[t] EXCEPT !.pc = "check"]
  BY <1>1, GotoStep, Basics
<1>3. /\ th'[t].pc = "check" /\ th'[t].op = th[t].op /\ th'[t].buf = th[t].buf
      /\ th'[t].st = th[t].st /\ th'[t].tries = th[t].tries
  BY <1>2, Basics DEF Callers
<1>4. TypeOK'
  BY <1>2 DEF TakeLock, TypeOK, Others, hw
<1>5. /\ lock = "free" /\ lock' = t /\ retained' = retained /\ dma' = dma
      /\ Calling(t) /\ Calling(t)' /\ ~th[t].st.done /\ th[t].op = "photo"
  BY <1>1, <1>3 DEF TakeLock, hw, Calling, Safe, Rested, Sole
<1>6. Safe'
  BY <1>1, <1>2, <1>3, <1>5, StayStep DEF Before
<1> QED BY <1>4, <1>6

\* The check of reset_required, under the lock.
LEMMA CheckStep ==
  ASSUME TypeOK, Safe, NEW t \in Threads, Check(t)
  PROVE  TypeOK' /\ Safe'
<1>0. th[t].pc = "check" /\ th[t].op = "photo" /\ Calling(t) /\ lock = t /\ ~th[t].st.done
  BY DEF Check, Safe, Sole, Calling, Rested
<1>1. CASE resetReq
  <2>1. /\ Leave(t) /\ retained' = retained \cup {th[t].buf}
        /\ lock' = "free" /\ dma' = dma /\ en' = en
    BY <1>1 DEF Check
  <2>2. Others(t) /\ th'[t] = Idle
    BY <2>1, LeaveStep, Basics
  <2>3. TypeOK'
    BY <1>1, <2>1, <2>2, Basics DEF Check, TypeOK, Others
  <2>4. Safe'
    BY <1>0, <2>1, <2>2, IdleType, EndStep
  <2> QED BY <2>3, <2>4
<1>2. CASE ~resetReq
  <2>1. Goto(t, "setup") /\ "setup" \in Steps /\ retained' = retained /\ lock' = lock /\ dma' = dma
        /\ en' = TRUE
    BY <1>2 DEF Check, Steps
  <2>2. Others(t) /\ th'[t] = [th[t] EXCEPT !.pc = "setup"]
    BY <2>1, GotoStep, Basics
  <2>3. /\ th'[t].pc = "setup" /\ th'[t].op = th[t].op /\ th'[t].buf = th[t].buf
        /\ th'[t].st = th[t].st /\ th'[t].tries = th[t].tries
    BY <2>2, Basics DEF Callers
  <2>4. TypeOK'
    BY <1>2, <2>1, <2>2 DEF Check, TypeOK, Others
  <2>5. Safe'
    BY <1>0, <2>1, <2>2, <2>3, StayStep DEF Before, Calling
  <2> QED BY <2>4, <2>5
<1> QED BY <1>1, <1>2

\* The set-up of the sensor, under the lock.
LEMMA SetupStep ==
  ASSUME TypeOK, Safe, NEW t \in Threads, Setup(t)
  PROVE  TypeOK' /\ Safe'
<1>0. /\ th[t].pc = "setup" /\ th[t].op = "photo" /\ Calling(t) /\ lock = t /\ ~th[t].st.done
      /\ dma' = dma /\ retained' = retained
  BY DEF Setup, Safe, Sole, Calling, Rested
<1>1. CASE Leave(t) /\ lock' = "free" /\ sensor' = sensor
  <2>1. Others(t) /\ th'[t] = Idle
    BY <1>1, LeaveStep, Basics
  <2>2. dma.busy => dma.to # th[t].buf
    BY <1>0 DEF Safe, Unarmed
  <2>3. Safe'
    BY <1>0, <1>1, <2>1, <2>2, IdleType, EndStep
  <2> QED BY <1>1, <2>1, <2>3 DEF Setup, TypeOK, Others
<1>2. CASE Goto(t, "busy?") /\ sensor' = [sensor EXCEPT !.on = TRUE] /\ lock' = lock
  <2>1. Others(t) /\ th'[t] = [th[t] EXCEPT !.pc = "busy?"]
    BY <1>2, GotoStep, Basics DEF Steps
  <2>2. /\ th'[t].pc = "busy?" /\ th'[t].op = th[t].op /\ th'[t].buf = th[t].buf
        /\ th'[t].st = th[t].st /\ th'[t].tries = th[t].tries
    BY <2>1, Basics DEF Callers
  <2>3. sensor' \in Sensors
    BY <1>2, Basics DEF Sensors
  <2>4. Safe'
    BY <1>0, <1>2, <2>1, <2>2, StayStep DEF Before, Calling
  <2> QED BY <1>2, <2>1, <2>3, <2>4 DEF Setup, TypeOK, Others
<1> QED BY <1>1, <1>2 DEF Setup

\* A call arms the master on its own buffer.
LEMMA StartStep ==
  ASSUME TypeOK, Safe, NEW t \in Threads, StartCapture(t)
  PROVE  TypeOK' /\ Safe'
<1>0. /\ th[t].pc = "busy?" /\ Calling(t) /\ Arm(t) /\ th[t].tries = 0
      /\ UNCHANGED <<lock, resetReq, retained, calls, drops>>
  BY DEF StartCapture, Calling, Safe, Untried
<1>1. th[t].tries < Attempts
  BY <1>0, CaptureAssumption
<1>2. /\ Others(t) /\ th'[t].pc = "poll" /\ th'[t].op = th[t].op /\ th'[t].buf = th[t].buf
      /\ th'[t].st = th[t].st /\ dma'.to = th[t].buf /\ dma' \in Transfers
      /\ fifo' \in Seq(Beats) /\ mem' \in [Buffers -> Seq(Beats)] /\ sensor' \in Sensors
      /\ frames' \in 0 .. 2 /\ en' \in BOOLEAN
  BY <1>0, <1>1, ArmStep
<1>3. Safe'
  BY <1>0, <1>2, ArmedStep
<1> QED BY <1>0, <1>2, <1>3 DEF TypeOK, Others

\* A call that finds the master busy gives it up and keeps its buffer back.
LEMMA RefuseStep ==
  ASSUME TypeOK, Safe, NEW t \in Threads, RefuseBusy(t)
  PROVE  TypeOK' /\ Safe'
<1>0. /\ th[t].pc = "busy?" /\ Calling(t) /\ Leave(t) /\ dma' = dma
      /\ retained' = retained \cup {th[t].buf}
      /\ lock' = lock \/ (lock' = "free" /\ th[t].op = "photo")
      /\ sensor' = sensor \/ sensor' = [sensor EXCEPT !.on = FALSE]
      /\ resetReq' = resetReq \/ resetReq' = TRUE
  BY DEF RefuseBusy, Calling
<1>1. Others(t) /\ th'[t] = Idle
  BY <1>0, LeaveStep, Basics
<1>2. sensor' \in Sensors
  BY <1>0, Basics DEF Sensors
<1>3. Safe'
  BY <1>0, <1>1, IdleType, EndStep
<1> QED BY <1>0, <1>1, <1>2, <1>3, Basics DEF RefuseBusy, TypeOK, Others

\* What a call has read of the master.
LEMMA ReadStep ==
  ASSUME TypeOK, Safe, NEW t \in Threads, ReadFirst(t) \/ ReadSecond(t)
  PROVE  TypeOK' /\ Safe'
<1> DEFINE pc == IF th[t].pc = "poll" THEN "read" ELSE "judge"
<1>0. /\ th[t].pc \in {"poll", "read"} /\ Calling(t)
      /\ UNCHANGED <<hw, lock, resetReq, retained, calls, drops>>
      /\ pc \in Steps /\ pc \in {"read", "judge"}
  BY DEF ReadFirst, ReadSecond, Calling, Steps
<1>1. CASE th' = [th EXCEPT ![t] = [th[t] EXCEPT !.pc = pc, !.fr = frames]]
           /\ (th[t].pc = "poll" <=> th[t].op = "photo")
  <2>1. [th[t] EXCEPT !.pc = pc, !.fr = frames] \in Callers
    <3> HIDE DEF pc
    <3>1. frames \in 0 .. 2
      BY DEF TypeOK
    <3> QED BY <1>0, <3>1, Basics DEF Callers
  <2>2. Others(t) /\ th'[t] = [th[t] EXCEPT !.pc = pc, !.fr = frames]
    BY <1>1, <2>1, Basics, OneCaller DEF Others
  <2>3. /\ th'[t].pc = pc /\ th'[t].op = th[t].op /\ th'[t].buf = th[t].buf
        /\ th'[t].st = th[t].st /\ th'[t].tries = th[t].tries
    BY <2>2, Basics DEF Callers
  <2> HIDE DEF pc
  <2>4. Over(t)' => ~dma'.busy
    BY <1>0, <2>3 DEF Over, Safe, Rested, hw
  <2>5. Safe'
    BY <1>0, <2>2, <2>3, <2>4, StayStep DEF Before, Calling, hw, Safe, Sole
  <2> QED BY <1>0, <2>2, <2>5 DEF TypeOK, Others, hw
<1>2. CASE th' = [th EXCEPT ![t] = [th[t] EXCEPT !.pc = pc, !.st = Status]]
  <2>1. [th[t] EXCEPT !.pc = pc, !.st = Status] \in Callers
    <3> HIDE DEF pc
    <3> QED BY <1>0, Basics DEF Callers
  <2>2. Others(t) /\ th'[t] = [th[t] EXCEPT !.pc = pc, !.st = Status]
    BY <1>2, <2>1, Basics, OneCaller DEF Others
  <2>3. /\ th'[t].pc = pc /\ th'[t].op = th[t].op /\ th'[t].buf = th[t].buf
        /\ th'[t].st = Status /\ th'[t].tries = th[t].tries
    BY <2>2, Basics DEF Callers
  <2> HIDE DEF pc
  <2>4. Over(t)' => ~dma'.busy
    BY <1>0, <2>3, Basics DEF Over, hw
  <2>5. Safe'
    BY <1>0, <2>2, <2>3, <2>4, StayStep DEF Before, Calling, hw, Safe, Sole
  <2> QED BY <1>0, <2>2, <2>5 DEF TypeOK, Others, hw
<1>3. \/ th' = [th EXCEPT ![t] = [th[t] EXCEPT !.pc = pc, !.fr = frames]]
         /\ (th[t].pc = "poll" <=> th[t].op = "photo")
      \/ th' = [th EXCEPT ![t] = [th[t] EXCEPT !.pc = pc, !.st = Status]]
  BY DEF ReadFirst, ReadSecond
<1> QED BY <1>1, <1>2, <1>3

\* A call judges what it read.
LEMMA JudgeStep ==
  ASSUME TypeOK, Safe, NEW t \in Threads, Judge(t)
  PROVE  TypeOK' /\ Safe'
<1> DEFINE next == IF Outcome(t) # "none" THEN Outcome(t)
                   ELSE IF PolledOut(t) THEN "timeout" ELSE "again"
           pc    == IF next = "again" THEN "poll" ELSE "finish"
           polls == IF th[t].polls < MaxPolls THEN th[t].polls + 1 ELSE th[t].polls
           r     == [th[t] EXCEPT !.pc = pc, !.rc = next, !.polls = polls, !.fr = 0, !.st = NoStatus]
<1>0. /\ th[t].pc = "judge" /\ Calling(t) /\ th' = [th EXCEPT ![t] = r]
      /\ UNCHANGED <<hw, lock, resetReq, retained, calls, drops>>
  BY DEF Judge, Calling
<1>1. /\ next \in Results /\ (next \notin {"timeout", "again"} => Over(t))
  <2>1. Outcome(t) \in {"none", "bus error", "truncated", "ok"}
        /\ (Outcome(t) # "none" => Over(t))
    BY DEF Outcome
  <2> HIDE DEF Outcome
  <2> QED BY <2>1 DEF Results
<1>2. polls \in 0 .. MaxPolls
  <2>1. th[t].polls \in 0 .. MaxPolls
    BY Basics, CallerFields
  <2> QED BY <2>1, CaptureAssumption
<1> HIDE DEF next, polls
<1>3. pc \in Steps /\ pc \in {"poll", "finish"} /\ 0 \in 0 .. 2
  BY DEF Steps
<1>4. r \in Callers
  <2>1. th[t].tries \in 0 .. Attempts /\ th[t] \in Callers
    BY Basics, CallerFields
  <2> HIDE DEF pc
  <2> QED BY <1>1, <1>2, <1>3, <2>1, IdleType DEF Callers
<1>5. /\ r.pc = pc /\ r.op = th[t].op /\ r.buf = th[t].buf /\ r.st = NoStatus
      /\ r.tries = th[t].tries /\ r.rc = next
  <2> HIDE DEF pc
  <2> QED BY Basics DEF Callers
<1>6. pc = "finish" /\ next # "timeout" => ~dma.busy
  BY <1>0, <1>1 DEF Safe, Rested
<1> HIDE DEF r, pc
<1>7. Others(t) /\ th'[t] = r
  BY <1>0, <1>4, Basics, OneCaller DEF Others
<1>8. NoStatus.done = FALSE
  BY DEF NoStatus
<1>9. Safe'
  BY <1>0, <1>3, <1>5, <1>6, <1>7, <1>8, StayStep DEF Before, Calling, hw, Safe, Sole
<1> QED BY <1>0, <1>7, <1>9 DEF TypeOK, Others, hw

\* A photo ends: a buffer the master may still write is retained.
LEMMA FinishPhotoStep ==
  ASSUME TypeOK, Safe, NEW t \in Threads, FinishPhoto(t)
  PROVE  TypeOK' /\ Safe'
<1>0. /\ th[t].pc = "finish" /\ th[t].op = "photo" /\ Calling(t) /\ CaptureOff(FALSE)
      /\ dma' = [dma EXCEPT !.enabled = FALSE] /\ lock' = "free" /\ resetReq' = NeedsReset(t)
      /\ retained' = retained \cup (IF NeedsReset(t) THEN {th[t].buf} ELSE {})
      /\ \/ th[t].rc = "ok" /\ Good(t)
         \/ Leave(t)
      /\ UNCHANGED <<fifo, frames, mem, calls, drops>>
  BY DEF FinishPhoto, Calling
<1>1. /\ Others(t) /\ ~th'[t].st.done /\ th'[t].tries = 0
      /\ \/ th'[t].pc = "idle"
         \/ th'[t].pc = "ok" /\ th'[t].buf = th[t].buf /\ retained' = retained
  BY <1>0, LeaveStep, GoodStep, IdleType, Basics DEF NeedsReset
<1>2. dma' \in Transfers /\ dma'.to = dma.to /\ dma'.busy = dma.busy
  BY <1>0, DmaType, Basics
<1>3. dma.busy => th[t].rc # "ok"
  BY <1>0 DEF Safe, Rested
<1>4. Safe'
  BY <1>0, <1>1, <1>2, <1>3, EndStep DEF NeedsReset
<1>5. sensor' \in Sensors /\ en' \in BOOLEAN
  BY <1>0, CaptureOffType
<1> QED BY <1>0, <1>1, <1>2, <1>4, <1>5, Basics DEF TypeOK, Others, NeedsReset

\* A frame diagnostic ends or tries again.
LEMMA FinishFrameStep ==
  ASSUME TypeOK, Safe, NEW t \in Threads, FinishFrame(t)
  PROVE  TypeOK' /\ Safe'
<1>0. /\ th[t].pc = "finish" /\ Calling(t) /\ UNCHANGED <<lock, resetReq, calls, drops>>
      /\ (th[t].rc # "timeout" => ~dma.busy)
  BY DEF FinishFrame, Calling, Safe, Rested
<1>1. CASE /\ UNCHANGED <<fifo, dma, frames, mem>>
           /\ Leave(t) \/ Good(t)
           /\ \/ UNCHANGED <<sensor, en>>
              \/ CaptureOff(sensor.on)
           /\ \/ retained' = retained \cup {th[t].buf} /\ Leave(t)
              \/ retained' = retained /\ th[t].rc # "timeout"
  <2>1. /\ Others(t) /\ ~th'[t].st.done /\ th'[t].tries = 0
        /\ \/ th'[t].pc = "idle"
           \/ th'[t].pc = "ok" /\ th'[t].buf = th[t].buf /\ ~Leave(t)
    BY <1>1, LeaveStep, GoodStep, IdleType, Basics
  <2>2. Safe'
    BY <1>0, <1>1, <2>1, EndStep
  <2>3. sensor' \in Sensors /\ en' \in BOOLEAN
    BY <1>1, CaptureOffType, SensorFields, Basics DEF TypeOK
  <2> QED BY <1>0, <1>1, <2>1, <2>2, <2>3, Basics DEF TypeOK, Others
<1>2. CASE Arm(t) /\ th[t].tries < Attempts /\ retained' = retained
  <2>1. /\ Others(t) /\ th'[t].pc = "poll" /\ th'[t].op = th[t].op /\ th'[t].buf = th[t].buf
        /\ th'[t].st = th[t].st /\ dma'.to = th[t].buf /\ dma' \in Transfers
        /\ fifo' \in Seq(Beats) /\ mem' \in [Buffers -> Seq(Beats)] /\ sensor' \in Sensors
        /\ frames' \in 0 .. 2 /\ en' \in BOOLEAN
    BY <1>2, ArmStep
  <2>2. Safe'
    BY <1>0, <1>2, <2>1, ArmedStep
  <2> QED BY <1>0, <1>2, <2>1, <2>2 DEF TypeOK, Others
<1> QED BY <1>1, <1>2 DEF FinishFrame, hw

\* A raw diagnostic ends.
LEMMA FinishRawStep ==
  ASSUME TypeOK, Safe, NEW t \in Threads, FinishRaw(t)
  PROVE  TypeOK' /\ Safe'
<1>0. /\ th[t].pc = "finish" /\ Calling(t) /\ CaptureOff(sensor.on)
      /\ (th[t].rc # "timeout" => ~dma.busy)
      /\ \/ th[t].rc = "ok" /\ Good(t)
         \/ Leave(t)
      /\ retained' = retained \cup (IF th[t].rc = "timeout" THEN {th[t].buf} ELSE {})
      /\ UNCHANGED <<fifo, dma, frames, mem, lock, resetReq, calls, drops>>
  BY DEF FinishRaw, Calling, Safe, Rested
<1>1. /\ Others(t) /\ ~th'[t].st.done /\ th'[t].tries = 0
      /\ \/ th'[t].pc = "idle"
         \/ th'[t].pc = "ok" /\ th'[t].buf = th[t].buf /\ retained' = retained
  BY <1>0, LeaveStep, GoodStep, IdleType, Basics
<1>2. Safe'
  BY <1>0, <1>1, EndStep
<1>3. sensor' \in Sensors /\ en' \in BOOLEAN
  BY <1>0, CaptureOffType, SensorFields, Basics
<1> QED BY <1>0, <1>1, <1>2, <1>3, Basics DEF TypeOK, Others

\* A call begins with a buffer that is free.
LEMMA BeginStep ==
  ASSUME TypeOK, Safe, NEW t \in Threads, Begin(t)
  PROVE  TypeOK' /\ Safe'
<1> DEFINE b == CHOOSE x \in Free : TRUE
<1>1. PICK op \in {"photo", "frame", "raw"}, c \in Caps :
        /\ Alone(t, op)
        /\ th' = [th EXCEPT ![t].op = op, ![t].buf = b, ![t].cap = c,
                            ![t].pc = IF op = "photo" THEN "lock" ELSE "busy?"]
        /\ sensor' = [sensor EXCEPT !.on = (sensor.on \/ op # "photo")]
  BY DEF Begin
<1>0. b \in Free
  BY DEF Begin
<1> HIDE DEF b
<1> DEFINE r == [th[t] EXCEPT !.op = op, !.buf = b, !.cap = c,
                              !.pc = IF op = "photo" THEN "lock" ELSE "busy?"]
<1>2. /\ th[t].pc = "idle" /\ calls < MaxCalls /\ calls' = calls + 1
      /\ UNCHANGED <<en, fifo, dma, frames, mem, lock, resetReq, retained, drops>>
  BY DEF Begin
<1>3. /\ b \in Buffers /\ b \notin retained
      /\ \A u \in Threads : th[u].pc # "idle" => th[u].buf # b
  BY <1>0 DEF Free
<1>4. /\ r \in Callers /\ r.op = op /\ r.buf = b /\ r.st = th[t].st /\ r.tries = th[t].tries
      /\ r.pc = (IF op = "photo" THEN "lock" ELSE "busy?")
  BY ZenonT(30), <1>3, Basics DEF Callers, Steps
<1>5. Others(t) /\ th'[t] = r
  <2>1. th' = [th EXCEPT ![t] = r]
    BY <1>1
  <2> HIDE DEF r
  <2> QED BY <1>4, <2>1, Basics, OneCaller DEF Others
<1> HIDE DEF r
<1>6. ~Calling(t) /\ Calling(t)' /\ \A u \in Threads \ {t} : Calling(u)' <=> Calling(u)
  BY <1>2, <1>4, <1>5 DEF Calling, Others
<1>7. Sole'
  BY <1>1, <1>2, <1>4, <1>5, <1>6 DEF Safe, Sole, Alone, Others
<1>8. Apart'
  BY <1>2, <1>3, <1>4, <1>5 DEF Safe, Apart, Others
<1>9. Unarmed'
  <2>1. dma.busy => dma.to # b
    BY <1>3 DEF Safe, NoLateWrite, Calling
  <2> QED BY <1>2, <1>4, <1>5, <2>1 DEF Safe, Unarmed, Others
<1>10. Untried' /\ Rested'
  BY <1>2, <1>4, <1>5 DEF Safe, Untried, Rested, Over, Others
<1>11. NoLateWrite'
  <2>1. \A u \in Threads : Calling(u) => Calling(u)' /\ th'[u] = th[u]
    BY <1>5, <1>6 DEF Others
  <2> QED BY <1>2, <2>1 DEF Safe, NoLateWrite
<1>12. sensor' \in Sensors
  <2>1. (sensor.on \/ op # "photo") \in BOOLEAN
    BY Basics, SensorFields
  <2> QED BY <1>1, <2>1, Basics, SensorType, CaptureAssumption
<1>13. calls' \in 0 .. MaxCalls
  BY <1>2, CaptureAssumption DEF TypeOK
<1> QED BY <1>2, <1>5, <1>7, <1>8, <1>9, <1>10, <1>11, <1>12, <1>13 DEF TypeOK, Safe, Others

\* The caller is done with a frame.
LEMMA UseStep ==
  ASSUME TypeOK, Safe, NEW t \in Threads, Use(t)
  PROVE  TypeOK' /\ Safe'
<1>0. /\ th[t].pc = "ok" /\ Leave(t) /\ mem' = [mem EXCEPT ![th[t].buf] = <<>>]
      /\ UNCHANGED <<sensor, en, fifo, dma, frames, lock, resetReq, retained, calls, drops>>
  BY DEF Use
<1>1. Others(t) /\ th'[t] = Idle
  BY <1>0, LeaveStep, Basics
<1>2. mem' \in [Buffers -> Seq(Beats)]
  BY <1>0, Basics DEF TypeOK
<1>3. \A u \in Threads : (Calling(u)' <=> Calling(u)) /\ (Calling(u) => th'[u] = th[u])
  BY <1>0, <1>1, IdleType DEF Calling, Others
<1>4. Safe'
  BY <1>0, <1>1, <1>3, IdleType
     DEF Safe, Sole, Apart, Unarmed, Untried, Rested, NoLateWrite, Over, Others
<1> QED BY <1>0, <1>1, <1>2, <1>4 DEF TypeOK, Others

\* A reset of the board starts everything over.
LEMMA ResetStep ==
  ASSUME TypeOK, Reset
  PROVE  TypeOK' /\ Safe'
<1>1. /\ sensor' \in Sensors /\ en' \in BOOLEAN
  BY CaptureOffType, SensorFields DEF Reset, TypeOK
<1>2. /\ th' = [t \in Threads |-> Idle] /\ dma' = IdleDma /\ fifo' = <<>> /\ frames' = 0
      /\ mem' = [b \in Buffers |-> <<>>] /\ lock' = "free" /\ resetReq' = FALSE
      /\ retained' = {} /\ UNCHANGED <<calls, drops>>
  BY DEF Reset
<1>3. th' \in [Threads -> Callers] /\ mem' \in [Buffers -> Seq(Beats)] /\ fifo' \in Seq(Beats)
  BY <1>2, IdleType
<1>4. Safe'
  BY <1>2, IdleType DEF Safe, Sole, Apart, Unarmed, Untried, Rested, NoLateWrite, Calling
<1>5. TypeOK'
  <2>1. dma' \in Transfers
    BY <1>2, IdleType
  <2>3. frames' \in 0 .. 2 /\ lock' \in Threads \cup {"free"}
    BY <1>2
  <2>4. resetReq' \in BOOLEAN /\ retained' \subseteq Buffers
    BY <1>2
  <2>2. calls' \in 0 .. MaxCalls /\ drops' \in 0 .. MaxDrops
    BY <1>2 DEF TypeOK
  <2> QED BY <1>1, <1>3, <2>1, <2>2, <2>3, <2>4 DEF TypeOK
<1> QED BY <1>4, <1>5

\* Every step keeps the invariant.
LEMMA InvStep == CaptureInv /\ [Next]_vars => CaptureInv'
<1> SUFFICES ASSUME TypeOK, Safe, [Next]_vars PROVE TypeOK' /\ Safe'
  BY DEF CaptureInv
<1>1. CASE Core
  <2>1. TypeOK' /\ UNCHANGED sw /\ dma'.to = dma.to /\ (dma'.busy => dma.busy)
    BY <1>1, CoreStep
  <2>2. Safe'
    BY <2>1 DEF Safe, Sole, Apart, Unarmed, Untried, Rested, NoLateWrite, Over, Calling, sw
  <2> QED BY <2>1, <2>2
<1>2. ASSUME NEW t \in Threads, Begin(t) \/ Use(t) PROVE TypeOK' /\ Safe'
  BY <1>2, BeginStep, UseStep
<1>3. ASSUME NEW t \in Threads, Caller(t) PROVE TypeOK' /\ Safe'
  BY <1>3, TakeLockStep, CheckStep, SetupStep, StartStep, RefuseStep, ReadStep, JudgeStep,
     FinishPhotoStep, FinishFrameStep, FinishRawStep DEF Caller
<1>4. CASE Reset
  BY <1>4, ResetStep
<1>5. CASE UNCHANGED vars
  BY <1>5 DEF vars, hw, sw, TypeOK, Safe, Sole, Apart, Unarmed, Untried, Rested, NoLateWrite,
              Over, Calling
<1> QED BY <1>1, <1>2, <1>3, <1>4, <1>5 DEF Next
-----------------------------------------------------------------------------
(* THE THEOREMS *)

\* The invariant the others rest on.
THEOREM CaptureHolds == Spec => []CaptureInv
BY InitInv, InvStep, PTL DEF Spec

\* Every variable keeps its type: no call polls or tries beyond its limit.
THEOREM TypeCorrect == Spec => []TypeOK
<1>1. CaptureInv => TypeOK
  BY DEF CaptureInv
<1> QED BY <1>1, CaptureHolds, PTL

\* The master, which nothing can abort, is only ever armed on the buffer of a
\* call in progress or on one that its caller was told to keep, whatever the
\* sensor does, however many calls there are and however short the poll limit.
THEOREM NoLateWriteHolds == Spec => []NoLateWrite
<1>1. CaptureInv => NoLateWrite
  BY DEF CaptureInv, Safe
<1> QED BY <1>1, CaptureHolds, PTL
-----------------------------------------------------------------------------
(* WHAT THE SECOND TRANSFER SEES                                           *)
(*                                                                         *)
(* What it has written followed by what waits in the line buffer is what   *)
(* the sensor sent since a marker, except for the beats lost.  With as     *)
(* many pixels as a frame before the next marker it is a frame: a shorter  *)
(* loss than a frame and its marker shows as a wrong number of pixels.     *)

Pixel(f, i) == [frame |-> f, pixel |-> i]
Marked(S)   == \E i \in 1 .. Len(S) : S[i] = Eof

\* Nothing lost: the pixels of one frame and its marker, up to the sensor's
\* next beat.
Exact(S, at, f) == \E g \in {0, 1} :
  /\ \A i \in 1 .. Len(S) : i <= N => S[i] = Pixel(g, i)
  /\ Len(S) > N => S[N + 1] = Eof
  /\ Len(S) <= N => at = Len(S) + 1 /\ f = g

\* Something lost: the marker comes early, or the sensor is ahead in the first
\* frame or in the second, or the marker comes late.
Short(S)         == \E i \in 1 .. Len(S) : i <= N /\ S[i] = Eof
Lost(S, at, d)   == ~Marked(S) /\ Len(S) < at - 1 /\ at - 1 - Len(S) <= d
Merged(S, at, d) == ~Marked(S) /\ N + at - Len(S) <= d
Long(S)          == Len(S) > N /\ \A i \in 1 .. N + 1 : S[i] # Eof

\* The sequence S with the sensor's next beat, its frame, and d beats lost.
Shape(S, at, f, d) ==
  \/ Exact(S, at, f)
  \/ d > 0 /\ (Short(S) \/ Lost(S, at, d) \/ Merged(S, at, d) \/ Long(S))

\* The sensor's next beat, and what it sends after it.
Beat(at, f)      == IF at = N + 1 THEN Eof ELSE Pixel(f, at)
NextAt(at)       == IF at = N + 1 THEN 1 ELSE at + 1
NextFrame(at, f) == IF at = N + 1 THEN 1 - f ELSE f

\* The sensor starts a frame after a marker.
LEMMA ShapeStart == ASSUME NEW f \in {0, 1}, NEW d PROVE Shape(<<>>, 1, f, d)
BY CaptureAssumption DEF Shape, Exact

\* What can be said of a beat.
LEMMA BeatFacts ==
  ASSUME NEW at \in 1 .. N + 1, NEW f \in {0, 1}
  PROVE  /\ Beat(at, f) \in Beats /\ (Beat(at, f) = Eof <=> at = N + 1)
         /\ NextAt(at) \in 1 .. N + 1 /\ NextFrame(at, f) \in {0, 1}
         /\ at = N + 1 => NextAt(at) = 1
         /\ at # N + 1 => NextAt(at) = at + 1 /\ NextFrame(at, f) = f
                          /\ Beat(at, f) = Pixel(f, at)
<1>1. N \in Nat /\ N > 0
  BY CaptureAssumption
<1>2. CASE at = N + 1
  BY <1>1, <1>2 DEF Beat, NextAt, NextFrame, Beats, Eof
<1>3. CASE at # N + 1
  BY <1>1, <1>3 DEF Beat, NextAt, NextFrame, Beats, Eof, Pixel
<1> QED BY <1>2, <1>3

\* A beat joins the line buffer.
LEMMA ShapeAppend ==
  ASSUME NEW S \in Seq(Beats), NEW at \in 1 .. N + 1, NEW f \in {0, 1}, NEW d \in Nat,
         d <= N, Shape(S, at, f, d)
  PROVE  Shape(Append(S, Beat(at, f)), NextAt(at), NextFrame(at, f), d)
<1> DEFINE b == Beat(at, f)
           T == Append(S, b)
           nat == NextAt(at)
           nf == NextFrame(at, f)
<1>1. /\ Len(T) = Len(S) + 1 /\ T[Len(S) + 1] = b /\ \A i \in 1 .. Len(S) : T[i] = S[i]
      /\ Len(S) \in Nat /\ N \in Nat /\ N > 0
  BY BeatFacts, CaptureAssumption
<1>2. /\ b \in Beats /\ (b = Eof <=> at = N + 1)
      /\ nat \in 1 .. N + 1 /\ nf \in {0, 1}
      /\ at = N + 1 => nat = 1
      /\ at # N + 1 => nat = at + 1 /\ nf = f /\ b = Pixel(f, at)
  BY BeatFacts
<1> HIDE DEF b, T, nat, nf
<1>3. CASE Exact(S, at, f)
  <2>1. PICK g \in {0, 1} :
          /\ \A i \in 1 .. Len(S) : i <= N => S[i] = Pixel(g, i)
          /\ Len(S) > N => S[N + 1] = Eof
          /\ Len(S) <= N => at = Len(S) + 1 /\ f = g
    BY <1>3 DEF Exact
  <2>2. \A i \in 1 .. Len(T) : i <= N => T[i] = Pixel(g, i)
    <3> SUFFICES ASSUME NEW i \in 1 .. Len(T), i <= N PROVE T[i] = Pixel(g, i)
      OBVIOUS
    <3>1. CASE i <= Len(S)
      BY <1>1, <2>1, <3>1
    <3>2. CASE i = Len(S) + 1
      BY <1>1, <1>2, <2>1, <3>2
    <3> QED BY <1>1, <3>1, <3>2
  <2>3. Len(T) > N => T[N + 1] = Eof
    BY <1>1, <1>2, <2>1
  <2>4. Len(T) <= N => nat = Len(T) + 1 /\ nf = g
    BY <1>1, <1>2, <2>1
  <2> QED BY <2>2, <2>3, <2>4 DEF Shape, Exact, T, b, nat, nf
<1>4. CASE d > 0 /\ Short(S)
  <2>1. Short(T)
    BY <1>1, <1>4 DEF Short
  <2> QED BY <1>4, <2>1 DEF Shape, T, b, nat, nf
<1>5. CASE d > 0 /\ Lost(S, at, d)
  <2>1. CASE at = N + 1
    <3>1. Short(T)
      <4>1. Len(S) + 1 \in 1 .. Len(T) /\ Len(S) + 1 <= N /\ T[Len(S) + 1] = Eof
        BY <1>1, <1>2, <1>5, <2>1 DEF Lost
      <4> QED BY <4>1 DEF Short
    <3> QED BY <1>5, <3>1 DEF Shape, T, b, nat, nf
  <2>2. CASE at # N + 1
    <3>1. ~Marked(T)
      BY <1>1, <1>2, <1>5, <2>2 DEF Lost, Marked
    <3>2. Lost(T, nat, d)
      BY <1>1, <1>2, <1>5, <2>2, <3>1 DEF Lost
    <3> QED BY <1>5, <3>2 DEF Shape, T, b, nat, nf
  <2> QED BY <2>1, <2>2
<1>6. CASE d > 0 /\ Merged(S, at, d)
  <2>1. CASE at = N + 1
    <3>1. Len(S) >= N + 1
      BY <1>1, <1>6, <2>1 DEF Merged
    <3>2. Long(T)
      BY <1>1, <1>6, <3>1 DEF Merged, Marked, Long
    <3> QED BY <1>6, <3>2 DEF Shape, T, b, nat, nf
  <2>2. CASE at # N + 1
    <3>1. ~Marked(T)
      BY <1>1, <1>2, <1>6, <2>2 DEF Merged, Marked
    <3>2. Merged(T, nat, d)
      BY <1>1, <1>2, <1>6, <2>2, <3>1 DEF Merged
    <3> QED BY <1>6, <3>2 DEF Shape, T, b, nat, nf
  <2> QED BY <2>1, <2>2
<1>7. CASE d > 0 /\ Long(S)
  <2>1. Long(T)
    BY <1>1, <1>7 DEF Long
  <2> QED BY <1>7, <2>1 DEF Shape, T, b, nat, nf
<1> QED BY <1>3, <1>4, <1>5, <1>6, <1>7 DEF Shape

\* A beat is lost.
LEMMA ShapeDrop ==
  ASSUME NEW S \in Seq(Beats), NEW at \in 1 .. N + 1, NEW f \in {0, 1}, NEW d \in Nat,
         d < N, Shape(S, at, f, d)
  PROVE  Shape(S, NextAt(at), NextFrame(at, f), d + 1)
<1> DEFINE nat == NextAt(at)
           nf == NextFrame(at, f)
<1>1. Len(S) \in Nat /\ N \in Nat /\ N > 0 /\ d + 1 > 0
  BY CaptureAssumption
<1>2. /\ nat \in 1 .. N + 1
      /\ at = N + 1 => nat = 1
      /\ at # N + 1 => nat = at + 1
  BY BeatFacts
<1> HIDE DEF nat, nf
<1>3. CASE Exact(S, at, f)
  <2>1. PICK g \in {0, 1} :
          /\ \A i \in 1 .. Len(S) : i <= N => S[i] = Pixel(g, i)
          /\ Len(S) > N => S[N + 1] = Eof
          /\ Len(S) <= N => at = Len(S) + 1 /\ f = g
    BY <1>3 DEF Exact
  <2>2. CASE Len(S) > N
    BY <1>1, <2>1, <2>2 DEF Shape, Exact, nat, nf
  <2>3. CASE Len(S) <= N
    <3>1. ~Marked(S)
      <4> SUFFICES ASSUME NEW i \in 1 .. Len(S) PROVE S[i] # Eof
        BY DEF Marked
      <4>1. S[i] = Pixel(g, i) /\ i # N + 1
        BY <1>1, <2>1, <2>3
      <4> QED BY <4>1 DEF Pixel, Eof
    <3>2. CASE at = N + 1
      <4>1. Merged(S, nat, d + 1)
        BY <1>1, <1>2, <2>1, <2>3, <3>1, <3>2 DEF Merged
      <4> QED BY <1>1, <4>1 DEF Shape, nat, nf
    <3>3. CASE at # N + 1
      <4>1. Lost(S, nat, d + 1)
        BY <1>1, <1>2, <2>1, <2>3, <3>1, <3>3 DEF Lost
      <4> QED BY <1>1, <4>1 DEF Shape, nat, nf
    <3> QED BY <3>2, <3>3
  <2> QED BY <1>1, <2>2, <2>3
<1>4. CASE d > 0 /\ (Short(S) \/ Long(S))
  BY <1>1, <1>4 DEF Shape, nat, nf
<1>5. CASE d > 0 /\ Lost(S, at, d)
  <2>1. CASE at = N + 1
    <3>1. Merged(S, nat, d + 1)
      BY <1>1, <1>2, <1>5, <2>1 DEF Lost, Merged
    <3> QED BY <1>1, <3>1 DEF Shape, nat, nf
  <2>2. CASE at # N + 1
    <3>1. Lost(S, nat, d + 1)
      BY <1>1, <1>2, <1>5, <2>2 DEF Lost
    <3> QED BY <1>1, <3>1 DEF Shape, nat, nf
  <2> QED BY <2>1, <2>2
<1>6. CASE d > 0 /\ Merged(S, at, d)
  <2>1. CASE at = N + 1
    <3>1. Len(S) >= N + 1
      BY <1>1, <1>6, <2>1 DEF Merged
    <3>2. Long(S)
      BY <1>1, <1>6, <3>1 DEF Merged, Marked, Long
    <3> QED BY <1>1, <3>2 DEF Shape, nat, nf
  <2>2. CASE at # N + 1
    <3>1. Merged(S, nat, d + 1)
      BY <1>1, <1>2, <1>6, <2>2 DEF Merged
    <3> QED BY <1>1, <3>1 DEF Shape, nat, nf
  <2> QED BY <2>1, <2>2
<1> QED BY <1>3, <1>4, <1>5, <1>6 DEF Shape

\* The marker that ends the transfer is about to be popped: with the right
\* number of pixels, or nothing lost, they are a frame's.
LEMMA ShapeEnd ==
  ASSUME NEW m \in Seq(Beats), NEW q \in Seq(Beats), NEW at \in 1 .. N + 1,
         NEW f \in {0, 1}, NEW d \in Nat, Shape(m \o q, at, f, d),
         \A i \in 1 .. Len(m) : m[i] # Eof, q # <<>>, Head(q) = Eof,
         d = 0 \/ Len(m) = N
  PROVE  \E g \in {0, 1} : m = [i \in 1 .. N |-> Pixel(g, i)]
<1> DEFINE S == m \o q
           n == Len(m)
<1>1. /\ n \in Nat /\ N \in Nat /\ N > 0 /\ S \in Seq(Beats)
      /\ Len(S) = n + Len(q) /\ Len(q) > 0
      /\ \A i \in 1 .. n : S[i] = m[i]
      /\ S[n + 1] = Eof
  BY CaptureAssumption
<1> HIDE DEF S
<1>2. ~Lost(S, at, d) /\ ~Merged(S, at, d)
  BY <1>1 DEF Lost, Merged, Marked
<1>3. Exact(S, at, f)
  <2>1. CASE d = 0
    BY <2>1 DEF Shape, S
  <2>2. CASE n = N
    <3>1. ~Short(S) /\ ~Long(S)
      BY <1>1, <2>2 DEF Short, Long
    <3> QED BY <1>2, <3>1 DEF Shape, S
  <2> QED BY <2>1, <2>2
<1>4. PICK g \in {0, 1} :
        /\ \A i \in 1 .. Len(S) : i <= N => S[i] = Pixel(g, i)
        /\ Len(S) > N => S[N + 1] = Eof
  BY <1>3 DEF Exact
<1>5. \A i \in 1 .. N : Pixel(g, i) # Eof
  BY <1>1 DEF Pixel, Eof
<1>6. n = N
  <2>1. ~(n < N)
    BY SMTT(30), <1>1, <1>4, <1>5
  <2>2. ~(n > N)
    <3> SUFFICES ASSUME n > N PROVE FALSE
      OBVIOUS
    <3>1. N + 1 \in 1 .. n /\ Len(S) > N
      BY <1>1
    <3>2. S[N + 1] = m[N + 1] /\ m[N + 1] # Eof
      BY <1>1, <3>1
    <3> QED BY <1>4, <3>1, <3>2
  <2> QED BY <1>1, <2>1, <2>2
<1>7. m = [i \in 1 .. N |-> Pixel(g, i)]
  <2>1. \A i \in 1 .. N : m[i] = Pixel(g, i)
    BY <1>1, <1>4, <1>6
  <2>2. m = [i \in 1 .. Len(m) |-> m[i]]
    OBVIOUS
  <2> QED BY <1>6, <2>1, <2>2
<1> QED BY <1>7
-----------------------------------------------------------------------------
(* WHERE THE FRAME OF A CALL IS *)

\* The call has armed the master and has not decided what to return.
Watching(t) == th[t].pc \in {"poll", "read", "judge", "finish"}

\* The first marker in the line buffer, which ends the first transfer.
First(q, i)  == i \in 1 .. Len(q) /\ q[i] = Eof /\ \A j \in 1 .. i - 1 : q[j] # Eof
Behind(q, i) == SubSeq(q, i + 1, Len(q))
Here(S)      == Shape(S, sensor.at, sensor.frame, drops)
Then(S)      == Shape(S, sensor'.at, sensor'.frame, drops')

\* What the master has done for a call so far.
WatchInv ==
  /\ dma.busy => frames < 2
  /\ dma.pending => frames = 0
  /\ \A i \in 1 .. Len(mem[dma.to]) : mem[dma.to][i] # Eof
  /\ dma.pending => \A i \in 1 .. Len(fifo) : First(fifo, i) => Here(Behind(fifo, i))
  /\ dma.busy /\ frames = 1 => Here(mem[dma.to] \o fifo)
  /\ frames = 2 /\ (drops = 0 \/ Len(mem[dma.to]) = N) => Whole(dma.to)

\* What a call has read of it, and what stands in the buffers of good frames.
FrameInv ==
  /\ dma.pending => dma.busy
  /\ \A t \in Threads : Watching(t) =>
       /\ WatchInv /\ dma.to = th[t].buf
       /\ th[t].fr <= frames
       /\ th[t].pc = "finish" /\ th[t].rc = "ok" => frames = 2
  /\ \A t \in Threads : th[t].pc \notin {"read", "judge"} => th[t].fr = 0
  /\ WholeFrame

\* A beat joins the line buffer, or is popped from it.
LEMMA FirstAppend ==
  ASSUME NEW q \in Seq(Beats), NEW b \in Beats, NEW i \in 1 .. Len(Append(q, b)),
         First(Append(q, b), i)
  PROVE  \/ /\ i \in 1 .. Len(q) /\ First(q, i)
            /\ Behind(Append(q, b), i) = Append(Behind(q, i), b)
         \/ b = Eof /\ Behind(Append(q, b), i) = <<>>
<1>1. Len(Append(q, b)) = Len(q) + 1 /\ Len(q) \in Nat
  OBVIOUS
<1>2. CASE i = Len(q) + 1
  <2>1. Append(q, b)[i] = b
    BY <1>2
  <2>2. Behind(Append(q, b), i) = <<>>
    BY <1>1, <1>2 DEF Behind
  <2> QED BY <2>1, <2>2 DEF First
<1>3. CASE i # Len(q) + 1
  <2>1. i \in 1 .. Len(q)
    BY <1>1, <1>3
  <2>2. \A j \in 1 .. i : Append(q, b)[j] = q[j]
    BY <2>1
  <2>3. First(q, i)
    BY <2>1, <2>2 DEF First
  <2>4. Behind(Append(q, b), i) = Append(Behind(q, i), b)
    <3> DEFINE X == SubSeq(Append(q, b), i + 1, Len(q) + 1)
               Y == Append(SubSeq(q, i + 1, Len(q)), b)
    <3>1. X \in Seq(Beats) /\ Len(X) = Len(q) - i + 1
      BY <1>1, <2>1
    <3>2. Y \in Seq(Beats) /\ Len(Y) = Len(q) - i + 1
      BY <1>1, <2>1
    <3>3. ASSUME NEW j \in 1 .. Len(q) - i + 1 PROVE X[j] = Y[j]
      <4>1. CASE j = Len(q) - i + 1
        BY <1>1, <2>1, <4>1
      <4>2. CASE j # Len(q) - i + 1
        BY <1>1, <2>1, <4>2
      <4> QED BY <4>1, <4>2
    <3> HIDE DEF X, Y
    <3>4. X = Y
      BY <3>1, <3>2, <3>3
    <3> QED BY <1>1, <3>4 DEF Behind, X, Y
  <2> QED BY <2>1, <2>3, <2>4
<1> QED BY <1>2, <1>3

\* A pixel is popped: the first marker moves up.
LEMMA FirstTail ==
  ASSUME NEW q \in Seq(Beats), q # <<>>, Head(q) # Eof, NEW i \in 1 .. Len(Tail(q)),
         First(Tail(q), i)
  PROVE  /\ i + 1 \in 1 .. Len(q) /\ First(q, i + 1)
         /\ Behind(Tail(q), i) = Behind(q, i + 1)
<1>1. Len(Tail(q)) = Len(q) - 1 /\ Len(q) \in Nat /\ i + 1 \in 1 .. Len(q)
  OBVIOUS
<1>2. \A j \in 1 .. Len(Tail(q)) : Tail(q)[j] = q[j + 1]
  OBVIOUS
<1>3. First(q, i + 1)
  <2>1. q[i + 1] = Eof
    BY <1>2 DEF First
  <2>2. ASSUME NEW j \in 1 .. (i + 1) - 1 PROVE q[j] # Eof
    <3>1. CASE j = 1
      BY <3>1
    <3>2. CASE j # 1
      <4>1. j - 1 \in 1 .. i - 1 /\ j - 1 \in 1 .. Len(Tail(q)) /\ (j - 1) + 1 = j
        BY <1>1, <3>2
      <4>2. Tail(q)[j - 1] = q[j] /\ Tail(q)[j - 1] # Eof
        BY <1>2, <4>1 DEF First
      <4> QED BY <4>2
    <3> QED BY <3>1, <3>2
  <2> QED BY <1>1, <2>1, <2>2 DEF First
<1>4. Behind(Tail(q), i) = Behind(q, i + 1)
  BY <1>1 DEF Behind
<1> QED BY <1>1, <1>3, <1>4

\* A marker is popped: what is behind it is what is left.
LEMMA FirstHead ==
  ASSUME NEW q \in Seq(Beats), q # <<>>, Head(q) = Eof
  PROVE  1 \in 1 .. Len(q) /\ First(q, 1) /\ Behind(q, 1) = <<>> \o Tail(q)
<1>1. Len(q) \in Nat /\ Len(q) >= 1 /\ q[1] = Eof
  OBVIOUS
<1>2. Behind(q, 1) = Tail(q) /\ <<>> \o Tail(q) = Tail(q)
  BY <1>1 DEF Behind
<1> QED BY <1>1, <1>2 DEF First

\* A popped pixel goes from the line buffer to the end of the buffer.
LEMMA PixelMoves ==
  ASSUME NEW m \in Seq(Beats), NEW q \in Seq(Beats), q # <<>>
  PROVE  Append(m, Head(q)) \o Tail(q) = m \o q
OBVIOUS

\* A beat joins what the second transfer sees.
LEMMA BeatJoins ==
  ASSUME NEW m \in Seq(Beats), NEW q \in Seq(Beats), NEW b \in Beats
  PROVE  m \o Append(q, b) = Append(m \o q, b) /\ m \o q \in Seq(Beats)
OBVIOUS

\* What is behind a place in the line buffer is a sequence of beats.
LEMMA BehindType ==
  ASSUME NEW q \in Seq(Beats), NEW i \in 1 .. Len(q)
  PROVE  Behind(q, i) \in Seq(Beats)
BY DEF Behind
-----------------------------------------------------------------------------
(* THE CORE AND THE FRAME *)

\* No more beats are lost than a frame has pixels.
FewDrops == MaxDrops <= N

\* What the types say of the core.
LEMMA CoreTypes ==
  ASSUME TypeOK
  PROVE  /\ fifo \in Seq(Beats) /\ dma \in Transfers /\ dma.to \in Buffers /\ frames \in 0 .. 2
         /\ mem \in [Buffers -> Seq(Beats)] /\ mem[dma.to] \in Seq(Beats)
         /\ sensor.at \in 1 .. N + 1 /\ sensor.frame \in {0, 1}
         /\ drops \in Nat /\ MaxDrops \in Nat /\ drops <= MaxDrops /\ N \in Nat /\ N > 0
<1>1. fifo \in Seq(Beats) /\ dma \in Transfers /\ frames \in 0 .. 2
      /\ mem \in [Buffers -> Seq(Beats)] /\ sensor \in Sensors /\ drops \in 0 .. MaxDrops
  BY DEF TypeOK
<1>2. dma.to \in Buffers
  BY <1>1, DmaFields
<1> QED BY <1>1, <1>2, SensorFields, CaptureAssumption

\* The sensor's beat joins the line buffer or is lost.
LEMMA SensorSends ==
  ASSUME TypeOK, Sensor
  PROVE  /\ sensor'.at = NextAt(sensor.at)
         /\ sensor'.frame = NextFrame(sensor.at, sensor.frame)
         /\ \/ fifo' = Append(fifo, Beat(sensor.at, sensor.frame)) /\ drops' = drops
            \/ fifo' = fifo /\ dma.busy /\ drops' = drops + 1 /\ drops < MaxDrops
            \/ fifo' = fifo /\ ~dma.busy /\ drops' = drops
         /\ UNCHANGED <<dma, frames, mem, th>>
<1>1. sensor \in Sensors
  BY DEF TypeOK
<1>2. CASE sensor.at = N + 1
  <2>1. sensor' = [sensor EXCEPT !.at = 1, !.frame = 1 - sensor.frame]
    BY <1>2 DEF Sensor
  <2>2. sensor'.at = 1 /\ sensor'.frame = 1 - sensor.frame
    BY <1>1, <2>1 DEF Sensors
  <2> QED BY <1>2, <2>2 DEF Sensor, NextAt, NextFrame, Beat, sw
<1>3. CASE sensor.at # N + 1
  <2>1. sensor' = [sensor EXCEPT !.at = sensor.at + 1]
    BY <1>3 DEF Sensor
  <2>2. sensor'.at = sensor.at + 1 /\ sensor'.frame = sensor.frame
    BY <1>1, <2>1 DEF Sensors
  <2> QED BY <1>3, <2>2 DEF Sensor, NextAt, NextFrame, Beat, Pixel, sw
<1> QED BY <1>2, <1>3

\* The stream a transfer sees stays a frame's when the sensor goes on.
LEMMA SensorWatch ==
  ASSUME FewDrops, TypeOK, Sensor, WatchInv, dma.pending => dma.busy
  PROVE  WatchInv'
<1> DEFINE at == sensor.at
           f == sensor.frame
           b == Beat(at, f)
<1>1. /\ fifo \in Seq(Beats) /\ mem[dma.to] \in Seq(Beats) /\ at \in 1 .. N + 1
      /\ f \in {0, 1} /\ drops \in Nat /\ drops <= N /\ (drops < MaxDrops => drops < N)
      /\ N \in Nat /\ MaxDrops \in Nat
  BY CoreTypes DEF FewDrops
<1>2. /\ sensor'.at = NextAt(at) /\ sensor'.frame = NextFrame(at, f)
      /\ UNCHANGED <<dma, frames, mem>>
  BY SensorSends
<1>3. b \in Beats /\ (b = Eof => at = N + 1) /\ (at = N + 1 => NextAt(at) = 1)
      /\ NextFrame(at, f) \in {0, 1}
  BY <1>1, BeatFacts
<1>4. \A i \in 1 .. Len(mem'[dma'.to]) : mem'[dma'.to][i] # Eof
  BY <1>2 DEF WatchInv
<1>5. CASE fifo' = Append(fifo, b) /\ drops' = drops
  <2>1. ASSUME NEW S \in Seq(Beats), Here(S) PROVE Then(Append(S, b))
    BY <1>1, <1>2, <1>5, <2>1, ShapeAppend DEF Here, Then
  <2>2. ASSUME dma.pending, NEW i \in 1 .. Len(fifo'), First(fifo', i)
        PROVE  Then(Behind(fifo', i))
    <3>1. CASE /\ i \in 1 .. Len(fifo) /\ First(fifo, i)
               /\ Behind(fifo', i) = Append(Behind(fifo, i), b)
      <4>1. Here(Behind(fifo, i)) /\ Behind(fifo, i) \in Seq(Beats)
        BY <1>1, <2>2, <3>1, BehindType DEF WatchInv
      <4> QED BY <2>1, <3>1, <4>1 DEF Here, Then
    <3>2. CASE b = Eof /\ Behind(fifo', i) = <<>>
      BY <1>2, <1>3, <3>2, ShapeStart DEF Here, Then
    <3> QED BY <1>1, <1>3, <1>5, <2>2, <3>1, <3>2, FirstAppend
  <2>3. ASSUME dma.busy, frames = 1 PROVE Then(mem[dma.to] \o fifo')
    <3>1. Here(mem[dma.to] \o fifo)
      BY <2>3 DEF WatchInv
    <3>2. /\ mem[dma.to] \o fifo \in Seq(Beats)
          /\ mem[dma.to] \o fifo' = Append(mem[dma.to] \o fifo, b)
      BY <1>1, <1>3, <1>5, BeatJoins
    <3> QED BY <1>2, <2>1, <3>1, <3>2 DEF Here, Then
  <2> QED BY <1>2, <1>4, <1>5, <2>2, <2>3 DEF WatchInv, Here, Then, Whole
<1>6. CASE fifo' = fifo /\ dma.busy /\ drops' = drops + 1 /\ drops < MaxDrops
  <2>1. ASSUME NEW S \in Seq(Beats), Here(S) PROVE Then(S)
    BY <1>1, <1>2, <1>6, <2>1, ShapeDrop DEF Here, Then
  <2>2. ASSUME dma.pending, NEW i \in 1 .. Len(fifo), First(fifo, i)
        PROVE  Then(Behind(fifo, i))
    <3>1. Here(Behind(fifo, i)) /\ Behind(fifo, i) \in Seq(Beats)
      BY <1>1, <2>2, BehindType DEF WatchInv
    <3> QED BY <1>6, <2>1, <3>1 DEF Here, Then
  <2>3. ASSUME dma.busy, frames = 1 PROVE Then(mem[dma.to] \o fifo)
    <3>1. Here(mem[dma.to] \o fifo) /\ mem[dma.to] \o fifo \in Seq(Beats)
      BY <1>1, <2>3 DEF WatchInv
    <3> QED BY <1>2, <1>6, <2>1, <3>1 DEF Here, Then
  <2>4. frames' # 2
    BY <1>2, <1>6 DEF WatchInv
  <2> QED BY <1>2, <1>4, <1>6, <2>2, <2>3, <2>4 DEF WatchInv, Here, Then
<1>7. CASE fifo' = fifo /\ ~dma.busy /\ drops' = drops
  BY <1>2, <1>4, <1>7 DEF WatchInv, Whole
<1> QED BY <1>5, <1>6, <1>7, SensorSends

\* What the end of a transfer makes of the master.
LEMMA EndedFields ==
  ASSUME NEW d \in Transfers, NEW e \in BOOLEAN, NEW x \in BOOLEAN
  PROVE  /\ Ended(d, e, x).pending = FALSE /\ Ended(d, e, x).busy = d.pending
         /\ Ended(d, e, x).to = d.to
         /\ [d EXCEPT !.err = x].pending = d.pending /\ [d EXCEPT !.err = x].busy = d.busy
         /\ [d EXCEPT !.err = x].to = d.to
BY DEF Transfers, Ended

\* A marker ends a transfer: the first one starts the second on a new frame,
\* the second one leaves a frame behind.
LEMMA PopEofWatch ==
  ASSUME TypeOK, PopEof, WatchInv, dma.pending => dma.busy
  PROVE  WatchInv' /\ frames <= frames' /\ ~dma'.pending
<1> DEFINE m == mem[dma.to]
<1>1. /\ fifo \in Seq(Beats) /\ m \in Seq(Beats) /\ sensor.at \in 1 .. N + 1
      /\ sensor.frame \in {0, 1} /\ drops \in Nat /\ frames \in 0 .. 2 /\ dma \in Transfers
      /\ mem \in [Buffers -> Seq(Beats)] /\ dma.to \in Buffers /\ dma.err \in BOOLEAN
  BY CoreTypes, DmaFields
<1>2. /\ dma.busy /\ fifo # <<>> /\ Head(fifo) = Eof /\ fifo' = Tail(fifo)
      /\ dma' = Ended(dma, TRUE, dma.err) /\ Restart(dma.to)
      /\ frames' = (IF frames < 2 THEN frames + 1 ELSE 2)
      /\ UNCHANGED <<sensor, drops>>
  BY DEF PopEof
<1>3. ~dma'.pending /\ dma'.busy = dma.pending /\ dma'.to = dma.to
  BY <1>1, <1>2 DEF Ended, Transfers
<1>4. frames < 2 /\ frames' = frames + 1
  BY <1>1, <1>2 DEF WatchInv
<1>5. CASE dma.pending
  <2>1. mem' = [mem EXCEPT ![dma.to] = <<>>] /\ mem'[dma'.to] = <<>> /\ frames = 0
    BY <1>1, <1>2, <1>3, <1>5 DEF Restart, WatchInv
  <2>2. Here(Behind(fifo, 1)) /\ Behind(fifo, 1) = <<>> \o fifo'
    BY <1>1, <1>2, <1>5, FirstHead DEF WatchInv
  <2>3. Then(mem'[dma'.to] \o fifo')
    BY <1>2, <2>1, <2>2 DEF Here, Then
  <2> QED BY <1>3, <1>4, <2>1, <2>3 DEF WatchInv, Here, Then
<1>6. CASE ~dma.pending
  <2>1. mem' = mem /\ ~dma'.busy
    BY <1>2, <1>3, <1>6 DEF Restart
  <2>2. ASSUME frames' = 2, drops = 0 \/ Len(m) = N PROVE Whole(dma.to)
    <3>1. frames = 1
      BY <1>1, <1>4, <2>2
    <3>2. Here(m \o fifo) /\ \A i \in 1 .. Len(m) : m[i] # Eof
      BY <1>2, <3>1 DEF WatchInv
    <3>3. \E g \in {0, 1} : m = [i \in 1 .. N |-> Pixel(g, i)]
      <4>1. Shape(m \o fifo, sensor.at, sensor.frame, drops)
        BY <3>2 DEF Here
      <4> HIDE DEF m
      <4> QED BY <1>1, <1>2, <2>2, <3>2, <4>1, ShapeEnd
    <3> QED BY <3>3 DEF Whole, Pixel
  <2>3. Whole(dma.to)' <=> Whole(dma.to)
    BY <1>3, <2>1 DEF Whole
  <2>4. \A i \in 1 .. Len(mem'[dma'.to]) : mem'[dma'.to][i] # Eof
    BY <1>3, <2>1 DEF WatchInv
  <2>5. frames' = 2 /\ (drops' = 0 \/ Len(mem'[dma'.to]) = N) => Whole(dma.to)'
    BY <1>2, <1>3, <2>1, <2>2, <2>3
  <2> QED BY <1>1, <1>3, <1>4, <2>1, <2>4, <2>5 DEF WatchInv, Whole
<1> QED BY <1>3, <1>4, <1>5, <1>6, <1>1

\* A pixel moves to memory; a transfer that it fills is over, and a second one
\* that starts then is no frame's.
LEMMA PopPixelWatch ==
  ASSUME TypeOK, NEW err \in BOOLEAN, PopPixel(err), WatchInv, dma.pending => dma.busy
  PROVE  WatchInv' /\ frames' = frames /\ (dma'.pending => dma'.busy)
<1> DEFINE m == mem[dma.to]
<1>1. /\ fifo \in Seq(Beats) /\ m \in Seq(Beats) /\ frames \in 0 .. 2 /\ dma \in Transfers
      /\ mem \in [Buffers -> Seq(Beats)] /\ dma.to \in Buffers /\ dma.err \in BOOLEAN
      /\ (dma.err \/ err) \in BOOLEAN
  BY CoreTypes, DmaFields
<1>2. /\ dma.busy /\ fifo # <<>> /\ Head(fifo) # Eof /\ fifo' = Tail(fifo)
      /\ UNCHANGED <<sensor, frames, drops>>
  BY DEF PopPixel
<1>3. CASE Len(m) + 1 >= dma.len
  <2>1. /\ dma' = Ended(dma, FALSE, dma.err \/ err)
        /\ mem' = [mem EXCEPT ![dma.to] = IF dma.pending THEN <<>> ELSE Append(m, Head(fifo))]
    BY <1>3 DEF PopPixel
  <2>2. ~dma'.pending /\ dma'.busy = dma.pending /\ dma'.to = dma.to
    BY <1>1, <2>1, EndedFields
  <2>3. mem'[dma'.to] = IF dma.pending THEN <<>> ELSE Append(m, Head(fifo))
    BY <1>1, <2>1, <2>2
  <2>4. \A i \in 1 .. Len(mem'[dma'.to]) : mem'[dma'.to][i] # Eof
    <3>1. CASE dma.pending
      BY <2>3, <3>1
    <3>2. CASE ~dma.pending
      <4>1. \A i \in 1 .. Len(m) : m[i] # Eof
        BY DEF WatchInv
      <4> QED BY <1>1, <1>2, <2>3, <3>2, <4>1
    <3> QED BY <3>1, <3>2
  <2>5. dma'.busy => frames' = 0
    BY <1>2, <2>2 DEF WatchInv
  <2>6. frames' < 2
    BY <1>2 DEF WatchInv
  <2> QED BY <1>1, <1>2, <2>2, <2>4, <2>5, <2>6 DEF WatchInv
<1>4. CASE ~(Len(m) + 1 >= dma.len)
  <2>1. /\ dma' = [dma EXCEPT !.err = dma.err \/ err]
        /\ mem' = [mem EXCEPT ![dma.to] = Append(m, Head(fifo))]
    BY <1>4 DEF PopPixel
  <2>2. dma'.pending = dma.pending /\ dma'.busy = dma.busy /\ dma'.to = dma.to
    BY <1>1, <2>1, EndedFields
  <2>3. mem'[dma'.to] = Append(m, Head(fifo))
    BY <1>1, <2>1, <2>2
  <2>4. \A i \in 1 .. Len(mem'[dma'.to]) : mem'[dma'.to][i] # Eof
    <3>1. \A i \in 1 .. Len(m) : m[i] # Eof
      BY DEF WatchInv
    <3> QED BY <1>1, <1>2, <2>3, <3>1
  <2>5. ASSUME dma.pending, NEW i \in 1 .. Len(fifo'), First(fifo', i)
        PROVE  Then(Behind(fifo', i))
    <3>1. /\ i + 1 \in 1 .. Len(fifo) /\ First(fifo, i + 1)
          /\ Behind(fifo', i) = Behind(fifo, i + 1)
      BY <1>1, <1>2, <2>5, FirstTail
    <3>2. Here(Behind(fifo, i + 1))
      BY <2>5, <3>1 DEF WatchInv
    <3> QED BY <1>2, <3>1, <3>2 DEF Here, Then
  <2>6. ASSUME frames = 1 PROVE Then(mem'[dma'.to] \o fifo')
    <3>1. mem'[dma'.to] \o fifo' = m \o fifo
      BY <1>1, <1>2, <2>3, PixelMoves
    <3>2. Here(m \o fifo)
      BY <1>2, <2>6 DEF WatchInv
    <3> QED BY <1>2, <3>1, <3>2 DEF Here, Then
  <2>7. frames' < 2
    BY <1>2 DEF WatchInv
  <2> QED BY <1>1, <1>2, <2>2, <2>4, <2>5, <2>6, <2>7 DEF WatchInv, Here, Then
<1> QED BY <1>3, <1>4
-----------------------------------------------------------------------------
(* THE CALLERS AND THE FRAME *)

\* A good frame is not where the master writes.
LEMMA OkApart ==
  ASSUME Safe, NEW t \in Threads, th[t].pc = "ok", dma.busy
  PROVE  th[t].buf # dma.to
<1>1. dma.to \in retained \cup {th[u].buf : u \in {v \in Threads : Calling(v)}}
  BY DEF Safe, NoLateWrite
<1>2. th[t].buf \notin retained
  BY DEF Safe, Apart
<1>3. \A u \in Threads : Calling(u) => th[u].buf # th[t].buf
  BY DEF Safe, Apart, Calling
<1> QED BY <1>1, <1>2, <1>3

\* A call past the lock is alone with the master.
LEMMA WatchAlone ==
  ASSUME Safe, NEW t \in Threads, Calling(t), th[t].pc # "lock",
         NEW u \in Threads, u # t
  PROVE  ~Watching(u)
BY DEF Safe, Sole, Watching, Calling

\* The core keeps what is known of the frame.
LEMMA CoreFrame ==
  ASSUME FewDrops, TypeOK, Safe, FrameInv, Core
  PROVE  FrameInv'
<1>1. th' = th /\ dma'.to = dma.to
  BY CoreStep DEF sw
<1>2. /\ dma.pending => dma.busy
      /\ \A t \in Threads : Watching(t) => WatchInv
  BY DEF FrameInv
<1>3. frames \in Nat /\ frames <= 2 /\ \A t \in Threads : th[t].fr \in Nat
  <2>1. ASSUME NEW t \in Threads PROVE th[t].fr \in 0 .. 2
    BY Basics, CallerFields
  <2> QED BY <2>1, CoreTypes
<1>4. /\ dma'.pending => dma'.busy
      /\ drops' = 0 => drops = 0
      /\ \A b \in Buffers : mem'[b] # mem[b] => dma.busy /\ b = dma.to
  <2>1. drops \in Nat /\ mem \in [Buffers -> Seq(Beats)] /\ dma.to \in Buffers
        /\ dma \in Transfers
    BY CoreTypes
  <2>2. CASE Sensor
    BY <1>2, <2>1, <2>2, SensorSends
  <2>3. CASE PopEof
    <3>1. ~dma'.pending
      BY <2>1, <2>3 DEF PopEof, Ended, Transfers
    <3> QED BY <2>1, <2>3, <3>1 DEF PopEof, Restart
  <2>4. ASSUME NEW err \in BOOLEAN, PopPixel(err)
        PROVE  /\ dma'.pending => dma'.busy
               /\ drops' = 0 => drops = 0
               /\ \A b \in Buffers : mem'[b] # mem[b] => dma.busy /\ b = dma.to
    <3>1. dma'.pending => dma'.busy
      BY <1>2, <2>1, <2>4 DEF PopPixel, Ended, Transfers
    <3>2. /\ dma.busy /\ drops' = drops
          /\ \/ mem' = [mem EXCEPT ![dma.to] = IF dma.pending THEN <<>> ELSE Append(@, Head(fifo))]
             \/ mem' = [mem EXCEPT ![dma.to] = Append(@, Head(fifo))]
      BY <2>4 DEF PopPixel
    <3> QED BY <2>1, <3>1, <3>2
  <2> QED BY <2>2, <2>3, <2>4 DEF Core
<1>5. ASSUME NEW t \in Threads, Watching(t) PROVE WatchInv' /\ frames <= frames'
  <2>1. WatchInv
    BY <1>2, <1>5
  <2>2. CASE Sensor
    BY <1>2, <1>3, <2>1, <2>2, SensorWatch, SensorSends
  <2>3. CASE PopEof
    BY <1>2, <2>1, <2>3, PopEofWatch
  <2>4. ASSUME NEW err \in BOOLEAN, PopPixel(err) PROVE WatchInv' /\ frames <= frames'
    BY <1>2, <1>3, <2>1, <2>4, PopPixelWatch
  <2> QED BY <2>2, <2>3, <2>4 DEF Core
<1>6. frames' \in Nat /\ frames' <= 2
  BY CoreStep, CoreTypes DEF TypeOK
<1>7. ASSUME NEW t \in Threads, Watching(t)'
      PROVE  /\ WatchInv' /\ dma'.to = th'[t].buf /\ th'[t].fr <= frames'
             /\ th'[t].pc = "finish" /\ th'[t].rc = "ok" => frames' = 2
  <2>1. Watching(t)
    BY <1>1, <1>7 DEF Watching
  <2>2. dma.to = th[t].buf /\ th[t].fr <= frames
        /\ (th[t].pc = "finish" /\ th[t].rc = "ok" => frames = 2)
    BY <2>1 DEF FrameInv
  <2> QED BY <1>1, <1>3, <1>5, <1>6, <2>1, <2>2
<1>8. WholeFrame'
  <2> SUFFICES ASSUME NEW t \in Threads, th'[t].pc = "ok", th'[t].op # "raw" \/ drops' = 0
               PROVE  Whole(th[t].buf)'
    BY <1>1 DEF WholeFrame
  <2>1. Whole(th[t].buf)
    BY <1>1, <1>4 DEF FrameInv, WholeFrame
  <2>2. mem'[th[t].buf] = mem[th[t].buf]
    BY <1>1, <1>4, OkApart, Basics
  <2> QED BY <1>1, <2>1, <2>2 DEF Whole
<1> QED BY <1>1, <1>4, <1>7, <1>8 DEF FrameInv

\* A step of a call that leaves the core where it is.
LEMMA CallFrame ==
  ASSUME TypeOK, FrameInv, NEW t \in Threads, Others(t),
         UNCHANGED <<fifo, frames, mem, drops, dma>>,
         sensor'.at = sensor.at, sensor'.frame = sensor.frame,
         Watching(t)' => /\ Watching(t) /\ th'[t].buf = th[t].buf /\ th'[t].fr <= frames
                         /\ th'[t].pc = "finish" /\ th'[t].rc = "ok" => frames = 2,
         th'[t].pc # "ok", th'[t].pc \notin {"read", "judge"} => th'[t].fr = 0
  PROVE  FrameInv'
<1>1. WatchInv => WatchInv'
  BY DEF WatchInv, Here, Whole
<1>2. ASSUME NEW u \in Threads, Watching(u)'
      PROVE  /\ WatchInv' /\ dma'.to = th'[u].buf /\ th'[u].fr <= frames'
             /\ th'[u].pc = "finish" /\ th'[u].rc = "ok" => frames' = 2
  <2>1. CASE u = t
    <3>1. WatchInv /\ dma.to = th[t].buf
      BY <1>2, <2>1 DEF FrameInv
    <3> QED BY <1>1, <1>2, <2>1, <3>1
  <2>2. CASE u # t
    <3>1. th'[u] = th[u] /\ Watching(u)
      BY <1>2, <2>2 DEF Others, Watching
    <3>2. WatchInv /\ dma.to = th[u].buf /\ th[u].fr <= frames
          /\ (th[u].pc = "finish" /\ th[u].rc = "ok" => frames = 2)
      BY <3>1 DEF FrameInv
    <3> QED BY <1>1, <3>1, <3>2
  <2> QED BY <2>1, <2>2
<1>3. WholeFrame'
  BY DEF FrameInv, WholeFrame, Whole, Others
<1>4. \A u \in Threads : th'[u].pc \notin {"read", "judge"} => th'[u].fr = 0
  BY DEF FrameInv, Others
<1> QED BY <1>2, <1>3, <1>4 DEF FrameInv

\* The end of a call, with or without the capture turned off.
LEMMA EndFrame ==
  ASSUME TypeOK, Safe, FrameInv, NEW t \in Threads, Others(t), th[t].pc = "finish",
         UNCHANGED <<fifo, frames, mem, drops>>,
         dma'.pending = dma.pending, dma'.busy = dma.busy,
         \/ th'[t].pc = "idle"
         \/ /\ th'[t].pc = "ok" /\ th'[t].buf = th[t].buf /\ th'[t].op = th[t].op
            /\ th[t].rc = "ok" /\ (th[t].op = "raw" \/ RightSize(t)),
         th'[t].fr = 0
  PROVE  FrameInv'
<1>1. Calling(t) /\ Watching(t)
  BY DEF Calling, Watching
<1>2. \A u \in Threads : ~Watching(u)'
  <2>1. ~Watching(t)'
    BY DEF Watching
  <2> QED BY <1>1, <2>1, WatchAlone DEF Others, Watching
<1>3. ASSUME th'[t].pc = "ok", th'[t].op # "raw" \/ drops = 0 PROVE Whole(th[t].buf)
  <2>1. WatchInv /\ dma.to = th[t].buf /\ frames = 2
    BY <1>1, <1>3 DEF FrameInv
  <2> QED BY <1>3, <2>1 DEF WatchInv, RightSize
<1>4. WholeFrame'
  <2> SUFFICES ASSUME NEW u \in Threads, th'[u].pc = "ok", th'[u].op # "raw" \/ drops' = 0
               PROVE  Whole(th'[u].buf)
    BY DEF WholeFrame, Whole
  <2>1. CASE u = t
    BY <1>3, <2>1
  <2>2. CASE u # t
    BY <2>2 DEF FrameInv, WholeFrame, Others
  <2> QED BY <2>1, <2>2
<1>5. dma'.pending => dma'.busy
  BY DEF FrameInv
<1>6. \A u \in Threads : th'[u].pc \notin {"read", "judge"} => th'[u].fr = 0
  BY DEF FrameInv, Others
<1> QED BY <1>2, <1>4, <1>5, <1>6 DEF FrameInv

\* The master is armed: nothing has been seen yet.
LEMMA ArmFrame ==
  ASSUME TypeOK, Safe, FrameInv, NEW t \in Threads, Arm(t), th[t].tries < Attempts,
         Calling(t), th[t].pc # "lock", th[t].fr = 0, drops' = drops
  PROVE  FrameInv'
<1>1. Others(t) /\ th'[t].pc = "poll" /\ th'[t].buf = th[t].buf
  BY ArmStep
<1>2. th'[t].fr = 0
  <2>1. th' = [th EXCEPT ![t] = [th[t] EXCEPT !.pc = "poll", !.polls = 0, !.tries = th[t].tries + 1]]
    BY DEF Arm
  <2> QED BY <2>1, Basics DEF Callers
<1>3. /\ fifo' = <<>> /\ frames' = 0 /\ mem' = [mem EXCEPT ![th[t].buf] = <<>>]
      /\ mem \in [Buffers -> Seq(Beats)] /\ th[t].buf \in Buffers
  BY Basics, CoreTypes DEF Arm
<1>4. dma'.busy /\ dma'.pending /\ dma'.to = th[t].buf
  <2>1. dma' = [IdleDma EXCEPT !.busy = TRUE, !.pending = TRUE, !.enabled = TRUE,
                               !.to = th[t].buf, !.len = th[t].cap]
    BY DEF Arm
  <2> QED BY <2>1 DEF IdleDma
<1>5. WatchInv'
  BY <1>3, <1>4 DEF WatchInv
<1>6. \A u \in Threads : u # t => ~Watching(u)'
  BY <1>1, WatchAlone DEF Others, Watching
<1>7. WholeFrame'
  <2> SUFFICES ASSUME NEW u \in Threads, th'[u].pc = "ok", th'[u].op # "raw" \/ drops' = 0
               PROVE  \E f \in {0, 1} : mem'[th'[u].buf] = [i \in 1 .. N |-> [frame |-> f, pixel |-> i]]
    BY DEF WholeFrame, Whole
  <2>1. u # t /\ th'[u] = th[u]
    BY <1>1 DEF Others
  <2>2. Whole(th[u].buf) /\ th[u].buf # th[t].buf /\ th[u].buf \in Buffers
    BY <2>1, Basics DEF FrameInv, WholeFrame, Safe, Apart, Calling
  <2>3. mem'[th[u].buf] = mem[th[u].buf]
    BY <1>3, <2>2
  <2> QED BY <2>1, <2>2, <2>3 DEF Whole
<1>8. \A u \in Threads : th'[u].pc \notin {"read", "judge"} => th'[u].fr = 0
  BY <1>1, <1>2 DEF FrameInv, Others
<1> QED BY <1>1, <1>2, <1>3, <1>4, <1>5, <1>6, <1>7, <1>8 DEF FrameInv

\* A call that ends well keeps what it was and nothing of what it read.
LEMMA GoodFields ==
  ASSUME TypeOK, NEW t \in Threads, Good(t)
  PROVE  th'[t].op = th[t].op /\ th'[t].fr = 0
<1> DEFINE r == [Idle EXCEPT !.pc = "ok", !.op = th[t].op, !.buf = th[t].buf]
<1>1. th[t].op \in {"none", "photo", "frame", "raw"} /\ th[t].buf \in Buffers
  BY Basics, CallerFields
<1>2. r \in Callers /\ r.op = th[t].op /\ r.fr = Idle.fr /\ Idle.fr = 0
  BY <1>1, IdleType DEF Callers, Steps, Idle
<1>3. th' = [th EXCEPT ![t] = r]
  BY DEF Good
<1> HIDE DEF r
<1> QED BY <1>2, <1>3, Basics, OneCaller

\* The steps before the master is armed, and the refusals.
LEMMA EarlyFrame ==
  ASSUME TypeOK, Safe, FrameInv, NEW t \in Threads,
         Begin(t) \/ TakeLock(t) \/ Check(t) \/ Setup(t) \/ RefuseBusy(t)
  PROVE  FrameInv'
<1>1. UNCHANGED <<fifo, frames, mem, drops, dma>>
  BY DEF Begin, TakeLock, Check, Setup, RefuseBusy, hw
<1>2. sensor'.at = sensor.at /\ sensor'.frame = sensor.frame
  <2>1. \/ sensor' = sensor \/ sensor' = [sensor EXCEPT !.on = TRUE]
        \/ sensor' = [sensor EXCEPT !.on = FALSE]
        \/ \E op \in {"photo", "frame", "raw"} : sensor' = [sensor EXCEPT !.on = @ \/ op # "photo"]
    BY DEF Begin, TakeLock, Check, Setup, RefuseBusy, hw
  <2> QED BY <2>1, Basics DEF Sensors
<1>3. /\ Others(t) /\ th'[t].pc \in {"idle", "lock", "check", "setup", "busy?"}
      /\ th'[t].fr = 0
  <2>1. th[t].fr = 0
    BY DEF FrameInv, Begin, TakeLock, Check, Setup, RefuseBusy
  <2>2. CASE Leave(t)
    BY <2>2, LeaveStep, IdleType, Basics DEF Idle
  <2>3. ASSUME NEW pc \in {"check", "setup", "busy?"}, Goto(t, pc)
        PROVE  Others(t) /\ th'[t].pc \in {"idle", "lock", "check", "setup", "busy?"} /\ th'[t].fr = 0
    <3>1. Others(t) /\ th'[t] = [th[t] EXCEPT !.pc = pc]
      BY <2>3, GotoStep, Basics DEF Steps
    <3> QED BY <2>1, <3>1, Basics DEF Callers
  <2>4. CASE Begin(t)
    <3> DEFINE b == CHOOSE x \in Free : TRUE
    <3>1. PICK op \in {"photo", "frame", "raw"}, c \in Caps :
            th' = [th EXCEPT ![t].op = op, ![t].buf = b, ![t].cap = c,
                             ![t].pc = IF op = "photo" THEN "lock" ELSE "busy?"]
      BY <2>4 DEF Begin
    <3>2. b \in Buffers
      BY <2>4 DEF Begin, Free
    <3> HIDE DEF b
    <3> DEFINE r == [th[t] EXCEPT !.op = op, !.buf = b, !.cap = c,
                                  !.pc = IF op = "photo" THEN "lock" ELSE "busy?"]
    <3>3. r \in Callers /\ r.fr = th[t].fr /\ r.pc \in {"lock", "busy?"}
      BY ZenonT(30), <3>2, Basics DEF Callers, Steps
    <3>4. th' = [th EXCEPT ![t] = r]
      BY <3>1
    <3> HIDE DEF r
    <3> QED BY <2>1, <3>3, <3>4, Basics, OneCaller DEF Others
  <2> QED BY <2>2, <2>3, <2>4 DEF TakeLock, Check, Setup, RefuseBusy
<1>4. ~Watching(t)'
  BY <1>3 DEF Watching
<1> QED BY <1>1, <1>2, <1>3, <1>4, CallFrame

\* A call reads the count and the status: what it has read of the count is
\* not more than there is.
LEMMA ReadFrame ==
  ASSUME TypeOK, FrameInv, NEW t \in Threads, ReadFirst(t) \/ ReadSecond(t)
  PROVE  FrameInv'
<1> DEFINE pc == IF th[t].pc = "poll" THEN "read" ELSE "judge"
<1>1. /\ th[t].pc \in {"poll", "read"} /\ UNCHANGED hw /\ drops' = drops
      /\ \/ th' = [th EXCEPT ![t] = [th[t] EXCEPT !.pc = pc, !.fr = frames]]
         \/ th' = [th EXCEPT ![t] = [th[t] EXCEPT !.pc = pc, !.st = Status]]
  BY DEF ReadFirst, ReadSecond
<1>2. pc \in {"read", "judge"} /\ pc \in Steps /\ frames \in 0 .. 2
  BY <1>1, CoreTypes DEF Steps
<1> HIDE DEF pc
<1>3. /\ [th[t] EXCEPT !.pc = pc, !.fr = frames] \in Callers
      /\ [th[t] EXCEPT !.pc = pc, !.st = Status] \in Callers
  BY <1>2, Basics DEF Callers
<1>4. /\ Others(t)
      /\ \/ th'[t] = [th[t] EXCEPT !.pc = pc, !.fr = frames]
         \/ th'[t] = [th[t] EXCEPT !.pc = pc, !.st = Status]
  BY <1>1, <1>3, Basics, OneCaller DEF Others
<1>5. th'[t].pc = pc /\ th'[t].buf = th[t].buf /\ (th'[t].fr = frames \/ th'[t].fr = th[t].fr)
  BY <1>4, Basics DEF Callers
<1>6. Watching(t) /\ th[t].fr <= frames
  BY <1>1 DEF FrameInv, Watching
<1> QED BY <1>1, <1>2, <1>4, <1>5, <1>6, CallFrame DEF hw

\* A call that judges its frame good has seen both markers counted.
LEMMA JudgeFrame ==
  ASSUME TypeOK, FrameInv, NEW t \in Threads, Judge(t)
  PROVE  FrameInv'
<1> DEFINE next == IF Outcome(t) # "none" THEN Outcome(t)
                   ELSE IF PolledOut(t) THEN "timeout" ELSE "again"
           pc    == IF next = "again" THEN "poll" ELSE "finish"
           polls == IF th[t].polls < MaxPolls THEN th[t].polls + 1 ELSE th[t].polls
           r     == [th[t] EXCEPT !.pc = pc, !.rc = next, !.polls = polls, !.fr = 0, !.st = NoStatus]
<1>1. /\ th[t].pc = "judge" /\ th' = [th EXCEPT ![t] = r] /\ UNCHANGED <<hw, drops>>
  BY DEF Judge
<1>2. next \in Results /\ (next = "ok" => th[t].fr >= 2)
  <2>1. Outcome(t) \in {"none", "bus error", "truncated", "ok"}
        /\ (Outcome(t) = "ok" => th[t].fr >= 2)
    BY DEF Outcome
  <2> HIDE DEF Outcome
  <2> QED BY <2>1 DEF Results
<1>3. polls \in 0 .. MaxPolls
  <2>1. th[t].polls \in 0 .. MaxPolls
    BY Basics, CallerFields
  <2> QED BY <2>1, CaptureAssumption
<1> HIDE DEF next, polls
<1>4. pc \in Steps /\ pc \in {"poll", "finish"} /\ 0 \in 0 .. 2
  BY DEF Steps
<1> HIDE DEF pc
<1>5. r \in Callers /\ r.pc = pc /\ r.buf = th[t].buf /\ r.fr = 0 /\ r.rc = next
  BY <1>2, <1>3, <1>4, IdleType, Basics DEF Callers
<1> HIDE DEF r
<1>6. Others(t) /\ th'[t] = r
  BY <1>1, <1>5, Basics, OneCaller DEF Others
<1>7. Watching(t) /\ th[t].fr <= frames /\ frames \in 0 .. 2 /\ th[t].fr \in 0 .. 2
  BY <1>1, Basics, CallerFields, CoreTypes DEF FrameInv, Watching
<1>8. next = "ok" => frames = 2
  BY <1>2, <1>7
<1> QED BY <1>1, <1>4, <1>5, <1>6, <1>7, <1>8, CallFrame DEF hw

\* The end of a call, and another attempt.
LEMMA FinishFrames ==
  ASSUME TypeOK, Safe, FrameInv, NEW t \in Threads,
         FinishPhoto(t) \/ FinishFrame(t) \/ FinishRaw(t)
  PROVE  FrameInv'
<1>0. th[t].pc = "finish" /\ th[t].fr = 0 /\ Calling(t) /\ drops' = drops
  BY DEF FinishPhoto, FinishFrame, FinishRaw, FrameInv, Calling
<1>1. ASSUME Leave(t) PROVE Others(t) /\ th'[t].pc = "idle" /\ th'[t].fr = 0
  BY <1>1, LeaveStep, IdleType, Basics DEF Idle
<1>2. ASSUME Good(t)
      PROVE  /\ Others(t) /\ th'[t].pc = "ok" /\ th'[t].buf = th[t].buf
             /\ th'[t].op = th[t].op /\ th'[t].fr = 0
  BY <1>2, GoodStep, GoodFields, Basics
<1>3. CASE FinishPhoto(t)
  <2>1. /\ UNCHANGED <<fifo, frames, mem>> /\ dma' = [dma EXCEPT !.enabled = FALSE]
        /\ Leave(t) \/ (Good(t) /\ th[t].rc = "ok" /\ RightSize(t))
    BY <1>3 DEF FinishPhoto
  <2>2. dma'.pending = dma.pending /\ dma'.busy = dma.busy
    BY <2>1, Basics DEF Transfers
  <2> QED BY <1>0, <1>1, <1>2, <2>1, <2>2, EndFrame
<1>4. CASE FinishRaw(t)
  <2>1. /\ UNCHANGED <<fifo, frames, mem, dma>> /\ th[t].op = "raw"
        /\ Leave(t) \/ (Good(t) /\ th[t].rc = "ok")
    BY <1>4 DEF FinishRaw
  <2> QED BY <1>0, <1>1, <1>2, <2>1, EndFrame
<1>5. CASE FinishFrame(t)
  <2>1. CASE /\ UNCHANGED <<fifo, frames, mem, dma>>
             /\ Leave(t) \/ (Good(t) /\ th[t].rc = "ok" /\ RightSize(t))
    BY <1>0, <1>1, <1>2, <2>1, EndFrame
  <2>2. CASE Arm(t) /\ th[t].tries < Attempts
    BY <1>0, <2>2, ArmFrame
  <2> QED BY <1>5, <2>1, <2>2 DEF FinishFrame, hw
<1> QED BY <1>3, <1>4, <1>5

\* The application is done with its picture.
LEMMA UseFrame ==
  ASSUME TypeOK, Safe, FrameInv, NEW t \in Threads, Use(t)
  PROVE  FrameInv'
<1>1. /\ th[t].pc = "ok" /\ mem' = [mem EXCEPT ![th[t].buf] = <<>>]
      /\ Others(t) /\ th'[t] = Idle
      /\ UNCHANGED <<sensor, fifo, dma, frames, drops>>
  BY LeaveStep, Basics DEF Use
<1>2. Idle.pc = "idle" /\ Idle.fr = 0
  BY IdleType DEF Idle
<1>3. \A u \in Threads : u # t /\ th[u].pc # "idle" => th[u].buf # th[t].buf
  BY <1>1 DEF Safe, Apart
<1>4. mem \in [Buffers -> Seq(Beats)] /\ \A u \in Threads : th[u].buf \in Buffers
  BY Basics, CoreTypes
<1>5. ASSUME NEW u \in Threads, Watching(u)'
      PROVE  /\ WatchInv' /\ dma'.to = th'[u].buf /\ th'[u].fr <= frames'
             /\ th'[u].pc = "finish" /\ th'[u].rc = "ok" => frames' = 2
  <2>1. u # t /\ th'[u] = th[u] /\ Watching(u)
    BY <1>1, <1>2, <1>5 DEF Watching, Others
  <2>2. /\ WatchInv /\ dma.to = th[u].buf /\ th[u].fr <= frames
        /\ th[u].pc = "finish" /\ th[u].rc = "ok" => frames = 2
    BY <2>1 DEF FrameInv
  <2>3. dma.to # th[t].buf /\ dma.to \in Buffers
    BY <1>3, <1>4, <2>1, <2>2 DEF Watching
  <2>4. mem'[dma.to] = mem[dma.to]
    BY <1>1, <1>4, <2>3
  <2>5. WatchInv'
    BY <1>1, <2>2, <2>4 DEF WatchInv, Here, Whole
  <2> QED BY <1>1, <2>1, <2>2, <2>5
<1>6. WholeFrame'
  <2> SUFFICES ASSUME NEW u \in Threads, th'[u].pc = "ok", th'[u].op # "raw" \/ drops' = 0
               PROVE  \E f \in {0, 1} : mem'[th'[u].buf] = [i \in 1 .. N |-> [frame |-> f, pixel |-> i]]
    BY DEF WholeFrame, Whole
  <2>1. u # t /\ th'[u] = th[u] /\ th[u].pc = "ok"
    BY <1>1, <1>2 DEF Others
  <2>2. Whole(th[u].buf) /\ mem'[th[u].buf] = mem[th[u].buf]
    BY <1>1, <1>3, <1>4, <2>1 DEF FrameInv, WholeFrame
  <2> QED BY <2>1, <2>2 DEF Whole
<1>7. \A u \in Threads : th'[u].pc \notin {"read", "judge"} => th'[u].fr = 0
  BY <1>1, <1>2 DEF FrameInv, Others
<1> QED BY <1>1, <1>5, <1>6, <1>7 DEF FrameInv

\* A reset leaves nothing to keep.
LEMMA ResetFrame == ASSUME Reset PROVE FrameInv'
<1>1. th' = [t \in Threads |-> Idle] /\ dma' = IdleDma
  BY DEF Reset
<1>2. Idle.pc = "idle" /\ Idle.fr = 0 /\ IdleDma.pending = FALSE
  BY DEF Idle, IdleDma
<1> QED BY <1>1, <1>2 DEF FrameInv, WholeFrame, Watching

\* Every step keeps what is known of the frames.
LEMMA FrameStep ==
  ASSUME FewDrops
  PROVE  CaptureInv /\ FrameInv /\ [Next]_vars => FrameInv'
<1> SUFFICES ASSUME TypeOK, Safe, FrameInv, [Next]_vars PROVE FrameInv'
  BY DEF CaptureInv
<1>1. CASE Core
  BY <1>1, CoreFrame
<1>2. ASSUME NEW t \in Threads, StartCapture(t) PROVE FrameInv'
  <2>1. /\ th[t].pc = "busy?" /\ Calling(t) /\ Arm(t) /\ th[t].tries = 0 /\ th[t].fr = 0
        /\ drops' = drops
    BY <1>2 DEF StartCapture, Calling, Safe, Untried, FrameInv
  <2>2. th[t].tries < Attempts
    BY <2>1, CaptureAssumption
  <2> QED BY <2>1, <2>2, ArmFrame
<1>3. ASSUME NEW t \in Threads, Begin(t) \/ Use(t) \/ Caller(t) PROVE FrameInv'
  BY <1>2, <1>3, EarlyFrame, ReadFrame, JudgeFrame, FinishFrames, UseFrame DEF Caller
<1>4. CASE Reset
  BY <1>4, ResetFrame
<1>5. CASE UNCHANGED vars
  <2>1. UNCHANGED <<sensor, fifo, dma, frames, mem, th, drops>>
    BY <1>5 DEF vars, hw, sw
  <2>2. WatchInv => WatchInv'
    BY <2>1 DEF WatchInv, Here, Whole
  <2> QED BY <2>1, <2>2 DEF FrameInv, Watching, WholeFrame, Whole
<1> QED BY <1>1, <1>3, <1>4, <1>5 DEF Next

\* A photo or a frame reported good is one whole frame of the sensor, however
\* fast the sensor, small the line buffer and many the calls, as long as fewer
\* beats are lost in all than a frame and its marker have.
THEOREM WholeFrameHolds ==
  ASSUME FewDrops
  PROVE  Spec => []WholeFrame
<1>1. Init => FrameInv
  <2> SUFFICES ASSUME Init PROVE FrameInv
    OBVIOUS
  <2>1. th = [t \in Threads |-> Idle] /\ dma = IdleDma
    BY DEF Init
  <2>2. Idle.pc = "idle" /\ Idle.fr = 0 /\ IdleDma.pending = FALSE
    BY DEF Idle, IdleDma
  <2> QED BY <2>1, <2>2 DEF FrameInv, WholeFrame, Watching
<1>2. FrameInv => WholeFrame
  BY DEF FrameInv
<1> QED BY <1>1, <1>2, FrameStep, CaptureHolds, PTL DEF Spec
=============================================================================
