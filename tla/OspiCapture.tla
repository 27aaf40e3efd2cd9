---------------------------- MODULE OspiCapture ----------------------------
(***************************************************************************)
(* Taking a frame from the HM01B0 through the OSPI capture core's DMA.     *)
(*                                                                         *)
(* Three callers drive one DMA: the photo (ospi_camera.c under the         *)
(* driver's photo_lock, over ospi_camera_dma.c) and the two diagnostics of *)
(* ospi_cam.c, a frame of a given size and a raw transfer.  All queue two  *)
(* transfers before they enable capture, so that the second starts at a    *)
(* frame boundary and overwrites the first, a partial frame.  The DMA has  *)
(* no abort: a transfer without data stays busy, and its destination must  *)
(* be kept until the SoC is reset.                                         *)
(*                                                                         *)
(* The core and its DMA are not in this repository; they are modelled from *)
(* the registers as this code reads and writes them.                       *)
(***************************************************************************)
EXTENDS Naturals, Sequences

CONSTANTS
  Threads,   \* application threads
  Buffers,   \* aligned buffers in DRAM
  N,         \* pixels of the sensor's frame
  Caps,      \* sizes of the buffers that are passed
  Depth,     \* beats the line buffer holds
  MaxPolls,  \* max_polls
  Attempts,  \* ospi_dma_capture_frame's three
  MaxCalls,  \* bound: calls
  MaxDrops   \* bound: beats lost while a transfer runs

ASSUME CaptureAssumption ==
  /\ N \in Nat \ {0} /\ Caps \subseteq Nat \ {0} /\ Depth \in Nat \ {0}
  /\ MaxPolls \in Nat \ {0} /\ Attempts \in Nat \ {0}
  /\ MaxCalls \in Nat /\ MaxDrops \in Nat /\ "free" \notin Threads /\ Buffers # {}

VARIABLES
  sensor,   \* streaming or not, its next beat, the frame it is in
  en,       \* CTRL.ENABLE: beats go to the line buffer
  fifo,     \* the line buffer, end-of-frame markers in band
  dma,      \* the master and its status bits
  frames,   \* FRAMECNT since the current call read it
  mem,      \* what the last transfer to a buffer has written
  th,       \* the threads
  lock,     \* photo_lock
  resetReq, \* ctx->reset_required
  retained, \* buffers a caller was told to keep until a reset
  calls, drops

hw   == <<sensor, en, fifo, dma, frames, mem>>
sw   == <<th, lock, resetReq, retained, calls>>
vars == <<hw, sw, drops>>

Eof       == [frame |-> 0, pixel |-> N + 1]
IdleDma   == [busy |-> FALSE, pending |-> FALSE, enabled |-> FALSE, done |-> FALSE,
              eof |-> FALSE, err |-> FALSE, to |-> CHOOSE b \in Buffers : TRUE, len |-> 0]
Status    == [busy |-> dma.busy, done |-> dma.done, eof |-> dma.eof, err |-> dma.err]
NoStatus  == [busy |-> FALSE, done |-> FALSE, eof |-> FALSE, err |-> FALSE]
Idle      == [pc |-> "idle", op |-> "none", buf |-> CHOOSE b \in Buffers : TRUE, cap |-> 0,
              polls |-> 0, tries |-> 0, fr |-> 0, st |-> NoStatus, rc |-> "ok"]
Calling(t) == th[t].pc \notin {"idle", "ok"}

Init ==
  /\ sensor = [on |-> FALSE, at |-> 1, frame |-> 0] /\ en = FALSE /\ fifo = <<>>
  /\ dma = IdleDma /\ frames = 0 /\ mem = [b \in Buffers |-> <<>>]
  /\ th = [t \in Threads |-> Idle] /\ lock = "free" /\ resetReq = FALSE
  /\ retained = {} /\ calls = 0 /\ drops = 0
-----------------------------------------------------------------------------
(* THE CORE *)

\* A beat is dropped when the line buffer is full: at will while no transfer
\* drains it, MaxDrops times while one does.  While capture is off the sensor's
\* beats go nowhere and are not counted: Arm chooses where it is by then.
Sensor ==
  /\ sensor.on /\ en
  /\ sensor' = IF sensor.at = N + 1
                 THEN [sensor EXCEPT !.at = 1, !.frame = 1 - @]
                 ELSE [sensor EXCEPT !.at = @ + 1]
  /\ LET beat == IF sensor.at = N + 1 THEN Eof
                 ELSE [frame |-> sensor.frame, pixel |-> sensor.at] IN
       \/ Len(fifo) < Depth /\ fifo' = Append(fifo, beat) /\ UNCHANGED drops
       \/ /\ Len(fifo) = Depth /\ (dma.busy => drops < MaxDrops) /\ UNCHANGED fifo
          /\ drops' = IF dma.busy THEN drops + 1 ELSE drops
  /\ UNCHANGED <<en, dma, frames, mem, sw>>

\* A transfer ends at the first marker it pops, or at DMA_LEN before it pops
\* one; the pending start follows on the same cycle.
Ended(d, eof, err) ==
  [d EXCEPT !.done = TRUE, !.busy = d.pending, !.pending = FALSE, !.eof = eof, !.err = err]
Restart(b) == IF dma.pending THEN mem' = [mem EXCEPT ![b] = <<>>] ELSE UNCHANGED mem

PopEof ==
  /\ dma.busy /\ dma.enabled /\ fifo # <<>> /\ Head(fifo) = Eof
  /\ fifo' = Tail(fifo) /\ frames' = IF frames < 2 THEN frames + 1 ELSE 2
  /\ dma' = Ended(dma, TRUE, dma.err) /\ Restart(dma.to)
  /\ UNCHANGED <<sensor, en, sw, drops>>

PopPixel(err) ==
  /\ dma.busy /\ dma.enabled /\ fifo # <<>> /\ Head(fifo) # Eof
  /\ fifo' = Tail(fifo)
  /\ IF Len(mem[dma.to]) + 1 >= dma.len
       THEN /\ dma' = Ended(dma, FALSE, dma.err \/ err)
            /\ mem' = [mem EXCEPT ![dma.to] = IF dma.pending THEN <<>> ELSE Append(@, Head(fifo))]
       ELSE /\ dma' = [dma EXCEPT !.err = @ \/ err]
            /\ mem' = [mem EXCEPT ![dma.to] = Append(@, Head(fifo))]
  /\ UNCHANGED <<sensor, en, frames, sw, drops>>

Core == Sensor \/ PopEof \/ \E err \in BOOLEAN : PopPixel(err)
-----------------------------------------------------------------------------
(* THE CALLERS *)

\* Capture goes off, and with it what we know of where the sensor is.
CaptureOff(on)  == en' = FALSE /\ sensor' = [on |-> on, at |-> 1, frame |-> 0]
Goto(t, pc)     == th' = [th EXCEPT ![t].pc = pc]
Leave(t)        == th' = [th EXCEPT ![t] = Idle]
Good(t)         == th' = [th EXCEPT ![t] = [Idle EXCEPT !.pc = "ok", !.op = th[t].op,
                                                        !.buf = th[t].buf]]

\* "Calls to this operation are serialized; do not issue sensor/diagnostic
\* operations concurrently": a diagnostic runs alone.
Alone(t, op) == \A u \in Threads \ {t} :
                  Calling(u) => op = "photo" /\ th[u].op = "photo"

Free == Buffers \ (retained \cup {th[u].buf : u \in {v \in Threads : th[v].pc # "idle"}})

\* which of the free buffers makes no difference
Begin(t) ==
  /\ th[t].pc = "idle" /\ calls < MaxCalls /\ calls' = calls + 1 /\ Free # {}
  /\ \E op \in {"photo", "frame", "raw"}, c \in Caps :
       /\ Alone(t, op) /\ (op = "frame" => c >= N)
       /\ th' = [th EXCEPT ![t].op = op, ![t].buf = CHOOSE b \in Free : TRUE, ![t].cap = c,
                            ![t].pc = IF op = "photo" THEN "lock" ELSE "busy?"]
       \* the diagnostics' callers have the sensor streaming
       /\ sensor' = [sensor EXCEPT !.on = @ \/ op # "photo"]
  /\ UNCHANGED <<en, fifo, dma, frames, mem, lock, resetReq, retained, drops>>

TakeLock(t) ==
  /\ th[t].pc = "lock" /\ lock = "free" /\ lock' = t /\ Goto(t, "check")
  /\ UNCHANGED <<hw, resetReq, retained, calls, drops>>

\* An armed transfer that did not succeed has photos refused until a reset.
Check(t) ==
  /\ th[t].pc = "check"
  /\ IF resetReq THEN /\ retained' = retained \cup {th[t].buf}
                      /\ Leave(t) /\ lock' = "free" /\ UNCHANGED en
                 ELSE Goto(t, "setup") /\ en' = TRUE /\ UNCHANGED <<retained, lock>>
  /\ UNCHANGED <<sensor, fifo, dma, frames, mem, resetReq, calls, drops>>

\* I2C, the chip id, MODE_SELECT, the settling time and the pixel clock
Setup(t) ==
  /\ th[t].pc = "setup"
  /\ \/ /\ Goto(t, "busy?") /\ sensor' = [sensor EXCEPT !.on = TRUE] /\ UNCHANGED lock
     \/ /\ Leave(t) /\ lock' = "free" /\ UNCHANGED sensor
  /\ UNCHANGED <<en, fifo, dma, frames, mem, resetReq, retained, calls, drops>>

\* Capture off, flags cleared, line buffer flushed, the two transfers queued
\* and capture on: nothing moves in between, the capture is off until the end.
Arm(t) ==
  /\ fifo' = <<>> /\ frames' = 0 /\ en' = TRUE
  /\ dma' = [IdleDma EXCEPT !.busy = TRUE, !.pending = TRUE, !.enabled = TRUE,
                            !.to = th[t].buf, !.len = th[t].cap]
  /\ mem' = [mem EXCEPT ![th[t].buf] = <<>>]
  /\ \E at \in 1 .. N + 1 : sensor' = [sensor EXCEPT !.at = at, !.frame = 0]
  /\ th' = [th EXCEPT ![t].pc = "poll", ![t].polls = 0, ![t].tries = @ + 1]

StartCapture(t) ==
  /\ th[t].pc = "busy?" /\ ~dma.busy /\ Arm(t)
  /\ UNCHANGED <<lock, resetReq, retained, calls, drops>>

\* A transfer is still waiting for data: a photo asks for a reset, a
\* diagnostic returns -1.
RefuseBusy(t) ==
  /\ th[t].pc = "busy?" /\ dma.busy
  /\ retained' = retained \cup {th[t].buf} /\ Leave(t)
  /\ IF th[t].op = "photo"
       THEN /\ resetReq' = TRUE /\ lock' = "free"
            /\ sensor' = [sensor EXCEPT !.on = FALSE]
       ELSE UNCHANGED <<resetReq, lock, sensor>>
  /\ UNCHANGED <<en, fifo, dma, frames, mem, calls, drops>>

\* A poll reads FRAMECNT and DMA_STATUS one after the other: the photo the
\* count first, the diagnostics the status first.
ReadFirst(t) ==
  /\ th[t].pc = "poll"
  /\ IF th[t].op = "photo" THEN th' = [th EXCEPT ![t].pc = "read", ![t].fr = frames]
                           ELSE th' = [th EXCEPT ![t].pc = "read", ![t].st = Status]
  /\ UNCHANGED <<hw, lock, resetReq, retained, calls, drops>>
ReadSecond(t) ==
  /\ th[t].pc = "read"
  /\ IF th[t].op = "photo" THEN th' = [th EXCEPT ![t].pc = "judge", ![t].st = Status]
                           ELSE th' = [th EXCEPT ![t].pc = "judge", ![t].fr = frames]
  /\ UNCHANGED <<hw, lock, resetReq, retained, calls, drops>>

Over(t)    == th[t].st.done /\ ~th[t].st.busy
Outcome(t) ==
  IF ~Over(t) THEN "none"
  ELSE IF th[t].st.err /\ (th[t].op = "photo" \/ th[t].fr >= 2 \/ ~th[t].st.eof) THEN "bus error"
  ELSE IF ~th[t].st.eof THEN "truncated"
  ELSE IF th[t].fr >= 2 THEN "ok" ELSE "none"

NoLimit(t)   == FALSE                   \* mutant of PolledOut
PolledOut(t) == th[t].polls + 1 >= MaxPolls

Judge(t) ==
  /\ th[t].pc = "judge"
  /\ LET next == IF Outcome(t) # "none" THEN Outcome(t)
                 ELSE IF PolledOut(t) THEN "timeout" ELSE "again" IN
       th' = [th EXCEPT ![t].pc = IF next = "again" THEN "poll" ELSE "finish",
                        ![t].rc = next, ![t].polls = IF @ < MaxPolls THEN @ + 1 ELSE @,
                        ![t].fr = 0, ![t].st = NoStatus]
  /\ UNCHANGED <<hw, lock, resetReq, retained, calls, drops>>

AnySize(t)    == TRUE                   \* mutant of RightSize
RightSize(t)  == Len(mem[th[t].buf]) = N

NeverReset(t) == FALSE                  \* mutant of NeedsReset
NeedsReset(t) == th[t].rc # "ok"

\* capture off, DMA_CTRL = 0: no abort, the read port goes back
FinishPhoto(t) ==
  /\ th[t].pc = "finish" /\ th[t].op = "photo"
  /\ CaptureOff(FALSE) /\ dma' = [dma EXCEPT !.enabled = FALSE] /\ lock' = "free"
  /\ resetReq' = NeedsReset(t)
  /\ retained' = retained \cup (IF NeedsReset(t) THEN {th[t].buf} ELSE {})
  /\ IF th[t].rc = "ok" /\ RightSize(t) /\ Len(mem[th[t].buf]) < th[t].cap
       THEN Good(t) ELSE Leave(t)
  /\ UNCHANGED <<fifo, frames, mem, calls, drops>>

\* A time-out leaves capture on and the transfer armed, and so does a bus
\* error the capture; a frame of another size is tried again.
FinishFrame(t) ==
  /\ th[t].pc = "finish" /\ th[t].op = "frame"
  /\ \/ /\ th[t].rc = "timeout" /\ Leave(t) /\ retained' = retained \cup {th[t].buf}
        /\ UNCHANGED hw
     \/ th[t].rc = "bus error" /\ Leave(t) /\ UNCHANGED <<retained, hw>>
     \/ /\ th[t].rc = "ok" /\ RightSize(t) /\ Good(t) /\ CaptureOff(sensor.on)
        /\ UNCHANGED <<retained, fifo, dma, frames, mem>>
     \/ /\ th[t].rc \in {"ok", "truncated"} /\ ~(th[t].rc = "ok" /\ RightSize(t))
        /\ UNCHANGED retained
        /\ IF th[t].tries < Attempts THEN Arm(t)
           ELSE Leave(t) /\ CaptureOff(sensor.on) /\ UNCHANGED <<fifo, dma, frames, mem>>
  /\ UNCHANGED <<lock, resetReq, calls, drops>>

\* A raw transfer ends with capture off, however it ends.
FinishRaw(t) ==
  /\ th[t].pc = "finish" /\ th[t].op = "raw" /\ CaptureOff(sensor.on)
  /\ IF th[t].rc = "ok" THEN Good(t) ELSE Leave(t)
  /\ retained' = retained \cup (IF th[t].rc = "timeout" THEN {th[t].buf} ELSE {})
  /\ UNCHANGED <<fifo, dma, frames, mem, lock, resetReq, calls, drops>>

\* The application is done with its picture.
Use(t) == /\ th[t].pc = "ok" /\ Leave(t) /\ mem' = [mem EXCEPT ![th[t].buf] = <<>>]
          /\ UNCHANGED <<sensor, en, fifo, dma, frames, lock, resetReq, retained, calls, drops>>

Caller(t) == \/ TakeLock(t) \/ Check(t) \/ Setup(t) \/ StartCapture(t) \/ RefuseBusy(t)
             \/ ReadFirst(t) \/ ReadSecond(t) \/ Judge(t)
             \/ FinishPhoto(t) \/ FinishFrame(t) \/ FinishRaw(t)
-----------------------------------------------------------------------------
\* A reset of the SoC; the sensor keeps streaming.
Reset ==
  /\ CaptureOff(sensor.on) /\ fifo' = <<>> /\ dma' = IdleDma /\ frames' = 0
  /\ mem' = [b \in Buffers |-> <<>>]
  /\ th' = [t \in Threads |-> Idle] /\ lock' = "free" /\ resetReq' = FALSE
  /\ retained' = {} /\ UNCHANGED <<calls, drops>>

Next == Core \/ (\E t \in Threads : Begin(t) \/ Caller(t) \/ Use(t)) \/ Reset

Spec     == Init /\ [][Next]_vars
\* The threads are scheduled; the sensor and the DMA owe nothing.
FairSpec == Spec /\ \A t \in Threads : WF_vars(Caller(t))
-----------------------------------------------------------------------------
(* PROPERTIES *)

Beats    == [frame : {0, 1}, pixel : 1 .. N + 1]
Statuses == [busy : BOOLEAN, done : BOOLEAN, eof : BOOLEAN, err : BOOLEAN]
Results  == {"ok", "bus error", "truncated", "timeout", "again"}

Sensors   == [on : BOOLEAN, at : 1 .. N + 1, frame : {0, 1}]
Transfers == [busy : BOOLEAN, pending : BOOLEAN, enabled : BOOLEAN, done : BOOLEAN,
              eof : BOOLEAN, err : BOOLEAN, to : Buffers, len : Caps \cup {0}]
Steps     == {"idle", "lock", "check", "setup", "busy?", "poll", "read", "judge", "finish", "ok"}
Callers   == [pc : Steps, op : {"none", "photo", "frame", "raw"}, buf : Buffers,
              cap : Caps \cup {0}, polls : 0 .. MaxPolls, tries : 0 .. Attempts,
              fr : 0 .. 2, st : Statuses, rc : Results]

TypeOK ==
  /\ sensor \in Sensors /\ en \in BOOLEAN /\ fifo \in Seq(Beats) /\ dma \in Transfers
  /\ frames \in 0 .. 2 /\ mem \in [Buffers -> Seq(Beats)] /\ th \in [Threads -> Callers]
  /\ lock \in Threads \cup {"free"} /\ resetReq \in BOOLEAN /\ retained \subseteq Buffers
  /\ calls \in 0 .. MaxCalls /\ drops \in 0 .. MaxDrops

Whole(b) == \E f \in {0, 1} :
              mem[b] = [i \in 1 .. N |-> [frame |-> f, pixel |-> i]]

\* A photo or a frame reported good is one whole frame of the sensor, not a
\* partial one nor pieces of two, although a beat may have been lost; it stays
\* so while the application reads it and others take theirs.  A raw transfer
\* that ended on a marker is whole if no beat was lost.
WholeFrame ==
  \A t \in Threads :
    th[t].pc = "ok" /\ (th[t].op # "raw" \/ drops = 0) => Whole(th[t].buf)

\* The DMA, which nothing can abort, is only ever armed on the buffer of a
\* call that has not returned or of a caller that was told to keep it.
NoLateWrite ==
  dma.busy => dma.to \in retained \cup {th[t].buf : t \in {u \in Threads : Calling(u)}}

\* Every call returns, whatever the sensor and the DMA do.
EveryCallReturns == \A t \in Threads : Calling(t) ~> ~Calling(t)
=============================================================================
