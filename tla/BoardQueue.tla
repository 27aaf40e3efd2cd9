----------------------------- MODULE BoardQueue -----------------------------
(***************************************************************************)
(* The queue for the one bench board: scripts/with_board.sh.               *)
(*                                                                         *)
(* Every caller is a process of its own.  It writes a ticket, a file named *)
(* by its arrival time and its pid, polls until its ticket is the oldest   *)
(* live one, takes the flock without blocking, removes its ticket and      *)
(* becomes the command; the command's file descriptor keeps the flock.     *)
(* Only files outlive a process: a caller that is killed leaves its ticket *)
(* and nothing else, and the kernel gives its pid to somebody new.         *)
(***************************************************************************)
EXTENDS Naturals

CONSTANTS
  Pids,        \* process ids
  MaxArrivals, \* bound: callers that ever arrive
  MaxKills,    \* bound: callers killed without their traps
  MaxDirect    \* bound: commands that flock the board without the queue

ASSUME QueueAssumption ==
  /\ MaxArrivals \in Nat /\ MaxKills \in Nat /\ MaxDirect \in Nat
  /\ "free" \notin Pids /\ "child" \notin Pids /\ "direct" \notin Pids

VARIABLES
  clock,    \* callers that have arrived: the time of day, as tickets see it
  pc,       \* where each process's script is; "none": not a with_board.sh
  stamp,    \* its arrival time, the first half of $me
  view,     \* tickets of its last listing still to be looked at
  queue,    \* the files in $LOCK.queue
  lock,     \* who holds the flock: a process, a command's background "child",
            \* a "direct" caller, or it is "free"
  kills, directs,
  ahead     \* history: the older tickets each caller lined up behind

vars == <<clock, pc, stamp, view, queue, lock, kills, directs, ahead>>

Times   == 0 .. MaxArrivals
Tickets == [at : Times, pid : Pids]
Me(p)   == [at |-> stamp[p], pid |-> p]
Newest(ts) == CHOOSE t \in ts : \A u \in ts : u.at <= t.at   \* mutant of Oldest
Oldest(ts) == CHOOSE t \in ts : \A u \in ts : t.at <= u.at

Polling    == {"list", "scan", "clear", "try", "late"}
Waiting(p) == pc[p] \in Polling
\* live: the pid's command line names with_board.sh; the command it becomes
\* has a command line of its own
AnyProcess(p) == TRUE                   \* mutant of Live: kill -0 would do
Live(p)       == pc[p] \notin {"none", "run"}

Init ==
  /\ clock = 0 /\ queue = {} /\ lock = "free" /\ kills = 0 /\ directs = 0
  /\ pc = [p \in Pids |-> "none"] /\ stamp = [p \in Pids |-> 0]
  /\ view = [p \in Pids |-> {}] /\ ahead = [p \in Pids |-> {}]
-----------------------------------------------------------------------------
(* A CALLER *)

Goto(p, step) == pc' = [pc EXCEPT ![p] = step]

\* what a process knows goes with it
Forget(p) == /\ stamp' = [stamp EXCEPT ![p] = 0] /\ view' = [view EXCEPT ![p] = {}]
             /\ ahead' = [ahead EXCEPT ![p] = {}]
Gone(p)   == Goto(p, "none") /\ Forget(p)

\* me="$(date +%s%N).$$"
Arrive(p) ==
  /\ pc[p] = "none" /\ clock < MaxArrivals
  /\ clock' = clock + 1 /\ stamp' = [stamp EXCEPT ![p] = clock + 1]
  /\ Goto(p, "stamped")
  /\ UNCHANGED <<view, ahead, queue, lock, kills, directs>>

WriteTicket(p) ==
  /\ pc[p] = "stamped" /\ Goto(p, "list")
  /\ queue' = queue \cup {Me(p)}
  /\ ahead' = [ahead EXCEPT ![p] = {t \in queue : t.at < stamp[p]}]
  /\ UNCHANGED <<clock, stamp, view, lock, kills, directs>>

ListQueue(p) ==
  /\ pc[p] = "list" /\ Goto(p, "scan") /\ view' = [view EXCEPT ![p] = queue]
  /\ UNCHANGED <<clock, stamp, ahead, queue, lock, kills, directs>>

\* The first live ticket of the sorted listing is the head of the queue.
Inspect(p) ==
  /\ pc[p] = "scan"
  /\ IF view[p] # {} /\ ~Live(Oldest(view[p]).pid)
       THEN Goto(p, "clear") /\ UNCHANGED view
       ELSE /\ Goto(p, IF view[p] # {} /\ Oldest(view[p]) = Me(p) THEN "try" ELSE "late")
            /\ view' = [view EXCEPT ![p] = {}]
  /\ UNCHANGED <<clock, stamp, ahead, queue, lock, kills, directs>>

ByPid(t) == {u \in queue : u.pid = t.pid}       \* mutant of Named
Named(t) == {t}

\* rm -f of a ticket whose caller was found dead
ClearStale(p) ==
  /\ pc[p] = "clear" /\ Goto(p, "scan")
  /\ LET t == Oldest(view[p]) IN
       queue' = queue \ Named(t) /\ view' = [view EXCEPT ![p] = @ \ {t}]
  /\ UNCHANGED <<clock, stamp, ahead, lock, kills, directs>>

Blind    == TRUE                        \* mutant of LockFree
LockFree == lock = "free"

\* flock -n 9
TryLock(p) ==
  /\ pc[p] = "try"
  /\ IF LockFree THEN lock' = p /\ Goto(p, "leave")
                 ELSE UNCHANGED lock /\ Goto(p, "late")
  /\ UNCHANGED <<clock, stamp, view, ahead, queue, kills, directs>>

\* After BOARD_LOCK_TIMEOUT a caller leaves through the EXIT trap; before it,
\* it sleeps and lists again.
Deadline(p) ==
  /\ pc[p] = "late"
  /\ \/ Goto(p, "list") /\ UNCHANGED <<queue, stamp, view, ahead>>
     \/ Gone(p) /\ queue' = queue \ {Me(p)}
  /\ UNCHANGED <<clock, lock, kills, directs>>

\* cleanup; trap -; exec "$@"
Become(p) ==
  /\ pc[p] = "leave" /\ Goto(p, "run") /\ Forget(p) /\ queue' = queue \ {Me(p)}
  /\ UNCHANGED <<clock, lock, kills, directs>>

Caller(p) == \/ WriteTicket(p) \/ ListQueue(p) \/ Inspect(p) \/ ClearStale(p)
             \/ TryLock(p) \/ Deadline(p) \/ Become(p)
-----------------------------------------------------------------------------
(* ITS SURROUNDINGS *)

\* The flock goes with the last descriptor of it: a background child of the
\* command may keep one longer than the command.
Release(p, heirs) == IF lock = p THEN lock' \in heirs ELSE UNCHANGED lock

Finish(p) ==
  /\ pc[p] = "run" /\ Gone(p) /\ Release(p, {"free", "child"})
  /\ UNCHANGED <<clock, queue, kills, directs>>

ChildEnds ==
  /\ lock = "child" /\ lock' = "free"
  /\ UNCHANGED <<clock, pc, stamp, view, ahead, queue, kills, directs>>

\* SIGKILL, or a signal before the traps are set: the ticket stays.
Kill(p) ==
  /\ pc[p] # "none" /\ kills < MaxKills /\ kills' = kills + 1
  /\ Gone(p) /\ Release(p, IF pc[p] = "run" THEN {"free", "child"} ELSE {"free"})
  /\ UNCHANGED <<clock, queue, directs>>

\* TERM or INT with the traps set
Terminate(p) ==
  /\ Waiting(p) \/ pc[p] = "leave"
  /\ Gone(p) /\ queue' = queue \ {Me(p)} /\ Release(p, {"free"})
  /\ UNCHANGED <<clock, kills, directs>>

\* "Callers that flock .board.lock directly still respect the lock but skip
\* the queue"
DirectTakes ==
  /\ lock = "free" /\ directs < MaxDirect
  /\ lock' = "direct" /\ directs' = directs + 1
  /\ UNCHANGED <<clock, pc, stamp, view, ahead, queue, kills>>

DirectEnds ==
  /\ lock = "direct" /\ lock' = "free"
  /\ UNCHANGED <<clock, pc, stamp, view, ahead, queue, kills, directs>>

Over == /\ clock = MaxArrivals /\ lock = "free" /\ \A p \in Pids : pc[p] = "none"
        /\ UNCHANGED vars

Next ==
  \/ \E p \in Pids : Arrive(p) \/ Caller(p) \/ Finish(p) \/ Kill(p) \/ Terminate(p)
  \/ ChildEnds \/ DirectTakes \/ DirectEnds \/ Over

Spec == Init /\ [][Next]_vars

\* Callers keep polling and commands end.
FairSpec == /\ Spec /\ WF_vars(ChildEnds) /\ WF_vars(DirectEnds)
            /\ \A p \in Pids : WF_vars(Caller(p)) /\ WF_vars(Finish(p))
-----------------------------------------------------------------------------
(* PROPERTIES *)

TypeOK ==
  /\ clock \in Times /\ kills \in 0 .. MaxKills /\ directs \in 0 .. MaxDirect
  /\ pc \in [Pids -> {"none", "stamped", "leave", "run"} \cup Polling]
  /\ stamp \in [Pids -> Times]
  /\ queue \subseteq Tickets /\ view \in [Pids -> SUBSET Tickets]
  /\ ahead \in [Pids -> SUBSET Tickets]
  /\ lock \in Pids \cup {"free", "child", "direct"}

\* One command at a time drives the board, and while it does nobody else, its
\* predecessors' background children included, holds the flock.
BoardExclusive == \A p \in Pids : pc[p] \in {"leave", "run"} => lock = p

\* Whatever dies and whatever pid is given out again, nobody removes the
\* ticket of a caller that still waits: without it the caller would poll until
\* its deadline, since an absent ticket is never the head.
TicketKept == \A p \in Pids : Waiting(p) => Me(p) \in queue

\* First come, first served: a caller does not get the board while a caller
\* whose ticket it lined up behind still waits.
Passed(p) == {t \in ahead[p] : t \in queue /\ pc[t.pid] \in Polling /\ Me(t.pid) = t}
NoOvertaking ==
  [][\A p \in Pids : lock # p /\ lock' = p => Passed(p) = {}]_vars

\* A ticket whose caller is dead but whose pid is another with_board.sh's.
Ghost(t) == pc[t.pid] \notin {"none", "run"} /\ t # Me(t.pid)

\* "Nothing can wedge the queue": unless a dead caller's pid goes to another
\* caller, every caller that waits gets the board, dies or runs out of time;
\* and running out of time is never what it takes, because a behaviour in
\* which no deadline passes is one of them.
NoWedge ==
  [](\A t \in queue : ~Ghost(t)) => \A p \in Pids : Waiting(p) ~> ~Waiting(p)
=============================================================================
