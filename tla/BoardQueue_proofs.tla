-------------------------- MODULE BoardQueue_proofs --------------------------
(***************************************************************************)
(* Theorems about the board queue, for every set of pids, every number of  *)
(* callers, of kills and of commands that skip the queue.                  *)
(*                                                                         *)
(* That nobody loses its ticket and that nobody is overtaken both need to  *)
(* know what a listing is worth when it is used: QueueInv says that a      *)
(* ticket judged dead is nobody's who waits (Doomed), although its pid may *)
(* be given out again, because a new caller's arrival time is its own      *)
(* (Fresh); and that the callers p lined up behind are still in p's        *)
(* listing while p goes through it (Turn).                                 *)
(***************************************************************************)
EXTENDS BoardQueue, TLAPS, WellFoundedInduction

\* Nothing is dated later than now.
Dated ==
  /\ \A p \in Pids : stamp[p] <= clock
  /\ \A t \in queue : t.at <= clock
  /\ \A p \in Pids : \A t \in view[p] \cup ahead[p] : t.at <= clock

\* A ticket not written yet is in nobody's listing.
Fresh == \A q \in Pids : pc[q] = "stamped" =>
           /\ Me(q) \notin queue
           /\ \A p \in Pids : Me(q) \notin view[p] /\ Me(q) \notin ahead[p]

\* The ticket about to be removed is nobody's who waits.
Doomed == \A p \in Pids : pc[p] = "clear" =>
            /\ view[p] # {}
            /\ \A q \in Pids : Waiting(q) => Oldest(view[p]) # Me(q)

\* Who p lined up behind is older, and in the listing p goes through.
Turn == \A p \in Pids :
          /\ pc[p] \in {"none", "run"} => ahead[p] = {}
          /\ \A t \in ahead[p] : t.at < stamp[p]
          /\ pc[p] \in {"scan", "clear"} => Passed(p) \subseteq view[p]
          /\ pc[p] = "try" => Passed(p) = {}

QueueInv == TypeOK /\ BoardExclusive /\ TicketKept /\ Dated /\ Fresh /\ Doomed /\ Turn
-----------------------------------------------------------------------------
\* A set of numbers that is not empty has a least one.
LEMMA LeastNat ==
  ASSUME NEW T, T \subseteq Nat, T # {}
  PROVE  \E x \in T : \A y \in T : x <= y
<1> DEFINE R == OpToRel(<, Nat)
<1>1. IsWellFoundedOn(R, Nat)
  BY NatLessThanWellFounded
<1>2. PICK x \in T : \A y \in T : ~(<<y, x>> \in R)
  <2> HIDE DEF R
  <2> QED BY <1>1, WFMin
<1>3. ASSUME NEW y \in T, y < x PROVE FALSE
  <2>1. <<y, x>> \in R
    BY <1>3 DEF OpToRel
  <2> QED BY <1>2, <2>1
<1> HIDE DEF R
<1> QED BY <1>2, <1>3

\* ls | sort: the head of a listing that is not empty is one of its tickets,
\* and none is older.
LEMMA OldestIsLeast ==
  ASSUME NEW ts \in SUBSET Tickets, ts # {}
  PROVE  Oldest(ts) \in ts /\ \A t \in ts : Oldest(ts).at <= t.at
<1>0. \A t \in Tickets : t.at \in Nat
  BY QueueAssumption DEF Tickets, Times
<1>1. {t.at : t \in ts} \subseteq Nat /\ {t.at : t \in ts} # {}
  BY <1>0
<1>2. PICK x \in {t.at : t \in ts} : \A y \in {t.at : t \in ts} : x <= y
  BY <1>1, LeastNat
<1>3. \E t \in ts : \A u \in ts : t.at <= u.at
  BY <1>2
<1> QED BY <1>3 DEF Oldest

\* Every step is one of these.
LEMMA Steps ==
  ASSUME Next
  PROVE  \/ \E p \in Pids : \/ Arrive(p) \/ WriteTicket(p) \/ ListQueue(p) \/ Inspect(p)
                            \/ ClearStale(p) \/ TryLock(p) \/ Deadline(p) \/ Become(p)
                            \/ Finish(p) \/ Kill(p) \/ Terminate(p)
         \/ ChildEnds \/ DirectTakes \/ DirectEnds \/ UNCHANGED vars
BY DEF Next, Caller, Over
-----------------------------------------------------------------------------
\* The queue starts empty and the board free.
LEMMA InitInv == Init => QueueInv
BY QueueAssumption DEF Init, QueueInv, TypeOK, BoardExclusive, TicketKept, Dated, Fresh,
   Doomed, Turn, Passed, Times, Waiting, Polling

\* Every step keeps the types: a ticket is only written by the caller it names.
LEMMA TypeStep == TypeOK /\ [Next]_vars => TypeOK'
<1> USE QueueAssumption DEF TypeOK, Times, Polling
<1> SUFFICES ASSUME TypeOK, [Next]_vars PROVE TypeOK'
  OBVIOUS
<1>0. \A p \in Pids : Me(p) \in Tickets
  BY DEF Me, Tickets
<1>1. ASSUME NEW p \in Pids, Arrive(p) PROVE TypeOK'
  BY <1>1 DEF Arrive, Goto, Tickets
<1>2. ASSUME NEW p \in Pids, WriteTicket(p) PROVE TypeOK'
  BY <1>0, <1>2 DEF WriteTicket, Goto
<1>3. ASSUME NEW p \in Pids, ListQueue(p) \/ Inspect(p) PROVE TypeOK'
  BY <1>3 DEF ListQueue, Inspect, Goto
<1>4. ASSUME NEW p \in Pids, ClearStale(p) PROVE TypeOK'
  BY <1>4 DEF ClearStale, Goto, Named
<1>5. ASSUME NEW p \in Pids, TryLock(p) PROVE TypeOK'
  BY <1>5 DEF TryLock, Goto
<1>6. ASSUME NEW p \in Pids, Deadline(p) \/ Become(p) PROVE TypeOK'
  BY <1>6 DEF Deadline, Become, Gone, Forget, Goto
<1>7. ASSUME NEW p \in Pids, Finish(p) \/ Kill(p) \/ Terminate(p) PROVE TypeOK'
  BY <1>7 DEF Finish, Kill, Terminate, Gone, Forget, Goto, Release
<1>8. CASE ChildEnds \/ DirectTakes \/ DirectEnds
  BY <1>8 DEF ChildEnds, DirectTakes, DirectEnds
<1>9. CASE UNCHANGED vars
  BY <1>9 DEF vars
<1> QED BY <1>1, <1>2, <1>3, <1>4, <1>5, <1>6, <1>7, <1>8, <1>9, Steps

\* Every step keeps the board exclusive: it is taken only where it is free.
LEMMA ExclusiveStep == TypeOK /\ BoardExclusive /\ [Next]_vars => BoardExclusive'
<1> USE QueueAssumption DEF TypeOK, BoardExclusive, Polling
<1> SUFFICES ASSUME TypeOK, BoardExclusive, [Next]_vars PROVE BoardExclusive'
  OBVIOUS
<1>1. ASSUME NEW p \in Pids, Arrive(p) \/ WriteTicket(p) \/ ListQueue(p) \/ Inspect(p)
                             \/ ClearStale(p)
      PROVE  BoardExclusive'
  BY <1>1 DEF Arrive, WriteTicket, ListQueue, Inspect, ClearStale, Goto
<1>2. ASSUME NEW p \in Pids, TryLock(p) PROVE BoardExclusive'
  BY <1>2 DEF TryLock, LockFree, Goto
<1>3. ASSUME NEW p \in Pids, Deadline(p) \/ Become(p) PROVE BoardExclusive'
  BY <1>3 DEF Deadline, Become, Gone, Goto
<1>4. ASSUME NEW p \in Pids, Finish(p) \/ Kill(p) \/ Terminate(p) PROVE BoardExclusive'
  BY <1>4 DEF Finish, Kill, Terminate, Gone, Goto, Release
<1>5. CASE ChildEnds \/ DirectTakes \/ DirectEnds
  BY <1>5 DEF ChildEnds, DirectTakes, DirectEnds
<1>6. CASE UNCHANGED vars
  BY <1>6 DEF vars
<1> QED BY <1>1, <1>2, <1>3, <1>4, <1>5, <1>6, Steps

\* Tickets of two callers are different files.
LEMMA OwnTickets ==
  ASSUME NEW p \in Pids, NEW q \in Pids, p # q
  PROVE  Me(p) # Me(q) /\ Me(p)' # Me(q)
BY DEF Me

\* A caller that waits keeps its ticket: only the doomed ones are cleared.
LEMMA KeptStep ==
  ASSUME TypeOK, TicketKept, Doomed, [Next]_vars
  PROVE  TicketKept'
<1> USE DEF TypeOK, TicketKept, Waiting, Polling
<1>1. ASSUME NEW p \in Pids, Arrive(p) PROVE TicketKept'
  BY <1>1 DEF Arrive, Goto, Me
<1>2. ASSUME NEW p \in Pids, WriteTicket(p) PROVE TicketKept'
  BY <1>2 DEF WriteTicket, Goto, Me
<1>3. ASSUME NEW p \in Pids, ListQueue(p) \/ Inspect(p) \/ TryLock(p) PROVE TicketKept'
  BY <1>3 DEF ListQueue, Inspect, TryLock, Goto, Me
<1>4. ASSUME NEW p \in Pids, ClearStale(p) PROVE TicketKept'
  <2>1. \A q \in Pids : Waiting(q) => Oldest(view[p]) # Me(q)
    BY <1>4 DEF ClearStale, Doomed
  <2> QED BY <1>4, <2>1 DEF ClearStale, Goto, Named, Me
<1>5. ASSUME NEW p \in Pids,
             Deadline(p) \/ Become(p) \/ Finish(p) \/ Kill(p) \/ Terminate(p)
      PROVE  TicketKept'
  <2>1. /\ queue \ {Me(p)} \subseteq queue'
        /\ \A q \in Pids \ {p} : pc'[q] = pc[q] /\ stamp'[q] = stamp[q]
        /\ pc'[p] \in Polling => queue' = queue /\ stamp' = stamp /\ pc[p] \in Polling
    BY <1>5 DEF Deadline, Become, Finish, Kill, Terminate, Gone, Forget, Goto
  <2> QED BY <2>1 DEF Me
<1>6. CASE ChildEnds \/ DirectTakes \/ DirectEnds
  BY <1>6 DEF ChildEnds, DirectTakes, DirectEnds, Me
<1>7. CASE UNCHANGED vars
  BY <1>7 DEF vars, Me
<1> QED BY <1>1, <1>2, <1>3, <1>4, <1>5, <1>6, <1>7, Steps

\* No step dates a ticket later than the clock.
LEMMA DatedStep ==
  ASSUME TypeOK, Dated, [Next]_vars
  PROVE  Dated'
<1> USE QueueAssumption DEF TypeOK, Dated, Times, Tickets
<1>1. ASSUME NEW p \in Pids, Arrive(p) PROVE Dated'
  <2>1. clock \in Nat /\ clock' = clock + 1 /\ stamp' = [stamp EXCEPT ![p] = clock + 1]
        /\ queue' = queue /\ view' = view /\ ahead' = ahead
    BY <1>1 DEF Arrive
  <2>2. \A q \in Pids : stamp'[q] <= clock'
    BY <2>1
  <2>3. \A t \in Tickets : t.at \in Nat /\ (t.at <= clock => t.at <= clock')
    BY <2>1
  <2> QED BY <2>1, <2>2, <2>3
<1>2. ASSUME NEW p \in Pids, WriteTicket(p) PROVE Dated'
  BY <1>2 DEF WriteTicket, Me
<1>3. ASSUME NEW p \in Pids, ListQueue(p) \/ Inspect(p) \/ ClearStale(p) \/ TryLock(p)
      PROVE  Dated'
  BY <1>3 DEF ListQueue, Inspect, ClearStale, Named, TryLock
<1>4. ASSUME NEW p \in Pids,
             Deadline(p) \/ Become(p) \/ Finish(p) \/ Kill(p) \/ Terminate(p)
      PROVE  Dated'
  BY <1>4 DEF Deadline, Become, Finish, Kill, Terminate, Gone, Forget
<1>5. CASE ChildEnds \/ DirectTakes \/ DirectEnds
  BY <1>5 DEF ChildEnds, DirectTakes, DirectEnds
<1>6. CASE UNCHANGED vars
  BY <1>6 DEF vars
<1> QED BY <1>1, <1>2, <1>3, <1>4, <1>5, <1>6, Steps

\* A caller about to write its ticket is in nobody's listing.
LEMMA FreshStep ==
  ASSUME TypeOK, Dated, Fresh, [Next]_vars
  PROVE  Fresh'
<1> USE QueueAssumption DEF TypeOK, Fresh, Polling
<1>1. ASSUME NEW p \in Pids, Arrive(p) PROVE Fresh'
  <2>1. clock \in Nat /\ stamp' = [stamp EXCEPT ![p] = clock + 1]
        /\ queue' = queue /\ view' = view /\ ahead' = ahead
        /\ pc' = [pc EXCEPT ![p] = "stamped"]
    BY <1>1 DEF Arrive, Goto, Times
  <2>2. Me(p)'.at = clock + 1
    BY <2>1 DEF Me
  <2>3. \A t \in Tickets : t.at <= clock => t # Me(p)'
    BY <2>1, <2>2 DEF Tickets, Times
  <2>4. \A q \in Pids \ {p} : Me(q)' = Me(q) /\ pc'[q] = pc[q]
    BY <2>1 DEF Me
  <2>5. Me(p)' \notin queue /\ \A q \in Pids : Me(p)' \notin view[q] /\ Me(p)' \notin ahead[q]
    BY <2>3 DEF Dated
  <2> QED BY <2>1, <2>4, <2>5
<1>2. ASSUME NEW p \in Pids, WriteTicket(p) PROVE Fresh'
  BY <1>2, OwnTickets DEF WriteTicket, Goto, Me
<1>3. ASSUME NEW p \in Pids, ListQueue(p) \/ Inspect(p) \/ ClearStale(p) \/ TryLock(p)
      PROVE  Fresh'
  BY <1>3 DEF ListQueue, Inspect, ClearStale, Named, TryLock, Goto, Me
<1>4. ASSUME NEW p \in Pids,
             Deadline(p) \/ Become(p) \/ Finish(p) \/ Kill(p) \/ Terminate(p)
      PROVE  Fresh'
  BY <1>4 DEF Deadline, Become, Finish, Kill, Terminate, Gone, Forget, Goto, Me
<1>5. CASE ChildEnds \/ DirectTakes \/ DirectEnds
  BY <1>5 DEF ChildEnds, DirectTakes, DirectEnds, Me
<1>6. CASE UNCHANGED vars
  BY <1>6 DEF vars, Me
<1> QED BY <1>1, <1>2, <1>3, <1>4, <1>5, <1>6, Steps
\* Whoever waits after a step waited with the same ticket before it, or has
\* just written one nobody else has seen.
LEMMA WhoWaits ==
  ASSUME TypeOK, Next, NEW q \in Pids, Waiting(q)'
  PROVE  Me(q)' = Me(q) /\ (Waiting(q) \/ (pc[q] = "stamped" /\ WriteTicket(q)))
<1> USE DEF TypeOK, Waiting, Polling
<1>1. ASSUME NEW p \in Pids, Arrive(p) \/ WriteTicket(p)
      PROVE  Me(q)' = Me(q) /\ (Waiting(q) \/ (pc[q] = "stamped" /\ WriteTicket(q)))
  BY <1>1 DEF Arrive, WriteTicket, Goto, Me
<1>2. ASSUME NEW p \in Pids, ListQueue(p) \/ Inspect(p) \/ ClearStale(p) \/ TryLock(p)
      PROVE  Me(q)' = Me(q) /\ Waiting(q)
  BY <1>2 DEF ListQueue, Inspect, ClearStale, TryLock, Goto, Me
<1>3. ASSUME NEW p \in Pids,
             Deadline(p) \/ Become(p) \/ Finish(p) \/ Kill(p) \/ Terminate(p)
      PROVE  Me(q)' = Me(q) /\ Waiting(q)
  BY <1>3 DEF Deadline, Become, Finish, Kill, Terminate, Gone, Forget, Goto, Me
<1>4. ASSUME ChildEnds \/ DirectTakes \/ DirectEnds \/ UNCHANGED vars
      PROVE  Me(q)' = Me(q) /\ Waiting(q)
  BY <1>4 DEF ChildEnds, DirectTakes, DirectEnds, vars, Me
<1> QED BY <1>1, <1>2, <1>3, <1>4, Steps

\* A process's listing changes by its own steps only.
LEMMA OwnView ==
  ASSUME TypeOK, Next, NEW p \in Pids, pc'[p] \in {"scan", "clear", "try"}
  PROVE  \/ pc'[p] = pc[p] /\ view'[p] = view[p] /\ ahead'[p] = ahead[p] /\ stamp'[p] = stamp[p]
         \/ ListQueue(p) \/ Inspect(p) \/ ClearStale(p)
<1> DEFINE Same == pc'[p] = pc[p] /\ view'[p] = view[p] /\ ahead'[p] = ahead[p]
                   /\ stamp'[p] = stamp[p]
<1> USE DEF TypeOK, Polling
<1>1. ASSUME NEW q \in Pids, q # p,
             Arrive(q) \/ WriteTicket(q) \/ ListQueue(q) \/ Inspect(q) \/ ClearStale(q) \/ TryLock(q)
      PROVE  Same
  BY <1>1 DEF Arrive, WriteTicket, ListQueue, Inspect, ClearStale, TryLock, Goto
<1>2. ASSUME NEW q \in Pids, q # p,
             Deadline(q) \/ Become(q) \/ Finish(q) \/ Kill(q) \/ Terminate(q)
      PROVE  Same
  BY <1>2 DEF Deadline, Become, Finish, Kill, Terminate, Gone, Forget, Goto
<1>3. ~Arrive(p) /\ ~WriteTicket(p) /\ ~TryLock(p)
  BY DEF Arrive, WriteTicket, TryLock, Goto
<1>4. ~Deadline(p) /\ ~Become(p) /\ ~Finish(p) /\ ~Kill(p) /\ ~Terminate(p)
  BY DEF Deadline, Become, Finish, Kill, Terminate, Gone, Goto
<1>5. ASSUME ChildEnds \/ DirectTakes \/ DirectEnds \/ UNCHANGED vars PROVE Same
  BY <1>5 DEF ChildEnds, DirectTakes, DirectEnds, vars
<1> QED BY <1>1, <1>2, <1>3, <1>4, <1>5, Steps

\* The ticket about to be cleared is nobody's who waits.
LEMMA DoomedStep ==
  ASSUME TypeOK, Fresh, Doomed, [Next]_vars
  PROVE  Doomed'
<1>1. CASE UNCHANGED vars
  BY <1>1 DEF vars, Doomed, Waiting, Me
<1>2. ASSUME Next, NEW p \in Pids, pc'[p] = "clear"
      PROVE  view'[p] # {} /\ \A q \in Pids : Waiting(q)' => Oldest(view'[p]) # Me(q)'
  <2>1. CASE Inspect(p)
    <3>1. /\ view' = view /\ view[p] # {} /\ pc' = [pc EXCEPT ![p] = "clear"]
          /\ stamp' = stamp /\ ~Live(Oldest(view[p]).pid)
      BY <2>1, <1>2 DEF Inspect, Goto, TypeOK
    <3>2. \A q \in Pids : Waiting(q)' => Me(q)' = Me(q) /\ Me(q).pid = q /\ Live(q)
      BY <3>1, <2>1 DEF Waiting, Polling, Live, Me, TypeOK, Inspect
    <3> QED BY <3>1, <3>2
  <2>2. CASE pc[p] = "clear" /\ view'[p] = view[p]
    <3>1. view[p] # {} /\ Oldest(view[p]) \in view[p]
      BY <2>2, OldestIsLeast DEF Doomed, TypeOK
    <3>2. ASSUME NEW q \in Pids, Waiting(q)' PROVE Oldest(view[p]) # Me(q)'
      BY <3>1, <3>2, <1>2, <2>2, WhoWaits DEF Doomed, Fresh
    <3> QED BY <3>1, <3>2, <2>2
  <2> QED BY <1>2, <2>1, <2>2, OwnView DEF ListQueue, ClearStale, Goto, TypeOK
<1> QED BY <1>1, <1>2 DEF Doomed

\* A caller passed by is one of those passed by before.
LEMMA PassedShrinks ==
  ASSUME TypeOK, Fresh, Next, NEW p \in Pids, ahead'[p] = ahead[p]
  PROVE  Passed(p)' \subseteq Passed(p)
<1> SUFFICES ASSUME NEW t \in ahead[p], t \in queue', pc'[t.pid] \in Polling, Me(t.pid)' = t
             PROVE  t \in queue /\ pc[t.pid] \in Polling /\ Me(t.pid) = t
  BY DEF Passed
<1>1. t.pid \in Pids
  BY DEF TypeOK, Tickets
<1>2. Me(t.pid) = t /\ Waiting(t.pid)
  BY <1>1, WhoWaits DEF Waiting, Fresh
<1>3. \A q \in Pids : WriteTicket(q) => Me(q) # t
  BY DEF WriteTicket, Fresh
<1>4. queue' \subseteq queue \/ \E q \in Pids : WriteTicket(q)
  BY Steps DEF Arrive, ListQueue, Inspect, ClearStale, TryLock, Deadline, Become, Finish,
     Kill, Terminate, ChildEnds, DirectTakes, DirectEnds, vars
<1>5. t \in queue
  BY <1>3, <1>4 DEF WriteTicket
<1> QED BY <1>2, <1>5 DEF Waiting

\* Whoever was lined up behind stays in the listing being gone through.
LEMMA TurnStep ==
  ASSUME QueueInv, [Next]_vars
  PROVE  Turn'
<1> USE DEF QueueInv
<1>1. CASE UNCHANGED vars
  BY <1>1 DEF vars, Turn, Passed, Me
<1>2. ASSUME Next, NEW p \in Pids
      PROVE  /\ pc'[p] \in {"none", "run"} => ahead'[p] = {}
             /\ \A t \in ahead'[p] : t.at < stamp'[p]
  <2> USE DEF TypeOK, Turn, Polling
  <2>1. ASSUME NEW q \in Pids, Arrive(q) \/ WriteTicket(q)
        PROVE  /\ pc'[p] \in {"none", "run"} => ahead'[p] = {}
               /\ \A t \in ahead'[p] : t.at < stamp'[p]
    BY <2>1 DEF Arrive, WriteTicket, Goto
  <2>2. ASSUME NEW q \in Pids, ListQueue(q) \/ Inspect(q) \/ ClearStale(q) \/ TryLock(q)
        PROVE  /\ pc'[p] \in {"none", "run"} => ahead'[p] = {}
               /\ \A t \in ahead'[p] : t.at < stamp'[p]
    BY <2>2 DEF ListQueue, Inspect, ClearStale, TryLock, Goto
  <2>3. ASSUME NEW q \in Pids,
               Deadline(q) \/ Become(q) \/ Finish(q) \/ Kill(q) \/ Terminate(q)
        PROVE  /\ pc'[p] \in {"none", "run"} => ahead'[p] = {}
               /\ \A t \in ahead'[p] : t.at < stamp'[p]
    BY <2>3 DEF Deadline, Become, Finish, Kill, Terminate, Gone, Forget, Goto
  <2>4. CASE ChildEnds \/ DirectTakes \/ DirectEnds \/ UNCHANGED vars
    BY <2>4 DEF ChildEnds, DirectTakes, DirectEnds, vars
  <2> QED BY <1>2, <2>1, <2>2, <2>3, <2>4, Steps
<1>3. ASSUME Next, NEW p \in Pids, pc'[p] \in {"scan", "clear", "try"}
      PROVE  /\ pc'[p] \in {"scan", "clear"} => Passed(p)' \subseteq view'[p]
             /\ pc'[p] = "try" => Passed(p)' = {}
  <2> USE DEF TypeOK
  <2>1. CASE pc'[p] = pc[p] /\ view'[p] = view[p] /\ ahead'[p] = ahead[p]
    BY <1>3, <2>1, PassedShrinks DEF Turn
  <2>2. CASE ListQueue(p)
    <3>1. view'[p] = queue /\ pc'[p] = "scan" /\ queue' = queue
      BY <2>2 DEF ListQueue, Goto
    <3> QED BY <3>1 DEF Passed
  <2>3. CASE Inspect(p)
    <3>1. Passed(p)' \subseteq Passed(p) /\ Passed(p) \subseteq view[p]
      BY <1>3, <2>3, PassedShrinks DEF Inspect, Turn
    <3>2. CASE view'[p] = view[p] /\ pc'[p] = "clear"
      BY <3>1, <3>2
    <3>3. CASE view[p] # {} /\ Oldest(view[p]) = Me(p) /\ pc'[p] = "try"
      <4>1. ASSUME NEW t \in Passed(p) PROVE FALSE
        <5>1. t \in view[p] /\ t.at < stamp[p] /\ t \in Tickets
          BY <3>1 DEF Passed, Turn
        <5>2. stamp[p] <= t.at
          BY <3>3, <5>1, OldestIsLeast DEF Me
        <5> QED BY <5>1, <5>2, QueueAssumption DEF Tickets, Times
      <4> QED BY <3>1, <3>3, <4>1
    <3> QED BY <1>3, <2>3, <3>2, <3>3 DEF Inspect, Goto
  <2>4. CASE ClearStale(p)
    <3>1. Passed(p)' \subseteq Passed(p) /\ Passed(p) \subseteq view[p]
      BY <1>3, <2>4, PassedShrinks DEF ClearStale, Turn
    <3>2. view'[p] = view[p] \ {Oldest(view[p])} /\ pc'[p] = "scan"
      BY <2>4 DEF ClearStale, Goto
    <3>3. ASSUME NEW t \in Passed(p) PROVE t # Oldest(view[p])
      <4>1. t.pid \in Pids /\ Waiting(t.pid) /\ Me(t.pid) = t
        BY DEF Passed, Tickets, Waiting
      <4> QED BY <2>4, <4>1 DEF ClearStale, Doomed
    <3> QED BY <3>1, <3>2, <3>3
  <2> QED BY <1>3, <2>1, <2>2, <2>3, <2>4, OwnView
<1> QED BY <1>1, <1>2, <1>3 DEF Turn

\* Every step keeps the whole invariant.
LEMMA InvStep == QueueInv /\ [Next]_vars => QueueInv'
BY TypeStep, ExclusiveStep, KeptStep, DatedStep, FreshStep, DoomedStep, TurnStep DEF QueueInv
-----------------------------------------------------------------------------
(* THEOREMS *)

\* The inductive invariant of the queue.
THEOREM QueueHolds == Spec => []QueueInv
<1>1. QueueInv /\ [Next]_vars => QueueInv'
  BY InvStep
<1> QED BY InitInv, <1>1, PTL DEF Spec

\* Every variable keeps its type.
THEOREM TypeCorrect == Spec => []TypeOK
<1>1. QueueInv => TypeOK
  BY DEF QueueInv
<1> QED BY QueueHolds, <1>1, PTL

\* with_board.sh runs one command at a time, and nobody else holds the flock
\* while it does.
THEOREM BoardExclusiveHolds == Spec => []BoardExclusive
<1>1. QueueInv => BoardExclusive
  BY DEF QueueInv
<1> QED BY QueueHolds, <1>1, PTL

\* Nobody removes the ticket of a caller that still waits, whoever dies and
\* whatever pid is given out again.
THEOREM TicketKeptHolds == Spec => []TicketKept
<1>1. QueueInv => TicketKept
  BY DEF QueueInv
<1> QED BY QueueHolds, <1>1, PTL

\* A caller never gets the board before one whose ticket it lined up behind.
THEOREM NoOvertakingHolds == Spec => NoOvertaking
<1> DEFINE Fair == \A p \in Pids : lock # p /\ lock' = p => Passed(p) = {}
<1>1. QueueInv /\ [Next]_vars => [Fair]_vars
  <2> SUFFICES ASSUME QueueInv, Next, NEW p \in Pids, lock # p, lock' = p
               PROVE  Passed(p) = {}
    OBVIOUS
  <2> USE DEF QueueInv
  <2>1. TryLock(p)
    <3>1. ASSUME NEW q \in Pids, Finish(q) \/ Kill(q) \/ Terminate(q) PROVE FALSE
      BY <3>1, QueueAssumption DEF Finish, Kill, Terminate, Release
    <3>2. ASSUME NEW q \in Pids,
                 Arrive(q) \/ WriteTicket(q) \/ ListQueue(q) \/ Inspect(q) \/ ClearStale(q)
                 \/ Deadline(q) \/ Become(q)
          PROVE  FALSE
      BY <3>2 DEF Arrive, WriteTicket, ListQueue, Inspect, ClearStale, Deadline, Become
    <3>3. ~(ChildEnds \/ DirectTakes \/ DirectEnds \/ UNCHANGED vars)
      BY QueueAssumption DEF ChildEnds, DirectTakes, DirectEnds, vars
    <3>4. \A q \in Pids : TryLock(q) => q = p
      BY DEF TryLock
    <3> QED BY <3>1, <3>2, <3>3, <3>4, Steps
  <2> QED BY <2>1 DEF TryLock, Turn
<1> QED BY QueueHolds, <1>1, PTL DEF Spec, NoOvertaking
=============================================================================
