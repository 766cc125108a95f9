------------------------------ MODULE RRLevel ------------------------------
(***************************************************************************)
(* The Round Robin level, modules/rr/rr.c: a queue of tasks, each of which *)
(* runs for a slice, kept in wcet, and then goes to the tail.              *)
(***************************************************************************)
EXTENDS KernOps

CONSTANT slice  \* of each task of the level

ASSUME RrAssumption == \A p \in RrTasks : slice[p] \in Nat \ {0}

RR_create(kk, p) ==
  [Status(kk, p, "SLEEP") EXCEPT !.avail[p] = slice[p], !.wcet[p] = slice[p],
                                 !.capped = @ \cup {p}, !.nopreempt = @ \ {p}]

\* Mutant: a task that is out of time goes back to the head.
RR_epilogue_first(kk, p) ==
  IF kk.avail[p] <= 0
    THEN Status([kk EXCEPT !.avail[p] = @ + kk.wcet[p],
                           !.rr = InsertFirst(p, @)], p, "READY")
    ELSE Status([kk EXCEPT !.rr = InsertFirst(p, @)], p, "READY")
\* The running task goes back to the queue: to the tail, with a new slice, if it
\* is out of time.
RR_epilogue(kk, p) ==
  IF kk.avail[p] <= 0
    THEN Status([kk EXCEPT !.avail[p] = @ + kk.wcet[p],
                           !.rr = InsertLast(p, @)], p, "READY")
    ELSE Status([kk EXCEPT !.rr = InsertFirst(p, @)], p, "READY")

\* How many slices p must be given before it has time to run.
Owed(kk, p) == IF kk.avail[p] > 0 THEN 0 ELSE (-kk.avail[p]) \div kk.wcet[p] + 1

\* The loop of RR_public_scheduler, which ends with the task to run at the head:
\* each task without time gets a slice and goes to the tail.  The loop stops at
\* the first task that is owed the fewest slices, the tasks before it having had
\* one turn more than the others.
RR_scheduler(kk) ==
  LET q == kk.rr
      least(i) == \A j \in DOMAIN q : Owed(kk, q[i]) <= Owed(kk, q[j])
      first == CHOOSE i \in DOMAIN q : least(i) /\ \A j \in 1 .. i - 1 : ~least(j)
      turns == Owed(kk, q[first])
      before == {q[j] : j \in 1 .. first - 1}
  IN  [kk EXCEPT
         !.rr = SubSeq(q, first, Len(q)) \o SubSeq(q, 1, first - 1),
         !.avail = [p \in Pids |->
            kk.avail[p] + (IF p \in before THEN turns + 1
                           ELSE IF p \in Members(q) THEN turns ELSE 0)
                          * kk.wcet[p]]]

RR_dispatch(kk, p) == [kk EXCEPT !.rr = Extract(p, @)]

RR_unblock(kk, p) == Status([kk EXCEPT !.rr = InsertLast(p, @)], p, "READY")

\* An activation of a task that is not asleep is ignored.
RR_activate(kk, p) == IF kk.status[p] = "SLEEP" THEN RR_unblock(kk, p) ELSE kk

RR_message(kk, p) == Status(kk, p, "SLEEP")
RR_end(kk, p) == Status(kk, p, "FREE")
=============================================================================
