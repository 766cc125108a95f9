------------------------------ MODULE KernOps ------------------------------
(***************************************************************************)
(* What the scheduling modules share: the process table, the list of       *)
(* one-shot events of oslib/kl/event1.c, and the account of the processor  *)
(* time of the running task (kern_epilogue_macro).                         *)
(*                                                                         *)
(* A primitive of the kernel is a chain of calls into the levels.  Each    *)
(* call is an operator from a kernel state k, a record, to the next one.   *)
(*                                                                         *)
(*   status, exec_shadow     of proc_table, and the task that runs         *)
(*   nopreempt, capped       the tasks with NO_PREEMPT, with CONTROL_CAP   *)
(*   avail, wcet             avail_time and wcet of each task              *)
(*   edf, rr, dline          the ready queues, and the key of the EDF one  *)
(*   events                  the event list: [time, handler, pid] records  *)
(*   resched                 event_need_reschedule was called              *)
(*   schedule_time, cap_lasttime                                           *)
(*   release, adeadline, nact, late, dl_miss, U                            *)
(*                           the fields of the EDF level (module EDFLevel) *)
(*   frozen, frozen_activations                                            *)
(*                           the tasks with FREEZE_ACTIVATION; the count   *)
(*   cbs_dline, asleep, and release (reactivation_time) and nact again     *)
(*                           the fields of the CBS level (module CBSLevel) *)
(***************************************************************************)
EXTENDS IqueueOps, Sums

CONSTANTS
  Periodic, Sporadic, \* the tasks of the EDF level
  Soft,               \* those of the CBS level
  RrTasks,            \* those of the RR level
  Main, Dummy,        \* the main task, of the RR level, and the idle task
  NIL

Edf == Periodic \cup Sporadic
Ranked == Edf \cup Soft  \* what the EDF queue holds
Pids == Ranked \cup RrTasks \cup {Dummy}

ASSUME PidAssumption ==
  /\ Main \in RrTasks
  /\ NIL \notin Pids /\ Dummy \notin Ranked \cup RrTasks
  /\ Periodic \cap Sporadic = {} /\ Edf \cap Soft = {}
  /\ Ranked \cap RrTasks = {}

VARIABLES
  now, \* the clock
  k    \* the kernel state

Status(kk, p, st) == [kk EXCEPT !.status[p] = st]

-----------------------------------------------------------------------------
(* The event list *)

\* oneshot_event_post: behind the events, from the first one on, whose time comes
\* before; so among the events of the same time the newest is the first.
Post(kk, handler, p, t) ==
  LET i == CHOOSE i \in 0 .. Len(kk.events) :
             /\ \A j \in 1 .. i : kk.events[j].time < t
             /\ i < Len(kk.events) => kk.events[i + 1].time >= t
  IN  [kk EXCEPT !.events = SubSeq(@, 1, i)
                              \o <<[time |-> t, handler |-> handler, pid |-> p]>>
                              \o SubSeq(@, i + 1, Len(@))]

Posted(kk, handler, p) ==
  \E i \in DOMAIN kk.events : kk.events[i].handler = handler /\ kk.events[i].pid = p

\* oneshot_event_delete, of an event that may have fired already.  The fields
\* that hold an event's index are -1 exactly when it is not in the list.
Unpost(kk, handler, p) ==
  LET e == CHOOSE e \in Members(kk.events) : e.handler = handler /\ e.pid = p
  IN  IF Posted(kk, handler, p) THEN [kk EXCEPT !.events = Extract(e, @)] ELSE kk

\* The first event of the list is due.
Due(kk) == kk.events # <<>> /\ kk.events[1].time <= now

-----------------------------------------------------------------------------
(* kern_epilogue_macro: the running task is charged for the time since its   *)
(* dispatch, and the event that would have stopped it is deleted.            *)

kern_epilogue_macro(kk) ==
  LET x == kk.exec_shadow
      charged == IF x \in kk.capped THEN now - kk.cap_lasttime ELSE 0
  IN  Unpost([kk EXCEPT !.schedule_time = now, !.avail[x] = @ - charged],
             "capacity", NIL)
=============================================================================
