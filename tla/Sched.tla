------------------------------- MODULE Sched -------------------------------
(***************************************************************************)
(* The generic scheduler of kernel/kern.c over the levels EDF, with the    *)
(* CBS level as its guest, then Round Robin, then the dummy task; with the *)
(* primitives that call it and the interrupts of the event list.           *)
(*                                                                         *)
(* A primitive runs with interrupts disabled and is one action.  In an     *)
(* interrupt the due events are served one after the other, then the       *)
(* scheduler is called if an event asked for it.  Time passes only when no *)
(* event is due.                                                           *)
(***************************************************************************)
EXTENDS RRLevel, CBSLevel

CONSTANTS
  Horizon,      \* bound: the time at which the clock stops
  MaxCalls,     \* bound: calls other than those of a periodic or sporadic life
  Activators,   \* the tasks that create and activate others
  Delays,       \* the lengths of nanosleep to consider
  DisableAnyJob, \* FALSE: task_disable is called only between two jobs, of a
                 \* task whose server is not in debt
  Timely,        \* the EDF tasks whose jobs only compute, and at most their cost
  Preemptible,   \* the tasks that never call task_nopreempt
  Freezable,     \* the tasks whose activations may be blocked
  EndsExhausted  \* FALSE: no job of a soft task ends at the very moment its budget
                 \* does while another activation is saved

ASSUME SchedAssumption ==
  /\ {Horizon, MaxCalls} \subseteq Nat /\ Delays \subseteq Nat
  /\ DisableAnyJob \in BOOLEAN
  /\ Activators \cup Preemptible \cup Freezable \subseteq Pids /\ Timely \subseteq Edf
  /\ Timely # {} => WcetCheck
  /\ EndsExhausted \in BOOLEAN

VARIABLES
  calls,  \* how many of the calls that MaxCalls bounds were made
  irq,    \* an interrupt is being served
  base,   \* history: the deadline of the first job after an activation, or NIL;
          \* of a soft task, the time of that activation
  done,   \* history: the jobs ended since that activation
  missed, \* history: the deadlines at which a job was not over
  waited, \* history: how long other RR tasks ran since a ready task's turn
  used,   \* history: the earliest deadline, times cost[p], that a bandwidth of
          \* cost[p] in period[p] allows for the time a soft task has run since
          \* any of its wake-ups
  delayed,\* history: a task has been non-preemptive
  arrived \* history: how many activations it has had, if it saves them

softHistory == <<used, delayed, arrived>>
vars == <<now, k, calls, irq, base, done, missed, waited, softHistory>>

-----------------------------------------------------------------------------
(* The levels, by task *)

public_epilogue(kk, p) ==
  CASE p \in Edf -> EDF_epilogue(kk, p)
    [] p \in Soft -> CBS_epilogue(kk, p)
    [] p \in RrTasks -> RR_epilogue(kk, p)
    [] p = Dummy -> Status(kk, p, "SLEEP")
public_dispatch(kk, p) ==
  CASE p \in Edf -> EDF_dispatch(kk, p)
    [] p \in Soft -> CBS_dispatch(kk, p)
    [] p \in RrTasks -> RR_dispatch(kk, p)
    [] p = Dummy -> kk
public_unblock(kk, p) ==
  CASE p \in Edf -> EDF_unblock(kk, p)
    [] p \in Soft -> CBS_unblock(kk, p)
    [] p \in RrTasks -> RR_unblock(kk, p)
public_block(kk, p) == IF p \in Soft THEN CBS_block(kk, p) ELSE kk
public_activate(kk, p) ==
  CASE p \in Edf -> EDF_activate(kk, p)
    [] p \in Soft -> CBS_activate(kk, p)
    [] p \in RrTasks -> RR_activate(kk, p)
public_create(kk, p) ==
  CASE p \in Edf -> EDF_create(kk, p)
    [] p \in Soft -> CBS_create(kk, p)
    [] p \in RrTasks -> RR_create(kk, p)
public_message(kk, p, m) ==
  CASE p \in Edf -> EDF_message(kk, p, m)
    [] p \in Soft -> CBS_message(kk, p, m)
    [] p \in RrTasks -> RR_message(kk, p)
public_end(kk, p) ==
  CASE p \in Edf -> EDF_end(kk, p)
    [] p \in Soft -> CBS_end(kk, p)
    [] p \in RrTasks -> RR_end(kk, p)

-----------------------------------------------------------------------------
(* scheduler() *)

\* Mutant: the RR level is asked first.
Select_rr(kk) ==
  IF kk.rr # <<>> THEN [RR_scheduler(kk) EXCEPT !.exec_shadow = Head(RR_scheduler(kk).rr)]
  ELSE [kk EXCEPT !.exec_shadow = IF kk.edf # <<>> THEN Head(kk.edf) ELSE Dummy]
\* public_eligible, repeated until the head of the EDF queue agrees to run: the
\* tasks before the first eligible one get later deadlines.
Eligible(kk) ==
  LET q == kk.edf
      n == CHOOSE i \in 0 .. Len(q) :
             /\ \A j \in 1 .. i : Ineligible(kk, q[j])
             /\ i < Len(q) => ~Ineligible(kk, q[i + 1])
      after[i \in 0 .. n] == IF i = 0 THEN kk ELSE CBS_renewed(after[i - 1], q[i])
  IN  after[n]
\* The loop over the levels: the first that has a task names the next to run.
Select(kk) ==
  LET checked == Eligible(kk)
      rotated == RR_scheduler(kk)
  IN  IF kk.edf # <<>> THEN [checked EXCEPT !.exec_shadow = Head(checked.edf)]
      ELSE IF kk.rr # <<>> THEN [rotated EXCEPT !.exec_shadow = Head(rotated.rr)]
      ELSE [kk EXCEPT !.exec_shadow = Dummy]

\* The task in exec_shadow leaves its queue and runs, for the time it has.
Dispatch(kk) ==
  LET p == kk.exec_shadow
      k1 == [public_dispatch(Status(kk, p, "EXE"), p) EXCEPT
               !.cap_lasttime = kk.schedule_time]
  IN  IF p \in kk.capped
        THEN Post(k1, "capacity", NIL, kk.schedule_time + kk.avail[p])
        ELSE k1

scheduler(kk) ==
  CASE kk.exec_shadow = NIL -> Dispatch(Select(kk))
    [] kk.exec_shadow \in kk.nopreempt -> kk
    [] OTHER -> Dispatch(Select(public_epilogue(kern_epilogue_macro(kk),
                                                kk.exec_shadow)))

\* Blocking primitives leave the processor before they call scheduler().
GiveUp(kk) == scheduler([kk EXCEPT !.exec_shadow = NIL])

\* What is left of event_need_reschedule outside an interrupt is reset by the
\* prologue of the next one.
Return(kk) == k' = [kk EXCEPT !.resched = FALSE]

-----------------------------------------------------------------------------
(* The primitives *)

\* The kernel has started: only the dummy task exists.
k0 == [status |-> [p \in Pids |-> IF p = Dummy THEN "SLEEP" ELSE "FREE"],
       exec_shadow |-> NIL, nopreempt |-> {}, capped |-> {},
       avail |-> [p \in Pids |-> 0], wcet |-> [p \in Pids |-> -1],
       edf |-> <<>>, rr |-> <<>>, dline |-> [p \in Ranked |-> 0],
       events |-> <<>>, resched |-> FALSE, schedule_time |-> 0, cap_lasttime |-> 0,
       release |-> [p \in Ranked |-> 0], adeadline |-> [p \in Edf |-> 0],
       nact |-> [p \in Ranked |-> 0], late |-> {}, dl_miss |-> [p \in Edf |-> 0],
       U |-> 0, cbs_dline |-> [p \in Soft |-> 0], asleep |-> {},
       frozen |-> {}, frozen_activations |-> [p \in Freezable |-> 0]]

\* The RR level has created and activated the main task, which runs.
Started == scheduler(RR_activate(RR_create(k0, Main), Main))

Init ==
  /\ now = 0
  /\ k = Started
  /\ irq = FALSE
  /\ calls = 0
  /\ base = [p \in Ranked |-> NIL]
  /\ done = [p \in Ranked |-> 0]
  /\ missed = [p \in Edf |-> {}]
  /\ waited = [p \in RrTasks |-> 0]
  /\ used = [p \in Soft |-> 0]
  /\ delayed = FALSE
  /\ arrived = [p \in SaveArrivals |-> 0]

Running(x) == ~irq /\ k.exec_shadow = x /\ x # Dummy

\* A ready task keeps waiting until it runs or is given a slice, its turn.
StillWaiting ==
  waited' = [p \in RrTasks |->
    IF k'.status[p] = "READY" /\ k'.avail[p] <= k.avail[p] THEN waited[p] ELSE 0]
\* A soft task that wakes up begins a new interval over which to compare.
Active(st) == st \in {"READY", "EXE"}
NoteWakeUps ==
  used' = [p \in Soft |->
    IF Active(k'.status[p]) /\ ~Active(k.status[p])
      THEN IF used[p] < cost[p] * now THEN cost[p] * now ELSE used[p]
      ELSE used[p]]
Noted == StillWaiting /\ NoteWakeUps
Counted == calls < MaxCalls /\ calls' = calls + 1
NoJob == UNCHANGED <<base, done, missed, delayed, arrived>>

Forget(p) ==
  /\ missed' = IF p \in Edf THEN [missed EXCEPT ![p] = {}] ELSE missed
  /\ used' = IF p \in Soft THEN [used EXCEPT ![p] = 0] ELSE used
  /\ arrived' = IF p \in SaveArrivals THEN [arrived EXCEPT ![p] = 0] ELSE arrived
  /\ done' = IF p \in Ranked THEN [done EXCEPT ![p] = 0] ELSE done
  /\ UNCHANGED delayed

\* The flag and the count of p are those of a new descriptor again.
Unfreeze(kk, p) ==
  IF p \in Freezable
    THEN [kk EXCEPT !.frozen = @ \ {p}, !.frozen_activations[p] = 0] ELSE kk

\* The creations at the start, while no task but the main one is active, do not
\* count.
StartUp == now = 0 /\ \A p \in Pids \ {Main} : k.status[p] \in {"FREE", "SLEEP"}

task_create(x, p) ==
  /\ Running(x) /\ x \in Activators /\ k.status[p] = "FREE"
  /\ Return(Unfreeze(public_create(k, p), p))
  /\ Forget(p)
  /\ IF StartUp THEN UNCHANGED calls ELSE Counted
  /\ StillWaiting /\ UNCHANGED <<now, irq, base>>

\* An activation while a job is not over, or that starts a new life; that of a
\* disabled task only enables what is due.
IsDue(p) == k.status[p] = "IDLE" /\ k.release[p] <= now
Arrives(p) ==
  \/ k.status[p] = "SLEEP"
  \/ k.status[p] # "ZOMBIE" /\ (p \in k.asleep => IsDue(p))
NoteArrival(p) ==
  arrived' = IF p \in SaveArrivals /\ Arrives(p)
               THEN [arrived EXCEPT ![p] = @ + 1] ELSE arrived

task_activate(x, p) ==
  /\ Running(x) /\ x \in Activators /\ k.status[p] # "FREE" /\ p \notin k.frozen
  /\ Return(scheduler(public_activate(k, p)))
  /\ base' = IF p \in Ranked /\ k.status[p] = "SLEEP"
               THEN [base EXCEPT ![p] = now + IF p \in Edf THEN offset[p] + rdeadline[p]
                                              ELSE 0]
               ELSE base
  /\ done' = IF p \in Edf /\ k.status[p] = "SLEEP" THEN [done EXCEPT ![p] = 0] ELSE done
  /\ IF p \in Edf \cup SoftPeriodic /\ k.status[p] = "SLEEP" THEN UNCHANGED calls
     ELSE Counted
  /\ NoteArrival(p)
  /\ Noted /\ UNCHANGED <<now, irq, missed, delayed>>

\* While the activations of p are blocked, they are counted.
task_activate_frozen(x, p) ==
  /\ Running(x) /\ x \in Activators /\ k.status[p] # "FREE" /\ p \in k.frozen
  /\ Return([k EXCEPT !.frozen_activations[p] = @ + 1])
  /\ arrived' = IF p \in SaveArrivals THEN [arrived EXCEPT ![p] = @ + 1] ELSE arrived
  /\ Counted /\ Noted /\ UNCHANGED <<now, irq, base, done, missed, delayed>>

\* Blocking what is blocked already keeps the count.
task_block_activation(x, p) ==
  /\ Running(x) /\ x \in Activators /\ k.status[p] # "FREE" /\ p \in Freezable
  /\ Return(IF p \in k.frozen THEN k
            ELSE [k EXCEPT !.frozen = @ \cup {p}, !.frozen_activations[p] = 0])
  /\ IF p \in k.frozen THEN UNCHANGED calls ELSE Counted
  /\ Noted /\ NoJob /\ UNCHANGED <<now, irq>>

\* The count is given to the caller, who may activate p as often.
task_unblock_activation(x, p) ==
  /\ Running(x) /\ x \in Activators /\ k.status[p] # "FREE" /\ p \in k.frozen
  /\ Return(Unfreeze(k, p))
  /\ arrived' = IF p \in SaveArrivals
                  THEN [arrived EXCEPT ![p] = @ - k.frozen_activations[p]] ELSE arrived
  /\ Noted /\ UNCHANGED <<now, calls, irq, base, done, missed, delayed>>

\* What the running task has left, the time since its dispatch included.
Left(p) ==
  k.avail[p] - IF k.exec_shadow = p /\ p \in k.capped THEN now - k.cap_lasttime ELSE 0

task_endcycle(x) ==
  /\ Running(x)
  /\ x \in Soft /\ k.nact[x] > 0 => Left(x) > 0 \/ EndsExhausted
  /\ Return(GiveUp(public_message(kern_epilogue_macro(k), x, "endcycle")))
  /\ done' = IF x \in Edf \cup SaveArrivals THEN [done EXCEPT ![x] = @ + 1] ELSE done
  /\ IF x \in Ranked THEN UNCHANGED calls ELSE Counted
  /\ Noted /\ UNCHANGED <<now, irq, base, missed, delayed, arrived>>

\* The server of p is not behind: what it has used is covered by the periods
\* that have passed.
NotInDebt(p) == p \in Soft => k.cbs_dline[p] <= k.release[p]

\* task_disable does not call the scheduler.
task_disable(x, p) ==
  /\ Running(x) /\ Counted /\ p \in Periodic \cup SoftPeriodic
  /\ base[p] # NIL /\ ((k.status[p] = "IDLE" /\ NotInDebt(p)) \/ DisableAnyJob)
  /\ ~Posted(k, "offset", p)
  /\ Return(public_message(k, p, "disable"))
  /\ base' = IF p \in Periodic THEN [base EXCEPT ![p] = NIL] ELSE base
  \* an activation that is due, and not served yet, will not be one
  /\ arrived' = IF p \in SaveArrivals /\ p \notin k.asleep /\ IsDue(p)
                  THEN [arrived EXCEPT ![p] = @ - 1] ELSE arrived
  /\ Noted /\ UNCHANGED <<now, irq, done, missed, delayed>>

nanosleep(x, d) ==
  /\ Running(x) /\ Counted /\ x \notin Timely
  /\ LET k1 == Status(public_block(kern_epilogue_macro(k), x), x, "WAIT_NANOSLEEP")
     IN  Return(GiveUp(Post(k1, "delay", x, now + d)))
  /\ Noted /\ NoJob /\ UNCHANGED <<now, irq>>

\* task_makefree: the time since the dispatch is not charged.
task_end(x) ==
  /\ Running(x) /\ Counted /\ x # Main
  /\ LET k1 == [public_end(k, x) EXCEPT !.schedule_time = now]
     IN  Return(GiveUp(Unpost(k1, "capacity", NIL)))
  /\ base' = IF x \in Ranked THEN [base EXCEPT ![x] = NIL] ELSE base
  /\ Noted /\ UNCHANGED <<now, irq, done, missed, delayed, arrived>>

task_nopreempt(x) ==
  /\ Running(x) /\ Counted /\ x \notin k.nopreempt \cup Preemptible
  /\ Return(Unpost([k EXCEPT !.nopreempt = @ \cup {x}], "capacity", NIL))
  /\ delayed' = TRUE
  /\ Noted /\ UNCHANGED <<now, irq, base, done, missed, arrived>>

task_preempt(x) ==
  /\ Running(x) /\ x \in k.nopreempt
  /\ Return(scheduler([k EXCEPT !.nopreempt = @ \ {x}]))
  /\ Noted /\ NoJob /\ UNCHANGED <<now, calls, irq>>

-----------------------------------------------------------------------------
(* The clock *)

\* nanosleep_timer
delay_timer(kk, p) == [public_unblock(kk, p) EXCEPT !.resched = TRUE]

\* oneshot_wake_up takes the first event off the list and calls its handler.
event(e) ==
  LET kk == [k EXCEPT !.events = Tail(@)]
  IN  /\ e = k.events[1]
      /\ k' = CASE e.handler = "capacity" -> [kk EXCEPT !.resched = TRUE]
                [] e.handler = "delay" -> delay_timer(kk, e.pid)
                [] e.handler = "endperiod" -> EDF_timer_endperiod(kk, e.pid)
                [] e.handler = "deadline" -> EDF_timer_deadline(kk, e.pid)
                [] e.handler = "offset" -> EDF_timer_offset(kk, e.pid)
                [] e.handler = "reactivate" -> CBS_timer_reactivate(kk, e.pid)
                [] e.handler = "zombie" -> CBS_timer_zombie(kk, e.pid)
      /\ irq' = TRUE
      /\ Noted /\ NoJob /\ UNCHANGED <<now, calls>>

wake_up == Due(k) /\ event(k.events[1])

\* The job of p whose deadline timer is set for this moment is not over.
Overdue(p) ==
  /\ base[p] # NIL
  /\ LET since == now - (base[p] - rdeadline[p]) - DeadlineTimer(p)
         n == IF p \in Periodic THEN since \div period[p] ELSE 0
     IN  since >= 0 /\ since = n * period[p] /\ done[p] <= n

NoteOverdue ==
  missed' = [p \in Edf |-> missed[p] \cup (IF Overdue(p) THEN {now} ELSE {})]

\* The end of the interrupt: the epilogue set by event_need_reschedule.
reschedule ==
  /\ irq /\ ~Due(k)
  /\ irq' = FALSE
  /\ Return(IF k.resched THEN scheduler(k) ELSE k)
  /\ NoteOverdue
  /\ Noted /\ UNCHANGED <<now, calls, base, done, delayed, arrived>>

\* The next activation of a soft periodic task is at the time t.
NextArrival(p, t) ==
  /\ p \in SoftPeriodic /\ base[p] # NIL /\ p \notin k.asleep
  /\ (t - base[p]) % period[p] = 0

tick ==
  /\ ~irq /\ ~Due(k) /\ now < Horizon
  /\ k.exec_shadow \in Timely => Left(k.exec_shadow) > 0
  /\ now' = now + 1
  /\ NoteOverdue
  /\ waited' = [p \in RrTasks |->
       IF k.status[p] = "READY"
         THEN waited[p] + (IF k.exec_shadow \in RrTasks \ k.nopreempt THEN 1 ELSE 0)
         ELSE 0]
  /\ used' = [p \in Soft |-> used[p] + (IF k.exec_shadow = p THEN period[p] ELSE 0)]
  /\ arrived' = [p \in SaveArrivals |->
       arrived[p] + (IF NextArrival(p, now + 1) THEN 1 ELSE 0)]
  /\ UNCHANGED <<k, calls, irq, base, done, delayed>>

-----------------------------------------------------------------------------
Primitive(x) ==
  \/ \E p \in Ranked \cup RrTasks : \/ task_create(x, p)
                                 \/ task_activate(x, p)
                                 \/ task_activate_frozen(x, p)
                                 \/ task_block_activation(x, p)
                                 \/ task_unblock_activation(x, p)
                                 \/ task_disable(x, p)
  \/ task_endcycle(x)
  \/ \E d \in Delays : nanosleep(x, d)
  \/ task_end(x)
  \/ task_nopreempt(x)
  \/ task_preempt(x)

Next == wake_up \/ reschedule \/ tick \/ \E x \in Pids : Primitive(x)

Spec == Init /\ [][Next]_vars

-----------------------------------------------------------------------------
(* Properties *)

SchedTypeOK ==
  /\ k.status \in [Pids -> {"FREE", "SLEEP", "READY", "EXE", "IDLE", "WAIT",
                            "ZOMBIE", "WAIT_NANOSLEEP"}]
  /\ k.exec_shadow \in Pids
  /\ k.nopreempt \subseteq Pids /\ k.capped \subseteq Pids
  /\ k.late \subseteq Sporadic
  /\ k.nact \in [Ranked -> Nat] /\ k.dl_miss \in [Edf -> Nat]
  /\ k.edf \in Seq(Ranked) /\ k.rr \in Seq(RrTasks)
  /\ irq \in BOOLEAN

\* Each ready task is once in the queue of its level, no other task is, and the
\* EDF queue is in the order of the deadlines; releases, time-outs, wake-ups
\* and preemptions put tasks in, and only a dispatch takes one out.
QueuesExact ==
  /\ SchedTypeOK
  /\ Distinct(k.edf) /\ Distinct(k.rr)
  /\ Members(k.edf) = {p \in Ranked : \/ k.status[p] = "READY"
                                      \/ k.status[p] = "EXE" /\ k.exec_shadow # p}
  /\ Members(k.rr) = {p \in RrTasks : k.status[p] = "READY"}
  /\ \A i, j \in DOMAIN k.edf : i < j => k.dline[k.edf[i]] <= k.dline[k.edf[j]]

\* Outside interrupts, and unless it has made itself non-preemptive, the task
\* that runs is the one with the earliest deadline, a Round Robin task runs
\* only if no EDF task can, and the dummy task only if no task can: no
\* primitive or event makes a task ready without a reschedule.
RunsTheRightTask ==
  LET x == k.exec_shadow
  IN  ~irq /\ x \notin k.nopreempt =>
        /\ \A q \in Members(k.edf) : x \in Ranked /\ k.dline[x] <= k.dline[q]
        /\ x = Dummy => k.rr = <<>>

InJob(p) == k.status[p] \in {"READY", "EXE", "WAIT_NANOSLEEP"}

\* Jobs that arrive while the last one is not over are queued, none is lost or
\* run twice, and each runs with the deadline of its own arrival time, however
\* late it is (edf.h: "eventually scheduled with correct deadlines").
CorrectDeadlines ==
  /\ \A p \in Edf : InJob(p) /\ base[p] # NIL =>
       k.dline[p] = base[p] + done[p] * period[p]
  /\ \A p \in Periodic : base[p] # NIL /\ ~irq /\ ~Due(k) =>
       LET since == now - (base[p] - rdeadline[p])
           released == IF since < 0 THEN 0 ELSE since \div period[p] + 1
       IN  done[p] + k.nact[p] + (IF InJob(p) THEN 1 ELSE 0) = released

\* dl_miss counts each job that is not over at its deadline once, although
\* there is one timer for all the jobs of a task.
DeadlineMissExact ==
  ~irq /\ ~Due(k) =>
    \A p \in Edf : k.status[p] # "FREE" =>
      k.dl_miss[p] = Cardinality(missed[p])

\* The timers of a task fit its state: what waits for the end of a period or
\* for a time will be woken, and a task that has ended, or sleeps, leaves no
\* event behind for the next owner of the descriptor.
TimersMatch ==
  /\ \A i, j \in DOMAIN k.events :
       /\ k.events[i].handler = k.events[j].handler
       /\ k.events[i].pid = k.events[j].pid
       => i = j
  /\ \A p \in Pids : Posted(k, "delay", p) <=> k.status[p] = "WAIT_NANOSLEEP"
  /\ \A p \in Edf :
       LET st == k.status[p]
           waits == Posted(k, "endperiod", p)
       IN  /\ st \in {"FREE", "SLEEP"} => ~waits
           /\ st \in {"WAIT", "ZOMBIE"} => waits
           /\ st = "IDLE" => waits \/ Posted(k, "offset", p)
           /\ InJob(p) => waits \/ p \in k.late
           /\ Posted(k, "offset", p) => st = "IDLE" /\ ~waits
           /\ Posted(k, "deadline", p) => InJob(p)

\* oneshot_wake_up saves the event that follows the one it serves, and goes on
\* with it: the list stays whole only because no handler deletes that event, if
\* it is due, or posts another before it.
EventLoopSafe ==
  [][(irq' /\ Len(k.events) > 1 /\ k.events[2].time <= now) =>
       k'.events # <<>> /\ k'.events[1] = k.events[2]]_vars

\* Between two turns of a ready Round Robin task each other task of the level
\* runs for at most a slice, whatever preempts, sleeps or is activated; a turn is
\* used up without a run only by a task that owes the level time.
RrShare ==
  \A p \in RrTasks :
    waited[p] <= SumOf(slice, RrTasks \ {p})

\* From any of its wake-ups to its current deadline a server never gives its
\* task more than its share of the time, what is left of the budget included:
\* rule 7 for wake-ups, postponed deadlines, late dispatches, saved activations
\* (up to the rounding of rule 7).
ServerBandwidth ==
  \A p \in Soft : k.status[p] \in {"READY", "EXE", "IDLE", "WAIT_NANOSLEEP"} =>
    used[p] + period[p] * Left(p) < cost[p] * (k.cbs_dline[p] + 1)

\* As long as no task makes itself non-preemptive, the jobs of the hard tasks
\* that keep to their cost have had all of it by their deadlines, although the
\* soft tasks run for as long as they like (cbs.h: of a task that uses more time
\* than declared "the deadline is postponed").
HardIsolation ==
  \A p \in Timely : InJob(p) /\ ~delayed /\ k.dline[p] <= now => Left(p) <= 0

\* The activations of a soft task that saves them are all run, or wait in nact,
\* or are counted until its activations are no longer blocked.
NoArrivalLost ==
  ~irq /\ ~Due(k) =>
    \A p \in SaveArrivals : k.status[p] \notin {"FREE", "ZOMBIE"} =>
      done[p] + k.nact[p] + (IF InJob(p) THEN 1 ELSE 0)
        + (IF p \in k.frozen THEN k.frozen_activations[p] ELSE 0) = arrived[p]

\* The bandwidth that the guarantee counts as used is that of the tasks that
\* exist: it is freed once, with the descriptor, at whatever time that is.
BandwidthExact ==
  k.U = SumOf([p \in Edf |-> Bandwidth(p, cost[p])],
              {p \in Edf : k.status[p] # "FREE"})
=============================================================================
