------------------------------ MODULE SchedInv ------------------------------
(***************************************************************************)
(* The invariants of the scheduler that its theorems are proved from: of   *)
(* the kernel state with its queues and timers, of the bandwidth, of the   *)
(* turns of the Round Robin tasks, and, for each task, of its jobs and     *)
(* deadlines with what is noted of them.                                   *)
(***************************************************************************)
EXTENDS Sched, IqueueOpsProofs

-----------------------------------------------------------------------------
(* What a kernel state is                                                  *)

Statuses == {"FREE", "SLEEP", "READY", "EXE", "IDLE", "WAIT", "ZOMBIE",
             "WAIT_NANOSLEEP"}

Handlers == {"capacity", "delay", "endperiod", "deadline", "offset",
             "reactivate", "zombie"}

Events == [time : Int, handler : Handlers, pid : Pids \cup {NIL}]

Event(h, p, t) == [time |-> t, handler |-> h, pid |-> p]

Kernels ==
  [status : [Pids -> Statuses], exec_shadow : Pids \cup {NIL},
   nopreempt : SUBSET Pids, capped : SUBSET Pids,
   avail : [Pids -> Int], wcet : [Pids -> Int],
   edf : Seq(Ranked), rr : Seq(RrTasks), dline : [Ranked -> Int],
   events : Seq(Events), resched : BOOLEAN,
   schedule_time : Int, cap_lasttime : Int,
   release : [Ranked -> Int], adeadline : [Edf -> Int],
   nact : [Ranked -> Nat], late : SUBSET Sporadic, dl_miss : [Edf -> Nat],
   U : Int, cbs_dline : [Soft -> Int], asleep : SUBSET Pids,
   frozen : SUBSET Freezable, frozen_activations : [Freezable -> Int]]

Fields == {"status", "exec_shadow", "nopreempt", "capped", "avail", "wcet", "edf",
           "rr", "dline", "events", "resched", "schedule_time", "cap_lasttime",
           "release", "adeadline", "nact", "late", "dl_miss", "U", "cbs_dline",
           "asleep", "frozen", "frozen_activations"}

\* r and kk differ in the fields of C only.
Same(r, kk, C) == \A f \in Fields \ C : r[f] = kk[f]

\* The event list: in the order of the times, one event for each handler and
\* task (TimedList), and to each handler the tasks it is for.
Addressed(e) ==
  /\ e.handler = "capacity" => e.pid = NIL
  /\ e.handler = "delay" => e.pid \in Pids
  /\ e.handler \in {"deadline", "endperiod", "offset"} => e.pid \in Edf
  /\ e.handler \in {"reactivate", "zombie"} => e.pid \in Soft

EventList(q) == TimedList(q, Events) /\ \A e \in Members(q) : Addressed(e)

Wellformed(kk) ==
  /\ kk \in Kernels
  /\ Distinct(kk.edf) /\ Distinct(kk.rr) /\ InOrder(kk.edf, kk.dline)
  /\ EventList(kk.events)

-----------------------------------------------------------------------------
(* The invariant of one task, p.  x is the task that has the processor, or *)
(* NIL within a primitive that has given it up; t is the time.             *)

Timers(kk, p) ==
  [h \in Handlers |->
     {e.time : e \in {c \in Members(kk.events) : c.handler = h /\ c.pid = p}}]

InJobs == {"READY", "EXE", "WAIT_NANOSLEEP"}

QueueOK(kk, x, p) ==
  /\ p \in Ranked => (p \in Members(kk.edf) <=> \/ kk.status[p] = "READY"
                                                \/ kk.status[p] = "EXE" /\ p # x)
  /\ p \in RrTasks => (p \in Members(kk.rr) <=> kk.status[p] = "READY")
  /\ kk.status[p] = "EXE" => p = x \/ p \in Edf
  /\ p = x => kk.status[p] = "EXE"
  /\ p = Dummy => kk.status[p] \in {"SLEEP", "EXE"}
  /\ p \in Soft \cup RrTasks /\ kk.status[p] # "FREE" => kk.wcet[p] > 0
  /\ p \in Edf /\ WcetCheck /\ kk.status[p] # "FREE" => kk.wcet[p] = cost[p]

\* Of an EDF task: a task that is late ended its period in a job; the timer of
\* the deadline, if it is set, fires before that of the end of the period.
EdfTimersOK(kk, p) ==
  LET st == kk.status[p]
      T == Timers(kk, p)
      waits == T["endperiod"] # {}
  IN  /\ st \in {"FREE", "SLEEP"} => ~waits
      /\ st \in {"WAIT", "ZOMBIE"} => waits
      /\ st = "IDLE" => waits \/ T["offset"] # {}
      /\ st = "IDLE" /\ p \in Sporadic => ~waits
      /\ st \in InJobs => waits \/ p \in kk.late
      /\ T["offset"] # {} => st = "IDLE" /\ ~waits
      /\ T["deadline"] # {} => st \in InJobs
      /\ p \in kk.late => st \in InJobs \cup {"FREE"} /\ ~waits /\ T["deadline"] = {}
      /\ \A a \in T["deadline"], b \in T["endperiod"] : a < b

CbsTimersOK(kk, p) ==
  LET st == kk.status[p]
      T == Timers(kk, p)
  IN  /\ T["zombie"] # {} => st = "ZOMBIE"
      /\ T["reactivate"] # {} => p \in SoftPeriodic /\ st \notin {"FREE", "SLEEP", "ZOMBIE"}

\* The timers of the releases are set for the next release.
ReleaseTimers == {"endperiod", "offset", "reactivate"}

ReleaseOK(kk, t, p) ==
  \A h \in ReleaseTimers : \A a \in Timers(kk, p)[h] : a = kk.release[p] /\ a >= t

TaskOK(kk, x, t, p) ==
  /\ QueueOK(kk, x, p)
  /\ Timers(kk, p)["delay"] # {} <=> kk.status[p] = "WAIT_NANOSLEEP"
  /\ p \in Edf => EdfTimersOK(kk, p)
  /\ p \in Soft => CbsTimersOK(kk, p)
  /\ p \in Ranked => ReleaseOK(kk, t, p)

AllOK(kk, x, t) == Wellformed(kk) /\ \A p \in Pids : TaskOK(kk, x, t, p)

-----------------------------------------------------------------------------
(* The inductive invariant.  Besides the queues and the timers of every    *)
(* task it says that a task made ready while another runs has asked for the *)
(* scheduler, and that only an interrupt may leave that request open.      *)

\* The running task is the right one, as far as the queues are concerned.
FirstRuns(kk) ==
  LET x == kk.exec_shadow
  IN  /\ \A q \in Members(kk.edf) : x \in Ranked /\ kk.dline[x] <= kk.dline[q]
      /\ x = Dummy => kk.rr = <<>>

Right(kk) ==
  kk.exec_shadow \notin kk.nopreempt /\ ~kk.resched => FirstRuns(kk)

IInv ==
  /\ now \in Int /\ irq \in BOOLEAN
  /\ k.exec_shadow \in Pids /\ AllOK(k, k.exec_shadow, now)
  /\ Right(k) /\ (irq \/ ~k.resched)

-----------------------------------------------------------------------------
(* The bandwidth that is in use                                            *)

Shares == [p \in Edf |-> Bandwidth(p, cost[p])]

Existing == {p \in Edf : k.status[p] # "FREE"}

BandwidthOK == IsFiniteSet(Bundle(Existing, Shares)) /\ k.U = SumOf(Shares, Existing)

-----------------------------------------------------------------------------
(* The life of an EDF task: what the functions of edf.c do to it.  Only the *)
(* fields of the kernel state that a job of the task p depends on are looked *)
(* at, and the statuses within a job are one.                              *)

Life(kk, p) ==
  [status |-> IF kk.status[p] \in InJobs THEN "JOB" ELSE kk.status[p],
   dline |-> kk.dline[p], release |-> kk.release[p], adeadline |-> kk.adeadline[p],
   nact |-> kk.nact[p], late |-> kk.late \cap {p}, dl_miss |-> kk.dl_miss[p],
   deadline |-> Timers(kk, p)["deadline"], endperiod |-> Timers(kk, p)["endperiod"],
   offset |-> Timers(kk, p)["offset"]]

Lives(p) ==
  [status : (Statuses \ InJobs) \cup {"JOB"}, dline : Int, release : Int,
   adeadline : Int, nact : Nat, late : SUBSET {p}, dl_miss : Nat,
   deadline : SUBSET Int, endperiod : SUBSET Int, offset : SUBSET Int]

LifeOf(st, dl, u, ad, n, la, m, d, e, o) ==
  [status |-> st, dline |-> dl, release |-> u, adeadline |-> ad, nact |-> n, late |-> la,
   dl_miss |-> m, deadline |-> d, endperiod |-> e, offset |-> o]

\* EDF_release
ReleaseLife(v, p) ==
  LET d == {v.release + DeadlineTimer(p)}
      u == v.release + period[p]
  IN  IF v.status = "IDLE"
        THEN LifeOf("JOB", v.adeadline, u, v.adeadline + period[p], v.nact,
                    v.late, v.dl_miss, d, {u}, v.offset)
        ELSE LifeOf(v.status, v.dline, u, v.adeadline, v.nact + 1,
                    v.late, v.dl_miss, d, {u}, v.offset)

\* The first release is set for u, and o tells the offset timer.
AwaitLife(v, p, u, o) ==
  LifeOf("IDLE", v.dline, u, u + rdeadline[p], v.nact, v.late, v.dl_miss,
         v.deadline, v.endperiod, o)

\* The end of the period, or the offset, is no more timed.
OverLife(v) ==
  LifeOf(v.status, v.dline, v.release, v.adeadline, v.nact, v.late, v.dl_miss,
         v.deadline, {}, v.offset)
BegunLife(v) ==
  LifeOf(v.status, v.dline, v.release, v.adeadline, v.nact, v.late, v.dl_miss,
         v.deadline, v.endperiod, {})

\* EDF_activate of a task that sleeps, at the time t
ActivateLife(v, p, t) ==
  LET u == t + offset[p]
      w == AwaitLife(v, p, u, v.offset)
  IN  IF u > t THEN AwaitLife(v, p, u, {u})
      ELSE ReleaseLife(w, p)

\* EDF_endcycle
EndcycleLife(v, p) ==
  IF v.nact > 0
    THEN LifeOf(v.status, v.adeadline, v.release, v.adeadline + period[p], v.nact - 1, v.late,
                v.dl_miss, v.deadline, v.endperiod, v.offset)
  ELSE LifeOf(IF p \in Sporadic THEN IF v.late # {} THEN "SLEEP" ELSE "WAIT" ELSE "IDLE",
              v.dline, v.release, v.adeadline, v.nact,
              IF p \in Sporadic THEN {} ELSE v.late, v.dl_miss, {}, v.endperiod, v.offset)

\* EDF_disable of a task between two jobs
DisableLife(v, p) ==
  IF v.nact = 0
    THEN LifeOf("WAIT", v.dline, v.release, v.adeadline, v.nact, v.late, v.dl_miss,
                {}, v.endperiod, v.offset)
    ELSE LifeOf("SLEEP", v.dline, v.release, v.adeadline, 0, v.late, v.dl_miss,
                {}, {}, v.offset)

\* EDF_end
EndLife(v, p) ==
  IF v.late # {}
    THEN LifeOf("FREE", v.dline, v.release, v.adeadline, v.nact, v.late, v.dl_miss,
                v.deadline, v.endperiod, v.offset)
    ELSE LifeOf("ZOMBIE", v.dline, v.release, v.adeadline, v.nact, v.late, v.dl_miss,
                {}, v.endperiod, v.offset)

\* EDF_timer_endperiod
EndperiodLife(v, p) ==
  CASE v.status = "ZOMBIE" ->
         LifeOf("FREE", v.dline, v.release, v.adeadline, v.nact, v.late, v.dl_miss,
                v.deadline, {}, v.offset)
    [] v.status = "WAIT" ->
         LifeOf("SLEEP", v.dline, v.release, v.adeadline, v.nact, v.late, v.dl_miss,
                v.deadline, {}, v.offset)
    [] OTHER ->
         IF p \in Sporadic
           THEN LifeOf(v.status, v.dline, v.release, v.adeadline, v.nact, {p}, v.dl_miss,
                       v.deadline, {}, v.offset)
           ELSE ReleaseLife(OverLife(v), p)

\* EDF_timer_deadline
DeadlineLife(v) ==
  LifeOf(v.status, v.dline, v.release, v.adeadline, v.nact, v.late, v.dl_miss + 1,
         {}, v.endperiod, v.offset)

\* EDF_timer_offset
OffsetLife(v, p) ==
  ReleaseLife(BegunLife(v), p)

\* EDF_create, where the bandwidth is available
CreateLife(v) ==
  LifeOf("SLEEP", v.dline, v.release, v.adeadline, 0, {}, 0,
         v.deadline, v.endperiod, v.offset)

\* The others live on as they did.
Lived(r, kk, p, v) ==
  Life(r, p) = v /\ \A q \in Edf : q # p => Life(r, q) = Life(kk, q)

-----------------------------------------------------------------------------
(* What may happen to an EDF task in a step of the system                  *)

HistoryOK ==
  /\ base \in [Ranked -> Int \cup {NIL}] /\ done \in [Ranked -> Nat]
  /\ missed \in [Edf -> SUBSET Int]

\* What the invariant says of the timers of p, in terms of its life.
LifeOK(v, p, t) ==
  /\ v \in Lives(p) /\ (v.late # {} => p \in Sporadic)
  /\ v.status \in {"FREE", "SLEEP"} => v.endperiod = {}
  /\ v.status \in {"WAIT", "ZOMBIE"} => v.endperiod # {}
  /\ v.status = "IDLE" => v.endperiod # {} \/ v.offset # {}
  /\ v.status = "IDLE" /\ p \in Sporadic => v.endperiod = {}
  /\ v.status = "JOB" => v.endperiod # {} \/ v.late # {}
  /\ v.offset # {} => v.status = "IDLE" /\ v.endperiod = {}
  /\ v.deadline # {} => v.status = "JOB"
  /\ v.late # {} => v.status \in {"JOB", "FREE"} /\ v.endperiod = {} /\ v.deadline = {}
  /\ \A a \in v.endperiod \cup v.offset : a = v.release /\ a >= t

\* What may happen to an EDF task p in a step: nothing, time passes or an interrupt
\* ends, a call of a task, or one of its own timers.
Stays(p) == base'[p] = base[p] /\ done'[p] = done[p]

Nothing(p) ==
  /\ Life(k', p) = Life(k, p) /\ Stays(p) /\ missed'[p] = missed[p]
  /\ now' = now /\ (irq' = irq \/ irq')

Passes(p) ==
  /\ Life(k', p) = Life(k, p) /\ Stays(p)
  /\ missed'[p] = missed[p] \cup (IF Overdue(p) THEN {now} ELSE {})
  /\ ~Due(k) /\ ~irq'
  /\ \A a \in Life(k, p).deadline \cup Life(k, p).endperiod \cup Life(k, p).offset : a >= now + 1
  /\ \/ ~irq /\ now' = now + 1
     \/ irq /\ now' = now

Called == now' = now /\ ~irq /\ ~irq'

Created(p) ==
  /\ Called /\ Life(k, p).status = "FREE"
  /\ Life(k', p) = CreateLife(Life(k, p)) \/ Life(k', p) = Life(k, p)
  /\ base'[p] = base[p] /\ done'[p] = 0 /\ missed'[p] = {}

Activated(p) ==
  /\ Called /\ Life(k, p).status = "SLEEP"
  /\ Life(k', p) = ActivateLife(Life(k, p), p, now)
  /\ base'[p] = now + (offset[p] + rdeadline[p]) /\ done'[p] = 0 /\ missed'[p] = missed[p]

Ended(p) ==
  /\ Called /\ Life(k, p).status = "JOB" /\ Life(k', p) = EndcycleLife(Life(k, p), p)
  /\ base'[p] = base[p] /\ done'[p] = done[p] + 1 /\ missed'[p] = missed[p]

Disabled(p) ==
  /\ Called /\ p \in Periodic /\ Life(k, p).status = "IDLE"
  /\ Life(k', p) = DisableLife(Life(k, p), p)
  /\ base'[p] = NIL /\ done'[p] = done[p] /\ missed'[p] = missed[p]

Over(p) ==
  /\ Called /\ Life(k, p).status = "JOB" /\ Life(k', p) = EndLife(Life(k, p), p)
  /\ base'[p] = NIL /\ done'[p] = done[p] /\ missed'[p] = missed[p]

Fires(p) == now' = now /\ irq' /\ Stays(p) /\ missed'[p] = missed[p]

DeadlineFires(p) ==
  /\ Fires(p) /\ Life(k', p) = DeadlineLife(Life(k, p))
  /\ \E t \in Int : t <= now /\ Life(k, p).deadline = {t}

OffsetFires(p) ==
  /\ Fires(p) /\ Life(k', p) = OffsetLife(Life(k, p), p)
  /\ Life(k, p).status = "IDLE" /\ Life(k, p).release <= now

EndperiodFires(p) ==
  /\ Fires(p) /\ Life(k', p) = EndperiodLife(Life(k, p), p)
  /\ Life(k, p).endperiod # {} /\ Life(k, p).release <= now

Steps(p) ==
  \/ Nothing(p) \/ Passes(p) \/ Created(p) \/ Activated(p) \/ Ended(p)
  \/ Disabled(p) \/ Over(p) \/ DeadlineFires(p) \/ OffsetFires(p) \/ EndperiodFires(p)

-----------------------------------------------------------------------------
(* The jobs of an EDF task: how many were released, with what deadlines    *)

\* How long n periods of p last.
Time(p, n) == n * period[p]

\* One when the life v is in a job.
Busy(v) == IF v.status = "JOB" THEN 1 ELSE 0

\* The life v of p at the time t, of which d jobs have ended since an activation
\* that set the deadline b for the first.
Jobs(v, b, d, t, p) ==
  LET n == d + v.nact + Busy(v)
  IN  /\ v.status \in {"SLEEP", "WAIT", "IDLE"} \/ p \in Sporadic => v.nact = 0
      /\ b # NIL =>
           /\ \/ v.status \in {"IDLE", "JOB"}
              \/ p \in Sporadic /\ v.status \in {"WAIT", "SLEEP"} /\ d >= 1
           /\ v.status \in {"IDLE", "JOB"} =>
                /\ v.adeadline = b + Time(p, d + Busy(v))
                /\ v.release = b - rdeadline[p] + Time(p, n)
                /\ n = 0 \/ v.release - period[p] <= t
                /\ v.status = "JOB" => v.dline = b + Time(p, d)

JobsOK == \A p \in Edf : Jobs(Life(k, p), base[p], done[p], now, p)

-----------------------------------------------------------------------------
(* The deadlines an EDF task has missed                                    *)

\* The date of the deadline timer that the last release of p has set, if any.
Date(v, p) == v.release - period[p] + DeadlineTimer(p)

\* That date, when the timer has fired and no job has come in between.
Miss(v, p) == IF v.status = "JOB" /\ v.deadline = {} THEN {Date(v, p)} ELSE {}

\* The moment whose misses are noted when the interrupt ends.
Serving == IF irq THEN {now} ELSE {}

\* The life v of p at the time t, of which the deadlines m are noted as missed, and
\* those of s may be noted: b and d are as in Jobs.
Misses(v, m, s, b, d, t, p) ==
  /\ v.status \in {"IDLE", "JOB"} => b # NIL /\ (p \in Sporadic => d = 0)
  /\ \A x \in v.deadline : x = Date(v, p) /\ x >= t /\ \A y \in m : y < x
  /\ \A y \in m : y <= t
  /\ Miss(v, p) \subseteq m \cup s
  /\ v.status \in {"IDLE", "JOB", "WAIT"} => \A y \in m : y < v.release
  /\ v.status = "SLEEP" => \A y \in m : y < t
  /\ v.late # {} => v.release <= t
  /\ v.status # "FREE" => IsFiniteSet(m) /\ v.dl_miss = Cardinality(m \cup Miss(v, p))

MissesOK ==
  \A p \in Edf : Misses(Life(k, p), missed[p], Serving, base[p], done[p], now, p)
-----------------------------------------------------------------------------
(* The activations of a soft task that saves them                          *)

\* What the scheduler never touches.
Quiet(r, kk) ==
  /\ r.asleep = kk.asleep /\ r.frozen = kk.frozen
  /\ r.frozen_activations = kk.frozen_activations

\* The scheduler's part of it, but for the flag of p.
Still(r, kk, p) ==
  /\ \A q \in Pids \ {p} : q \in r.asleep <=> q \in kk.asleep
  /\ r.frozen = kk.frozen /\ r.frozen_activations = kk.frozen_activations

\* p has a next period; its release time has come and will still be served.
Recurs(kk, p) == p \in SoftPeriodic /\ kk.status[p] \notin {"FREE", "SLEEP", "ZOMBIE"}
Ripe(kk, p, t) == IF Recurs(kk, p) /\ p \notin kk.asleep /\ kk.release[p] <= t THEN 1 ELSE 0

\* One in a job; the activations that are counted while they are blocked.
Within(kk, p) == IF kk.status[p] \in InJobs THEN 1 ELSE 0
Held(kk, p) == IF p \in kk.frozen THEN kk.frozen_activations[p] ELSE 0

\* The activations of p that are known of at the time t when d jobs have ended.
Known(kk, p, d, t) == d + kk.nact[p] + Within(kk, p) + Held(kk, p) + Ripe(kk, p, t)

\* An activation of p is counted while blocked, or begins or ends to be.
Freezes(x, p) ==
  task_activate_frozen(x, p) \/ task_block_activation(x, p) \/ task_unblock_activation(x, p)

\* The periods of p follow each other from the time b on.
Spaced(kk, p, b, t) ==
  Recurs(kk, p) =>
    /\ Timers(kk, p)["reactivate"] # {}
    /\ b # NIL /\ kk.release[p] - period[p] <= t
    /\ \E n \in Int : kk.release[p] = b + Time(p, n)

\* The task p at the time t, activated a times, of which d jobs have ended; b is the
\* time at which its life began, from which its periods are counted.
Arrivals(kk, p, b, d, a, t) ==
  LET st == kk.status[p]
  IN  /\ st \in {"FREE", "ZOMBIE"} => b = NIL
      /\ p \in kk.asleep => p \in SoftPeriodic /\ st \in {"IDLE", "SLEEP"}
      /\ p \in SoftPeriodic /\ st = "SLEEP" /\ p \notin kk.asleep => b = NIL
      /\ Spaced(kk, p, b, t)
      /\ st \notin {"FREE", "ZOMBIE"} => Known(kk, p, d, t) = a

ArrivalOK(p) == Arrivals(k, p, base[p], done[p], arrived[p], now)

ArrivalsOK == arrived \in [SaveArrivals -> Int] /\ \A p \in SaveArrivals : ArrivalOK(p)

\* As far as its activations are concerned, p is what it was.
ServerAs(r, kk, p) ==
  /\ r.status[p] = kk.status[p] \/ (r.status[p] \in InJobs /\ kk.status[p] \in InJobs)
  /\ r.release[p] = kk.release[p] /\ r.nact[p] = kk.nact[p]
  /\ p \in r.asleep <=> p \in kk.asleep
  /\ Held(r, p) = Held(kk, p)
  /\ Timers(r, p)["reactivate"] = Timers(kk, p)["reactivate"]
-----------------------------------------------------------------------------
(* The turns of the Round Robin tasks                                      *)

\* How long q may run before p does, if p is ready, x runs and t is the time: what
\* the running task has left, and the slices of those before p in the queue.
Claim(kk, x, t, p, q) ==
  IF q = x THEN kk.avail[q] - (t - kk.cap_lasttime)
  ELSE IF Sooner(kk.rr, q, p) THEN kk.avail[q] ELSE 0

Claims(kk, x, t, p) == [q \in RrTasks \ {p} |-> Claim(kk, x, t, p, q)]

\* r, in which y runs, follows kk, in which x did: p has not longer to wait.
NoLonger(r, y, kk, x, t, p) ==
  \A q \in RrTasks \ {p} : NotMore(Claim(r, y, t, p, q), Claim(kk, x, t, p, q))

\* No task that was ready has longer to wait, and it has the time it had,
Steady(r, y, kk, x, t) ==
  \A p \in RrTasks : kk.status[p] = "READY" =>
    r.status[p] = "READY" /\ r.avail[p] = kk.avail[p] /\ NoLonger(r, y, kk, x, t, p)

\* or else it has had its turn.
Fairly(r, y, kk, x, t) ==
  \A p \in RrTasks : kk.status[p] = "READY" /\ r.status[p] = "READY" =>
    r.avail[p] > kk.avail[p] \/ NoLonger(r, y, kk, x, t, p)

\* No task has more than a slice, and the time of each is limited.
Slice(kk, p) == p \in kk.capped /\ kk.wcet[p] = slice[p] /\ kk.avail[p] <= slice[p]
Slices(kk) == \A p \in RrTasks : kk.status[p] # "FREE" => Slice(kk, p)

\* An event stops the running task when it has no time left.
Caps(kk) ==
  LET x == kk.exec_shadow
  IN  x \in RrTasks \ kk.nopreempt =>
        Event("capacity", NIL, kk.cap_lasttime + kk.avail[x]) \in Members(kk.events)

\* The scheduler has been called, and an event will stop the task that runs.
Turned(r, kk, x, t) ==
  /\ Fairly(r, r.exec_shadow, kk, x, t) /\ Slices(r) /\ r.cap_lasttime <= t /\ Caps(r)

SlicesOK == Slices(k) /\ k.cap_lasttime <= now /\ (k.resched \/ Caps(k))

\* How long a ready task has waited, and may have to, is a slice of each other one.
ShareOK ==
  /\ waited \in [RrTasks -> Int]
  /\ \A p \in RrTasks :
       LET others == RrTasks \ {p}
       IN  IF k.status[p] = "READY"
             THEN waited[p] + SumOf(Claims(k, k.exec_shadow, now, p), others)
                    <= SumOf(slice, others)
             ELSE waited[p] = 0

\* If it is a Round Robin task p stays where it is or joins the queue at its end.
Joins(r, kk, p) ==
  p \in RrTasks =>
    /\ kk.status[p] # "READY" /\ p \notin Members(kk.rr)
    /\ r.rr = kk.rr \/ r.rr = InsertLast(p, kk.rr)
    /\ r.status[p] # "FREE" => Slice(r, p)

\* What a call or an event does to the turns.
FairStep == Fairly(k', k'.exec_shadow, k, k.exec_shadow, now) /\ SlicesOK'
-----------------------------------------------------------------------------
(* What the operations change of a kernel state, and what they leave: r is  *)
(* the state after, kk the one before.                                       *)

\* All that is said below of one task is the same in r and kk.
Alike(r, kk, q) ==
  /\ r.status[q] = kk.status[q] /\ r.wcet[q] = kk.wcet[q]
  /\ q \in r.late <=> q \in kk.late
  /\ q \in Members(r.edf) <=> q \in Members(kk.edf)
  /\ q \in Members(r.rr) <=> q \in Members(kk.rr)
  /\ q \in Ranked => /\ r.dline[q] = kk.dline[q] /\ r.release[q] = kk.release[q]
                     /\ r.nact[q] = kk.nact[q]
  /\ q \in Edf => r.adeadline[q] = kk.adeadline[q] /\ r.dl_miss[q] = kk.dl_miss[q]

\* The Round Robin tasks other than p have the time and, if p is not one of them,
\* the places that they had.
Apart(r, kk, p) ==
  /\ \A q \in RrTasks \ {p} : r.avail[q] = kk.avail[q] /\ (q \in r.capped <=> q \in kk.capped)
  /\ p \notin RrTasks => r.rr = kk.rr
  /\ r.cap_lasttime = kk.cap_lasttime /\ r.schedule_time = kk.schedule_time

\* Only p, and the events for p, may be different, and the bandwidth that is used
\* if p is a task of the EDF level.
Others(r, kk, p) ==
  /\ \A q \in Pids \ {p} : Alike(r, kk, q)
  /\ Apart(r, kk, p)
  /\ p \notin Edf => r.U = kk.U
  /\ \A e \in Events : e.pid # p => (e \in Members(r.events) <=> e \in Members(kk.events))

\* The first event, as far as the operations are concerned.
Earlier(kk, t) == kk.events # <<>> /\ kk.events[1].time < t

FirstIs(kk, h, p) == kk.events # <<>> /\ kk.events[1].handler = h /\ kk.events[1].pid = p

FirstStays(r, kk) == r.events # <<>> /\ r.events[1] = kk.events[1]

\* Nothing that is said of a task has changed.
Likewise(r, kk) ==
  \A q \in Pids : Alike(r, kk, q) /\ Timers(r, q) = Timers(kk, q)

Aside == {"exec_shadow", "nopreempt", "capped", "avail", "resched", "schedule_time",
          "cap_lasttime", "cbs_dline", "asleep", "frozen",
          "frozen_activations"}

ReadyInEdf(r, kk, p) ==
  /\ r.status = [kk.status EXCEPT ![p] = "READY"]
  /\ Members(r.edf) = Members(kk.edf) \cup {p}

ReadyInRr(r, kk, p) ==
  /\ r.status = [kk.status EXCEPT ![p] = "READY"]
  /\ Members(r.rr) = Members(kk.rr) \cup {p}

\* All that the queue's order and its keys leave the same.
Kept(r, kk) ==
  /\ Wellformed(r) /\ Same(r, kk, {"cbs_dline", "avail", "dline", "edf"})
  /\ Members(r.edf) = Members(kk.edf)
  /\ \A q \in Edf : r.dline[q] = kk.dline[q]
  /\ \A q \in RrTasks : r.avail[q] = kk.avail[q]

\* The first task of the first level that has one.
Chosen(kk) ==
  \/ kk.edf # <<>> /\ kk.exec_shadow = Head(kk.edf)
  \/ kk.edf = <<>> /\ kk.rr # <<>> /\ kk.exec_shadow = Head(kk.rr)
  \/ kk.edf = <<>> /\ kk.rr = <<>> /\ kk.exec_shadow = Dummy

SelectFields == {"exec_shadow", "rr", "avail", "cbs_dline", "dline", "edf"}

\* What happens to the tasks when another one gets the processor: a task that
\* can run is READY or EXE, and all else that is said of it stays the same.
CanRun == {"READY", "EXE"}

Unmoved(r, kk, q) ==
  /\ r.status[q] = kk.status[q] \/ (r.status[q] \in CanRun /\ kk.status[q] \in CanRun)
  /\ Timers(r, q) = Timers(kk, q)
  /\ q \in Edf => r.dline[q] = kk.dline[q]

UnmovedFields == {"wcet", "late", "release", "nact", "adeadline", "dl_miss", "U", "asleep",
                  "nopreempt", "resched", "frozen", "frozen_activations"}

Scheduled(r, kk) ==
  /\ \A q \in Pids \ {Dummy} : Unmoved(r, kk, q)
  /\ Same(r, kk, Fields \ UnmovedFields)

\* What the scheduler leaves behind.
Resumed(r, t) ==
  r.exec_shadow \in Pids /\ AllOK(r, r.exec_shadow, t) /\ FirstRuns(r)

\* A primitive or an event leaves this behind, once the scheduler was called.
Settled(kk, t) ==
  /\ kk.exec_shadow \in Pids /\ AllOK(kk, kk.exec_shadow, t)
  /\ kk.exec_shadow \notin kk.nopreempt => FirstRuns(kk)

\* What EDF_release does to the task p: an idle task gets its job, the arrival
\* of one that is in a job is counted, and both timers are set again.
Released(r, kk, p) ==
  LET t == kk.release[p]
  IN  /\ Timers(r, p) = [[Timers(kk, p) EXCEPT !["deadline"] = {t + DeadlineTimer(p)}]
                           EXCEPT !["endperiod"] = {t + period[p]}]
      /\ r.release = [kk.release EXCEPT ![p] = t + period[p]]
      /\ kk.status[p] = "IDLE" =>
           /\ ReadyInEdf(r, kk, p) /\ r.resched = TRUE
           /\ r.dline = [kk.dline EXCEPT ![p] = kk.adeadline[p]]
           /\ r.adeadline = [kk.adeadline EXCEPT ![p] = kk.adeadline[p] + period[p]]
           /\ r.nact = kk.nact
      /\ kk.status[p] # "IDLE" =>
           /\ Same(r, kk, {"events", "nact", "release"})
           /\ r.nact = [kk.nact EXCEPT ![p] = kk.nact[p] + 1]

ReleaseFields == {"events", "status", "dline", "adeadline", "edf", "resched", "nact",
                  "release"}

\* The event that follows stays the first one of the list, if it is due.
NextStays(r, m, t) ==
  (\A q \in Edf : DeadlineTimer(q) > 0) /\ Earlier(m, t + 1) => FirstStays(r, m)

\* What an event leaves of the choice of the task to run: all, or the request for
\* a reschedule.
Heard(r, kk) ==
  /\ r.exec_shadow = kk.exec_shadow /\ r.nopreempt = kk.nopreempt
  /\ \/ r.resched = TRUE
     \/ /\ r.resched = kk.resched /\ r.edf = kk.edf /\ r.rr = kk.rr /\ r.dline = kk.dline

\* The server of a task that was disabled is a new one at its next activation.
NewServer(kk, p) ==
  [Status(kk, p, "SLEEP") EXCEPT !.avail[p] = kk.wcet[p], !.cbs_dline[p] = 0]

\* The choice of the task to run is what it was.
Calm(r, kk) ==
  /\ r.exec_shadow = kk.exec_shadow
  /\ r.edf = kk.edf /\ r.rr = kk.rr /\ r.dline = kk.dline
  /\ r.exec_shadow \in r.nopreempt <=> kk.exec_shadow \in kk.nopreempt

\* A task that is not of the EDF level: the lives and the bandwidth stay.
Alive(r, kk) == r.U = kk.U /\ \A q \in Edf : Life(r, q) = Life(kk, q)

\* The fields that a life is read from.
Reads(v, kk, p, T) ==
  /\ v.dline = kk.dline[p] /\ v.release = kk.release[p]
  /\ v.adeadline = kk.adeadline[p] /\ v.nact = kk.nact[p]
  /\ v.late = kk.late \cap {p} /\ v.dl_miss = kk.dl_miss[p]
  /\ v.deadline = T["deadline"] /\ v.endperiod = T["endperiod"] /\ v.offset = T["offset"]
  /\ v.status = IF kk.status[p] \in InJobs THEN "JOB" ELSE kk.status[p]

\* What the handler h of an event for p makes of the state m.
Handles(r, h, m, p) ==
  \/ h = "capacity" /\ r = [m EXCEPT !.resched = TRUE]
  \/ h = "delay" /\ r = delay_timer(m, p)
  \/ h = "endperiod" /\ r = EDF_timer_endperiod(m, p)
  \/ h = "deadline" /\ r = EDF_timer_deadline(m, p)
  \/ h = "offset" /\ r = EDF_timer_offset(m, p)
  \/ h = "reactivate" /\ r = CBS_timer_reactivate(m, p)
  \/ h = "zombie" /\ r = CBS_timer_zombie(m, p)

\* p ran, and falls asleep.
Sleeps(r, kk, p) ==
  /\ Others(r, kk, p) /\ Same(r, kk, {"cbs_dline", "avail", "status", "events"})
  /\ kk.status[p] = "EXE" /\ r.status[p] = "WAIT_NANOSLEEP"
  /\ p \in RrTasks => r.avail = kk.avail
  /\ \A h \in Handlers \ {"delay"} : Timers(r, p)[h] = Timers(kk, p)[h]

\* kk when the task that ran has left: the clock is read, and nothing is timed.
Uncapped(r, kk) ==
  /\ AllOK(r, NIL, now) /\ Likewise(r, kk) /\ Same(r, kk, {"schedule_time", "events"})
  /\ r.schedule_time = now /\ ~Posted(r, "capacity", NIL)
=============================================================================
