------------------------------ MODULE EDFLevel ------------------------------
(***************************************************************************)
(* The Earliest Deadline First level, modules/edf/edf.c, registered with   *)
(* the guarantee and the deadline check (the miss is counted) and, if      *)
(* WcetCheck, the wcet check.  The three timers of a task are events of    *)
(* KernOps: "deadline", "endperiod" and "offset".                          *)
(***************************************************************************)
EXTENDS KernOps

CONSTANTS
  WcetCheck,                       \* EDF_ENABLE_WCET_CHECK
  period, rdeadline, offset, cost, \* the HARD_TASK_MODEL of each EDF task
  MAX_BANDWIDTH

ASSUME EdfAssumption ==
  /\ WcetCheck \in BOOLEAN
  /\ \A p \in Edf : /\ period[p] \in Nat \ {0} /\ rdeadline[p] \in 1 .. period[p]
                    /\ offset[p] \in Nat /\ cost[p] \in 1 .. rdeadline[p]
  /\ MAX_BANDWIDTH \in Nat

\* Mutant: a task with an earlier deadline than the head goes behind it.
EDF_insert_last(kk, p) == [kk EXCEPT !.edf = InsertLast(p, @)]
\* iq_timespec_insert
EDF_insert(kk, p) == [kk EXCEPT !.edf = InsertByKey(p, @, kk.dline)]

Bandwidth(p, c) == (MAX_BANDWIDTH \div rdeadline[p]) * c

\* The task p, FREE until now, is created if its bandwidth is available.
EDF_create(kk, p) ==
  IF MAX_BANDWIDTH - kk.U > Bandwidth(p, cost[p])
    THEN [Status(kk, p, "SLEEP") EXCEPT
            !.U = @ + Bandwidth(p, cost[p]),
            !.late = @ \ {p}, !.nact[p] = 0, !.dl_miss[p] = 0,
            !.nopreempt = @ \ {p},
            !.wcet[p] = IF WcetCheck THEN cost[p] ELSE @,
            !.avail[p] = IF WcetCheck THEN cost[p] ELSE @,
            !.capped = IF WcetCheck THEN @ \cup {p} ELSE @ \ {p}]
    ELSE kk

\* The job of p that runs next gets its deadline; the next job's is a period
\* later.
EDF_assign(kk, p) ==
  EDF_insert([kk EXCEPT !.dline[p] = kk.adeadline[p],
                        !.adeadline[p] = @ + period[p]], p)

\* Mutant: the timer fires at the end of the period.
DeadlineTimer_late(p) == rdeadline[p]
\* The timer of a deadline that is the end of the period fires just before it.
DeadlineTimer(p) == IF rdeadline[p] = period[p] THEN rdeadline[p] - 1
                    ELSE rdeadline[p]

\* Mutant: a job that arrives while the last one is not over is dropped.
EDF_release_drop(kk, p) ==
  LET t == kk.release[p]
      k1 == Post(Unpost(kk, "deadline", p), "deadline", p, t + DeadlineTimer(p))
      k2 == IF k1.status[p] = "IDLE"
              THEN [EDF_assign(Status(k1, p, "READY"), p) EXCEPT !.resched = TRUE]
              ELSE k1
  IN  Post(Unpost([k2 EXCEPT !.release[p] = t + period[p]], "endperiod", p),
           "endperiod", p, t + period[p])
\* Mutant: the timer of the end of the period is posted before the release time
\* is moved on.
EDF_release_swapped(kk, p) ==
  LET t == kk.release[p]
      k1 == Post(Unpost(kk, "deadline", p), "deadline", p, t + DeadlineTimer(p))
      k2 == IF k1.status[p] = "IDLE"
              THEN [EDF_assign(Status(k1, p, "READY"), p) EXCEPT !.resched = TRUE]
              ELSE [k1 EXCEPT !.nact[p] = @ + 1]
  IN  Post(Unpost([k2 EXCEPT !.release[p] = t + period[p]], "endperiod", p),
           "endperiod", p, t)
\* EDF_intern_release: the job whose release time has come is released, or
\* queued behind the one that is late.
EDF_release(kk, p) ==
  LET t == kk.release[p]
      k1 == Post(Unpost(kk, "deadline", p), "deadline", p, t + DeadlineTimer(p))
      k2 == IF k1.status[p] = "IDLE"
              THEN [EDF_assign(Status(k1, p, "READY"), p) EXCEPT !.resched = TRUE]
              ELSE [k1 EXCEPT !.nact[p] = @ + 1]
  IN  Post(Unpost([k2 EXCEPT !.release[p] = t + period[p]], "endperiod", p),
           "endperiod", p, t + period[p])

\* The descriptor and the bandwidth are freed.
EDF_free(kk, p) ==
  [Status(kk, p, "FREE") EXCEPT !.U = @ - Bandwidth(p, kk.wcet[p])]

EDF_timer_endperiod(kk, p) ==
  CASE kk.status[p] = "ZOMBIE" -> EDF_free(kk, p)
    [] kk.status[p] = "WAIT" -> Status(kk, p, "SLEEP")
    [] OTHER -> IF p \in Sporadic THEN [kk EXCEPT !.late = @ \cup {p}]
                ELSE EDF_release(kk, p)
EDF_timer_deadline(kk, p) == [kk EXCEPT !.dl_miss[p] = @ + 1]
EDF_timer_offset(kk, p) == EDF_release(kk, p)

EDF_dispatch(kk, p) == [kk EXCEPT !.edf = Extract(p, @)]

\* A task that has used up its wcet is no longer charged for this job.
EDF_epilogue(kk, p) ==
  LET over == WcetCheck /\ kk.avail[p] <= 0
  IN  Status(EDF_insert([kk EXCEPT !.capped = IF over THEN @ \ {p} ELSE @], p),
             p, "READY")

EDF_activate(kk, p) ==
  IF kk.status[p] # "SLEEP" THEN kk
  ELSE LET r == now + offset[p]
           k1 == [Status(kk, p, "IDLE") EXCEPT
                    !.release[p] = r, !.adeadline[p] = r + rdeadline[p]]
       IN  IF r > now THEN Post(Unpost(k1, "offset", p), "offset", p, r)
           ELSE EDF_release(k1, p)

EDF_unblock(kk, p) == Status(EDF_insert(kk, p), p, "READY")

\* The state of a sporadic task whose job is over.
SporadicOver(kk, p) ==
  IF p \in kk.late THEN Status([kk EXCEPT !.late = @ \ {p}], p, "SLEEP")
  ELSE Status(kk, p, "WAIT")

\* Mutant: the timer of the deadline stays.
EDF_endcycle_timer(kk, p) ==
  CASE kk.nact[p] > 0 -> EDF_assign([kk EXCEPT !.nact[p] = @ - 1], p)
    [] kk.nact[p] = 0 /\ p \in Sporadic -> SporadicOver(kk, p)
    [] OTHER -> Status(kk, p, "IDLE")
\* task_endcycle: the next job, if it has been released, is made ready (without
\* a change of the status).
EDF_endcycle(kk, p) ==
  LET k1 == Unpost(kk, "deadline", p)
  IN  CASE kk.nact[p] > 0 -> EDF_assign([kk EXCEPT !.nact[p] = @ - 1], p)
        [] kk.nact[p] = 0 /\ p \in Sporadic -> SporadicOver(k1, p)
        [] OTHER -> Status(k1, p, "IDLE")

\* task_disable (task_sleep): the task will not be released again.
EDF_disable(kk, p) ==
  LET k1 == Unpost(kk, "deadline", p)
  IN  CASE p \in Sporadic -> SporadicOver(k1, p)
        [] p \in Periodic /\ kk.nact[p] = 0 -> Status(k1, p, "WAIT")
        [] OTHER -> Status(Unpost([k1 EXCEPT !.nact[p] = 0], "endperiod", p),
                           p, "SLEEP")

\* Both messages end with a new wcet.
Recharge(kk, p) ==
  [kk EXCEPT !.avail[p] = kk.wcet[p],
             !.capped = IF WcetCheck THEN @ \cup {p} ELSE @]
EDF_message(kk, p, m) ==
  Recharge(IF m = "endcycle" THEN EDF_endcycle(kk, p) ELSE EDF_disable(kk, p), p)

\* Mutant: the bandwidth is freed here too.
EDF_end_twice(kk, p) ==
  IF p \in kk.late THEN EDF_free(kk, p)
  ELSE [Status(Unpost(kk, "deadline", p), p, "ZOMBIE") EXCEPT
          !.U = @ - Bandwidth(p, kk.wcet[p])]
\* The descriptor is kept until the end of the period.
EDF_end(kk, p) ==
  IF p \in kk.late THEN EDF_free(kk, p)
  ELSE Status(Unpost(kk, "deadline", p), p, "ZOMBIE")

-----------------------------------------------------------------------------
(* The private interface, for the guests of other levels: jobs that ask for *)
(* no deadline exception.                                                   *)

EDF_private_insert(kk, p, deadline) ==
  Status(EDF_insert([kk EXCEPT !.dline[p] = deadline], p), p, "READY")
EDF_private_dispatch(kk, p) == [kk EXCEPT !.edf = Extract(p, @)]
EDF_private_epilogue(kk, p) == Status(EDF_insert(kk, p), p, "READY")
EDF_private_extract(kk, p) ==
  IF kk.status[p] = "READY" THEN [kk EXCEPT !.edf = Extract(p, @)] ELSE kk
=============================================================================
