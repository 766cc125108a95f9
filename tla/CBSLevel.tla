------------------------------ MODULE CBSLevel ------------------------------
(***************************************************************************)
(* The Constant Bandwidth Server level, modules/cbs/cbs.c, with an EDF     *)
(* level as its master: a task of this level is a guest there, queued by   *)
(* the deadline of its own server.  Each server gives cost[p], its budget, *)
(* in period[p]; proc_table[p].avail_time is what is left of it.           *)
(***************************************************************************)
EXTENDS EDFLevel

CONSTANTS
  SoftPeriodic,  \* the tasks without CBS_APERIODIC
  SaveArrivals   \* the tasks with CBS_SAVE_ARRIVALS

ASSUME CbsAssumption ==
  /\ SoftPeriodic \cup SaveArrivals \subseteq Soft
  /\ \A p \in Soft : period[p] \in Nat \ {0} /\ cost[p] \in 1 .. period[p]

\* The task is inserted in the master level with the deadline of its server.
CBS_insert(kk, p) == EDF_private_insert(kk, p, kk.cbs_dline[p])

\* A new deadline, and a full budget, from the time t on.
CBS_renew(kk, p, t) ==
  [kk EXCEPT !.cbs_dline[p] = t + period[p], !.avail[p] = kk.wcet[p]]

\* Mutant: a task that wakes up keeps the deadline and what is left of the
\* budget as long as that deadline is in the future.
Exhaustible_past(kk, p, t) == t >= kk.cbs_dline[p]
\* Rule 7 of the CBS: what is left of the budget is more than the server may
\* give from t to its deadline.
Exhaustible(kk, p, t) ==
  t + (period[p] * kk.avail[p]) \div kk.wcet[p] > kk.cbs_dline[p]

CBS_activation(kk, p, t) ==
  CBS_insert(IF Exhaustible(kk, p, t) THEN CBS_renew(kk, p, t) ELSE kk, p)

\* Mutant: the budget is recharged, the deadline stays.
CBS_avail_time_check_free(kk, p) ==
  LET n == IF kk.avail[p] > 0 THEN 0 ELSE (-kk.avail[p]) \div kk.wcet[p] + 1
  IN  [kk EXCEPT !.avail[p] = @ + n * kk.wcet[p]]
\* The loop that gives the server new budgets until one is left, each with a
\* deadline one period later.
CBS_avail_time_check(kk, p) ==
  LET n == IF kk.avail[p] > 0 THEN 0 ELSE (-kk.avail[p]) \div kk.wcet[p] + 1
  IN  [kk EXCEPT !.cbs_dline[p] = @ + n * period[p],
                 !.avail[p] = @ + n * kk.wcet[p]]

\* SAVE_ARRIVALS: an activation before the last one is over.
CBS_save(kk, p) ==
  IF p \in SaveArrivals THEN [kk EXCEPT !.nact[p] = @ + 1] ELSE kk

\* The next period of a soft periodic task; that of a task disabled meanwhile
\* ends its life until the next activation, with a new server.
CBS_timer_reactivate(kk, p) ==
  IF p \in kk.asleep /\ kk.status[p] = "IDLE"
    THEN [Status(kk, p, "SLEEP") EXCEPT !.avail[p] = kk.wcet[p],
                                        !.cbs_dline[p] = 0]
    ELSE LET t == kk.release[p]
             k1 == IF kk.status[p] = "IDLE"
                     THEN [CBS_activation(kk, p, t) EXCEPT !.resched = TRUE]
                     ELSE CBS_save(kk, p)
         IN  Post([k1 EXCEPT !.release[p] = t + period[p]],
                  "reactivate", p, t + period[p])

CBS_timer_zombie(kk, p) == Status(kk, p, "FREE")

\* The guarantee, a sum over the tasks at creation, is left out.
CBS_create(kk, p) ==
  [Status(kk, p, "SLEEP") EXCEPT
     !.avail[p] = cost[p], !.wcet[p] = cost[p],
     !.capped = @ \cup {p}, !.nopreempt = @ \ {p},
     !.nact[p] = 0, !.cbs_dline[p] = 0, !.asleep = @ \ {p}]

\* A server whose deadline has passed while its task was ready gets a new one;
\* the task is then not the one to run, and the level is asked again.
Ineligible(kk, p) == p \in Soft /\ kk.cbs_dline[p] < kk.schedule_time
CBS_renewed(kk, p) ==
  CBS_insert(CBS_renew(EDF_private_extract(kk, p), p, kk.schedule_time), p)

CBS_dispatch(kk, p) == EDF_private_dispatch(kk, p)

CBS_epilogue(kk, p) ==
  IF kk.avail[p] <= 0
    THEN CBS_insert(CBS_avail_time_check(EDF_private_extract(kk, p), p), p)
    ELSE EDF_private_epilogue(kk, p)

CBS_activate(kk, p) ==
  LET k1 == [kk EXCEPT !.asleep = @ \ {p}]
  IN  CASE kk.status[p] # "SLEEP" /\ p \in kk.asleep -> k1
        [] kk.status[p] # "SLEEP" /\ p \notin kk.asleep -> CBS_save(kk, p)
        [] OTHER ->
             LET k2 == CBS_activation(k1, p, now)
             IN  IF p \in SoftPeriodic
                   THEN Post([k2 EXCEPT !.release[p] = now + period[p]],
                             "reactivate", p, now + period[p])
                   ELSE k2

CBS_unblock(kk, p) == CBS_activation(kk, p, now)

CBS_block(kk, p) == EDF_private_extract(CBS_avail_time_check(kk, p), p)

\* Mutant: the saved activation is run, and kept.
CBS_endcycle_kept(kk, p) ==
  LET k1 == CBS_avail_time_check(kk, p)
  IN  IF k1.nact[p] > 0 THEN EDF_private_epilogue(k1, p)
      ELSE Status(EDF_private_extract(k1, p), p,
                  IF p \in SoftPeriodic THEN "IDLE" ELSE "SLEEP")
\* task_endcycle: a saved activation goes on in the place in the master's queue
\* that the last one had, even if the deadline has just been postponed.
CBS_endcycle(kk, p) ==
  LET k1 == CBS_avail_time_check(kk, p)
  IN  IF k1.nact[p] > 0
        THEN EDF_private_epilogue([k1 EXCEPT !.nact[p] = @ - 1], p)
        ELSE Status(EDF_private_extract(k1, p), p,
                    IF p \in SoftPeriodic THEN "IDLE" ELSE "SLEEP")

CBS_message(kk, p, m) ==
  IF m = "endcycle" THEN CBS_endcycle(kk, p)
  ELSE [kk EXCEPT !.asleep = @ \cup {p}]

\* The descriptor is kept until the deadline of the server.
CBS_end(kk, p) ==
  LET k1 == EDF_private_extract(CBS_avail_time_check(kk, p), p)
  IN  Post(Status(Unpost(k1, "reactivate", p), p, "ZOMBIE"),
           "zombie", p, k1.cbs_dline[p])
=============================================================================
