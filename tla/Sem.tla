-------------------------------- MODULE Sem --------------------------------
(***************************************************************************)
(* The counting semaphores of modules/sem/sem.c together with the kernel   *)
(* primitives that reach into their queues: task_kill, task_testcancel,    *)
(* task_setcancelstate and the end of a task.                              *)
(*                                                                         *)
(* Every primitive runs with interrupts disabled, so it is one action up   *)
(* to the point where it gives up the processor; what follows runs when    *)
(* the task is dispatched again and is an action of its own (resume).      *)
(* sem_wait also has a window in front of it: its task_testcancel() runs   *)
(* before interrupts are disabled, so the task can be preempted between    *)
(* the test and the wait (phase "entry").  Which ready task runs is left   *)
(* to the scheduling modules: any ready task may take the next step.       *)
(***************************************************************************)
EXTENDS IqueueOps, Sums

CONSTANTS
  Tasks,         \* the tasks that use the semaphores
  Sems,          \* the semaphores, all of them valid throughout
  Units,         \* the n of the sem_xwait and sem_xpost calls
  Total,         \* bound: the units that exist per semaphore at the start
  Killable,      \* the tasks created without NO_KILL
  CancelStates   \* what tasks pass to task_setcancelstate (TRUE = enable)

ASSUME SemAssumption ==
  /\ Units \subseteq Nat \ {0}
  /\ 1 \in Units
  /\ Total \in Nat
  /\ Killable \subseteq Tasks
  /\ CancelStates \subseteq BOOLEAN

VARIABLES
  count,     \* sem_table[s].count
  blocked,   \* sem_table[s].blocked, FIFO
  decsem,    \* sp_table[t].decsem: what the pending sem_xwait asks for
  sem,       \* sp_table[t].sem, and the argument of a sem_wait in progress
  status,    \* proc_table[t].status: READY stands for EXE too
  phase,     \* where t is: outside, at the entry of sem_wait, or blocked in
             \* / about to return from a blocking wait
  killreq,   \* KILL_REQUEST
  enabled,   \* KILL_ENABLED
  granted,   \* history: units a post has given to the pending wait of t
  credit     \* units in the callers' hands: the most a caller may post

vars == <<count, blocked, decsem, sem, status, phase, killreq, enabled,
          granted, credit>>

semVars == <<count, blocked, granted, credit>>
callVars == <<decsem, sem, phase>>
cancelVars == <<killreq, enabled>>

Init ==
  \E c \in [Sems -> 0 .. Total], s0 \in Sems :
    /\ count = c
    /\ credit = [s \in Sems |-> Total - c[s]]
    /\ blocked = [s \in Sems |-> <<>>]
    /\ decsem = [t \in Tasks |-> 1]
    /\ sem = [t \in Tasks |-> s0]
    /\ status = [t \in Tasks |-> "READY"]
    /\ phase = [t \in Tasks |-> "user"]
    /\ killreq = [t \in Tasks |-> FALSE]
    /\ enabled = [t \in Tasks |-> TRUE]
    /\ granted = [t \in Tasks |-> 0]

-----------------------------------------------------------------------------
(* Cancellation *)

Running(t, where) == status[t] = "READY" /\ phase[t] = where

\* The test of task_testcancel.
Cancelled(t) == killreq[t] /\ enabled[t]

\* task_makefree for t: what was granted to its pending wait is gone.
Die(t) ==
  /\ status' = [status EXCEPT ![t] = "FREE"]
  /\ phase' = [phase EXCEPT ![t] = "user"]
  /\ granted' = [granted EXCEPT ![t] = 0]
  /\ UNCHANGED <<count, blocked, credit, decsem, sem, cancelVars>>

\* A task_testcancel called by the task's own code, or the return of its body.
task_end(t) == Running(t, "user") /\ Die(t)

task_setcancelstate(t, state) ==
  /\ Running(t, "user")
  /\ enabled' = [enabled EXCEPT ![t] = state]
  /\ UNCHANGED <<semVars, callVars, status, killreq>>

\* Mutant: the cancellation test leaves the task in the queue.
task_kill_unextracted(k, t) ==
  /\ Running(k, "user")
  /\ t \in Killable /\ status[t] # "FREE" /\ ~killreq[t]
  /\ killreq' = [killreq EXCEPT ![t] = TRUE]
  /\ status' = [status EXCEPT ![t] = "READY"]
  /\ UNCHANGED <<blocked, count, granted, credit, callVars, enabled>>

\* task_kill of t by the running task k; a waiting task is taken out of the
\* queue and made ready by semwait_cancellation_point.
task_kill(k, t) ==
  /\ Running(k, "user")
  /\ t \in Killable /\ status[t] # "FREE" /\ ~killreq[t]
  /\ killreq' = [killreq EXCEPT ![t] = TRUE]
  /\ IF status[t] = "WAIT_SEM"
       THEN /\ blocked' = [blocked EXCEPT ![sem[t]] = Extract(t, @)]
            /\ status' = [status EXCEPT ![t] = "READY"]
       ELSE UNCHANGED <<blocked, status>>
  /\ UNCHANGED <<count, granted, credit, callVars, enabled>>

-----------------------------------------------------------------------------
(* Waiting *)

\* Mutant: the queue is not looked at.
Available_queue_unchecked(s, n) == count[s] >= n

Available(s, n) == blocked[s] = <<>> /\ count[s] >= n

\* Mutant: the counter is decremented by one, whatever n.
Take_single(s, n) ==
  /\ count' = [count EXCEPT ![s] = @ - 1]
  /\ credit' = [credit EXCEPT ![s] = @ + n]

Take(s, n) ==
  /\ count' = [count EXCEPT ![s] = @ - n]
  /\ credit' = [credit EXCEPT ![s] = @ + n]

\* The part of sem_wait and sem_xwait that runs after kern_context_save.
TakeOrBlock(t, s, n) ==
  IF Available(s, n)
    THEN /\ Take(s, n)
         /\ phase' = [phase EXCEPT ![t] = "user"]
         /\ UNCHANGED <<blocked, granted, decsem, sem, status, cancelVars>>
    ELSE /\ blocked' = [blocked EXCEPT ![s] = InsertLast(t, @)]
         /\ status' = [status EXCEPT ![t] = "WAIT_SEM"]
         /\ decsem' = [decsem EXCEPT ![t] = n]
         /\ sem' = [sem EXCEPT ![t] = s]
         /\ phase' = [phase EXCEPT ![t] = "wait"]
         /\ UNCHANGED <<count, granted, credit, cancelVars>>

\* sem_wait: the cancellation test, with interrupts enabled afterwards ...
sem_wait(t, s) ==
  /\ Running(t, "user")
  /\ IF Cancelled(t)
       THEN Die(t)
       ELSE /\ phase' = [phase EXCEPT ![t] = "entry"]
            /\ sem' = [sem EXCEPT ![t] = s]
            /\ UNCHANGED <<semVars, decsem, status, cancelVars>>

\* ... and the rest of it, from kern_context_save on.
sem_wait_body(t) == Running(t, "entry") /\ TakeOrBlock(t, sem[t], 1)

\* sem_xwait(s, n, BLOCK): the cancellation test is inside the protected part.
sem_xwait(t, s, n) ==
  /\ Running(t, "user")
  /\ IF Cancelled(t) THEN Die(t) ELSE TakeOrBlock(t, s, n)

\* sem_trywait, and sem_xwait(s, n, NON_BLOCK), when they succeed.
sem_trywait(t, s, n) ==
  /\ Running(t, "user")
  /\ Available(s, n)
  /\ Take(s, n)
  /\ UNCHANGED <<blocked, granted, callVars, status, cancelVars>>

\* Mutant: the cancellation test after the wait is missing.
resume_untested(t) ==
  /\ Running(t, "wait")
  /\ phase' = [phase EXCEPT ![t] = "user"]
  /\ credit' = [credit EXCEPT ![sem[t]] = @ + granted[t]]
  /\ granted' = [granted EXCEPT ![t] = 0]
  /\ UNCHANGED <<count, blocked, decsem, sem, status, cancelVars>>

\* A task made ready while waiting: task_testcancel, then return 0.
resume(t) ==
  /\ Running(t, "wait")
  /\ IF Cancelled(t)
       THEN Die(t)
       ELSE /\ phase' = [phase EXCEPT ![t] = "user"]
            /\ credit' = [credit EXCEPT ![sem[t]] = @ + granted[t]]
            /\ granted' = [granted EXCEPT ![t] = 0]
            /\ UNCHANGED <<count, blocked, decsem, sem, status, cancelVars>>

-----------------------------------------------------------------------------
(* Posting, by a task or by an interrupt handler *)

\* The first k waiters of s are extracted, granted and unblocked.
Wake(s, k, left) ==
  LET woken == {blocked[s][i] : i \in 1 .. k}
  IN  /\ count' = [count EXCEPT ![s] = left]
      /\ blocked' = [blocked EXCEPT ![s] = DropFirst(k, @)]
      /\ status' = [t \in Tasks |->
                      IF t \in woken THEN "READY" ELSE status[t]]
      /\ granted' = [t \in Tasks |->
                       IF t \in woken THEN decsem[t] ELSE granted[t]]

\* sem_post: at most one waiter is woken.
sem_post(s) ==
  LET c == count[s] + 1
      wake == blocked[s] # <<>> /\ decsem[blocked[s][1]] <= c
  IN  /\ credit[s] >= 1
      /\ credit' = [credit EXCEPT ![s] = @ - 1]
      /\ IF wake THEN Wake(s, 1, c - decsem[blocked[s][1]])
                 ELSE Wake(s, 0, c)
      /\ UNCHANGED <<callVars, cancelVars>>

\* Mutants: the loop stops after one turn, or forgets to decrement count.
WakeLoop_once(s, c, k, left) ==
  /\ left[0] = c
  /\ k <= 1
  /\ \A i \in 1 .. k : /\ decsem[blocked[s][i]] <= left[i - 1]
                       /\ left[i] = left[i - 1] - decsem[blocked[s][i]]
  /\ k = 0 /\ blocked[s] # <<>> => decsem[blocked[s][1]] > c
WakeLoop_no_decrement(s, c, k, left) ==
  /\ left[0] = c
  /\ \A i \in 1 .. k : /\ decsem[blocked[s][i]] <= left[i - 1]
                       /\ left[i] = left[i - 1]
  /\ k < Len(blocked[s]) => decsem[blocked[s][k + 1]] > left[k]

\* left[i] is count after i turns of the loop of sem_xpost.
WakeLoop(s, c, k, left) ==
  /\ left[0] = c
  /\ \A i \in 1 .. k : /\ decsem[blocked[s][i]] <= left[i - 1]
                       /\ left[i] = left[i - 1] - decsem[blocked[s][i]]
  /\ k < Len(blocked[s]) => decsem[blocked[s][k + 1]] > left[k]

\* sem_xpost: waiters are woken in order as long as the first one can be.
sem_xpost(s, n) ==
  /\ credit[s] >= n
  /\ credit' = [credit EXCEPT ![s] = @ - n]
  /\ \E k \in 0 .. Len(blocked[s]) :
       \E left \in [0 .. k -> 0 .. count[s] + n] :
         /\ WakeLoop(s, count[s] + n, k, left)
         /\ Wake(s, k, left[k])
  /\ UNCHANGED <<callVars, cancelVars>>

-----------------------------------------------------------------------------
TaskStep(t) ==
  \/ \E s \in Sems : sem_wait(t, s)
  \/ sem_wait_body(t)
  \/ \E s \in Sems, n \in Units : sem_xwait(t, s, n)
  \/ \E s \in Sems, n \in Units : sem_trywait(t, s, n)
  \/ resume(t)
  \/ \E state \in CancelStates : task_setcancelstate(t, state)
  \/ \E u \in Tasks : task_kill(t, u)
  \/ task_end(t)

Post(s) == sem_post(s) \/ \E n \in Units : sem_xpost(s, n)

Next == (\E t \in Tasks : TaskStep(t)) \/ (\E s \in Sems : Post(s))

Spec == Init /\ [][Next]_vars

\* A ready task is eventually dispatched (the round robin level rotates its
\* queue), so it leaves the semaphore code; and a unit that is in somebody's
\* hands is eventually posted, which is an assumption about the callers.
Fairness ==
  /\ \A t \in Tasks : WF_vars(resume(t)) /\ WF_vars(sem_wait_body(t))
  /\ \A s \in Sems : WF_vars(Post(s))

FairSpec == Spec /\ Fairness

-----------------------------------------------------------------------------
(* Properties *)

TypeOK ==
  /\ count \in [Sems -> Nat]
  /\ credit \in [Sems -> Nat]
  /\ blocked \in [Sems -> Seq(Tasks)]
  /\ decsem \in [Tasks -> Nat \ {0}]
  /\ sem \in [Tasks -> Sems]
  /\ status \in [Tasks -> {"READY", "WAIT_SEM", "FREE"}]
  /\ phase \in [Tasks -> {"user", "entry", "wait"}]
  /\ killreq \in [Tasks -> BOOLEAN]
  /\ enabled \in [Tasks -> BOOLEAN]
  /\ granted \in [Tasks -> Nat]

\* A task is linked in a semaphore queue exactly when it is blocked on that
\* semaphore, and only once: the posts, the waits and the cancellation test
\* of task_kill all edit the queues and the status, from different tasks.
QueueConsistent ==
  /\ \A s \in Sems : Distinct(blocked[s])
  /\ \A t \in Tasks, s \in Sems :
       t \in Members(blocked[s]) <=> status[t] = "WAIT_SEM" /\ sem[t] = s
  /\ \A t \in Tasks : status[t] = "WAIT_SEM" => phase[t] = "wait"

\* No lost wake-up: while a task is blocked, the semaphore does not hold the
\* units its first waiter asks for (sem_post and sem_xpost wake whoever can
\* be served, and a wait blocks only if it cannot be).
NoSatisfiableHead ==
  \A s \in Sems :
    blocked[s] # <<>> => count[s] < decsem[blocked[s][1]]

Pending(s) == {t \in Tasks : phase[t] = "wait" /\ sem[t] = s}
\* The units that posts have given to waits that have not returned yet.
InFlight(s) == Bundle(Pending(s), granted)
Units_of(s) == count[s] + credit[s] + Cardinality(InFlight(s))

\* Units are neither duplicated nor lost between the counter, the grants in
\* flight and the callers, if no task dies while a grant is on its way to it.
UnitsConserved == \A s \in Sems : Units_of(s) = Total

\* A blocking wait that returns to its caller was given what it asked for by
\* a post: being made ready by task_kill must not look like a success.
SuccessMeansGranted ==
  [][\A t \in Tasks :
       phase[t] = "wait" /\ phase'[t] = "user" /\ status'[t] = "READY"
         => granted[t] = decsem[t]]_vars

\* The queue is FIFO: a waiter is served only together with, or after, all
\* that precede it, and nobody takes units past a task that is waiting.
NoOvertaking ==
  [][\A s \in Sems :
       /\ \A i, j \in DOMAIN blocked[s] :
            i < j /\ granted'[blocked[s][j]] > 0
              => granted'[blocked[s][i]] > 0
       /\ blocked[s] # <<>> /\ blocked'[s] = blocked[s]
            => count'[s] >= count[s]]_vars

\* Every blocking wait returns: a request for several units is not starved
\* by smaller ones, nor by non-blocking waits.
WaitServed == \A t \in Tasks : phase[t] = "wait" ~> phase[t] = "user"

-----------------------------------------------------------------------------
(* Sem as an implementation of SemPool *)

Request(t) == <<t, sem[t], decsem[t]>>
Requests(S) == {Request(t) : t \in S}
Ungranted == {t \in Tasks : phase[t] = "wait" /\ granted[t] = 0}
Granted == {t \in Tasks : phase[t] = "wait" /\ granted[t] > 0}

\* The entry of sem_wait is invisible to the pool; a waiting task that was
\* made ready without a grant is still waiting, and will die.
Pool == INSTANCE SemPool WITH
  avail <- count,
  hands <- credit,
  waiting <- Requests(Ungranted),
  served <- Requests(Granted),
  gone <- {t \in Tasks : status[t] = "FREE"}

\* The semaphores implement the pool of units, whichever tasks are killed.
ImplementsPool == Pool!Spec
=============================================================================
