-------------------------------- MODULE Cond --------------------------------
(***************************************************************************)
(* Condition variables (kernel/conditio.c) on top of the mutexes of Mutex, *)
(* with time-outs, task_kill and mutex_destroy.                            *)
(*                                                                         *)
(* cond_wait is a sequence of steps of one task: the entry, the unlock and *)
(* the block run with NO_PREEMPT set; the resumption, the relock and the   *)
(* return are steps that other tasks may interleave.  A timer event may    *)
(* come between any two steps.                                             *)
(***************************************************************************)
EXTENDS Mutex

CONSTANTS
  Conds,
  MaxKills,    \* bound: how many tasks are killed
  LateTimers,  \* FALSE: a woken task always runs before its time-out fires
  EntryResets  \* FALSE: no time-out empties a queue that a task is entering

ASSUME CondAssumption ==
  /\ NIL \notin Conds \cup Mutexes /\ MaxKills \in Nat
  /\ IsFiniteSet(Tasks)
  /\ LateTimers \in BOOLEAN /\ EntryResets \in BOOLEAN

VARIABLES
  waiters,          \* the queue of each condition
  used_for_waiting, \* the mutex its users wait with, or NIL
  cond_waiting,     \* proc_table[x].cond_waiting, or NIL
  timer,            \* the event of a cond_timedwait is posted
  use,              \* mutex->use
  destroyed,        \* mutex_destroy has succeeded
  killreq,          \* KILL_REQUEST
  call,             \* the step of cond_wait a task is at, or its dying
  cond, mutex,      \* the arguments of that cond_wait
  timed,            \* it is a cond_timedwait
  timedout,         \* returnvalue is ETIMEDOUT
  wake,             \* history: what ended the wait
  corrupt           \* iq_extract was applied to a task that is not queued:
                    \* nothing behind that point is modelled

waitVars == <<waiters, used_for_waiting, cond_waiting, timer, wake>>
argVars == <<cond, mutex, timed, timedout>>
condVars == <<waitVars, use, destroyed, killreq, call, argVars, corrupt>>
vars == <<mutexVars, condVars>>

Init ==
  /\ MutexInit
  /\ waiters = [c \in Conds |-> <<>>]
  /\ used_for_waiting = [c \in Conds |-> NIL]
  /\ cond_waiting = [x \in Tasks |-> NIL]
  /\ timer = [x \in Tasks |-> FALSE]
  /\ use = [m \in Mutexes |-> 0]
  /\ destroyed = [m \in Mutexes |-> FALSE]
  /\ killreq = [x \in Tasks |-> FALSE]
  /\ call = [x \in Tasks |-> "none"]
  /\ cond = [x \in Tasks |-> NIL]
  /\ mutex = [x \in Tasks |-> NIL]
  /\ timed = [x \in Tasks |-> FALSE]
  /\ timedout = [x \in Tasks |-> FALSE]
  /\ wake = [x \in Tasks |-> "none"]
  /\ corrupt = FALSE

At(x, step) == ~corrupt /\ Running(x, "user") /\ call[x] = step
GoTo(x, step) == call' = [call EXCEPT ![x] = step]

-----------------------------------------------------------------------------
(* Waking a waiter *)

Ready(x) == status' = [status EXCEPT ![x] = "READY"]
Woken(x, by) == wake' = [wake EXCEPT ![x] = by]

\* Mutant: the task stays in the queue.
Withdraw_queued(x) ==
  /\ cond_waiting' = [cond_waiting EXCEPT ![x] = NIL]
  /\ Ready(x)
  /\ UNCHANGED <<waiters, used_for_waiting>>
\* What the timer and the cancellation test do to the waiter x: it leaves the
\* queue, so that no signal is spent on it, and the last one frees the mutex.
Withdraw(x) ==
  LET c == cond_waiting[x]
      q == Extract(x, waiters[c])
  IN  /\ waiters' = [waiters EXCEPT ![c] = q]
      /\ used_for_waiting' = [used_for_waiting EXCEPT ![c] =
                                IF q = <<>> THEN NIL ELSE @]
      /\ cond_waiting' = [cond_waiting EXCEPT ![x] = NIL]
      /\ Ready(x)

\* A time-out of x would clear used_for_waiting, which a task between its test
\* and the queue counts on.
ResetsEntry(x) ==
  /\ status[x] = "WAIT_COND" /\ waiters[cond[x]] = <<x>>
  /\ \E y \in Tasks : call[y] \in {"entered", "unlocked"} /\ cond[y] = cond[x]

\* condition_timer: the event takes its task for a waiter without a test.
condition_timer(x) ==
  /\ ~corrupt /\ timer[x]
  /\ LateTimers \/ status[x] = "WAIT_COND"
  /\ EntryResets \/ ~ResetsEntry(x)
  /\ timer' = [timer EXCEPT ![x] = FALSE]
  /\ IF status[x] = "WAIT_COND"
       THEN Withdraw(x) /\ Woken(x, "timeout") /\ UNCHANGED corrupt
       ELSE /\ corrupt' = TRUE
            /\ UNCHANGED <<waiters, used_for_waiting, cond_waiting, status, wake>>
  /\ UNCHANGED <<class, levelVars, shadow, nopreempt, exec_shadow, callVars,
                 raised, use, destroyed, killreq, call, argVars>>

\* task_kill, with condition_cancellation_point.
task_kill(k, x) ==
  /\ At(k, "none")
  /\ status[x] # "FREE" /\ ~killreq[x]
  /\ Cardinality({y \in Tasks : killreq[y]}) < MaxKills
  /\ killreq' = [killreq EXCEPT ![x] = TRUE]
  /\ IF status[x] = "WAIT_COND"
       THEN Withdraw(x) /\ Woken(x, "kill")
       ELSE UNCHANGED <<waiters, used_for_waiting, cond_waiting, status, wake>>
  /\ UNCHANGED <<class, levelVars, shadow, nopreempt, exec_shadow, callVars,
                 raised, timer, use, destroyed, call, argVars, corrupt>>

\* cond_signal, cond_broadcast: cond_waiting stays for the woken task to see.
WakeFirst(c, k) ==
  LET woken == {waiters[c][i] : i \in 1 .. k}
  IN  /\ waiters' = [waiters EXCEPT ![c] = DropFirst(k, @)]
      /\ status' = [x \in Tasks |-> IF x \in woken THEN "READY" ELSE status[x]]
      /\ wake' = [x \in Tasks |-> IF x \in woken THEN "signal" ELSE wake[x]]
      /\ UNCHANGED <<class, levelVars, shadow, nopreempt, exec_shadow, callVars,
                     raised, used_for_waiting, cond_waiting, timer, use,
                     destroyed, killreq, call, argVars, corrupt>>
cond_signal(x, c) ==
  At(x, "none") /\ waiters[c] # <<>> /\ WakeFirst(c, 1)
cond_broadcast(x, c) ==
  At(x, "none") /\ waiters[c] # <<>> /\ WakeFirst(c, Len(waiters[c]))

-----------------------------------------------------------------------------
(* cond_wait and cond_timedwait *)

\* Callers hold no mutex that would keep others waiting while they wait, and
\* lock the mutex again, at the end, in their order of nesting.  They have not
\* locked it more than once, and it is no NPP mutex: the unlock of one makes
\* the task preemptive before it is in the queue.
MayWait(x, m) ==
  /\ \A k \in Mutexes \ {m} : Holds(x, k) =>
       /\ class[k] \in {"NOP", "NOPM"}
       /\ k < m /\ <<class[k], class[m]>> \in Nestable
  /\ depth[x][m] <= 1 /\ class[m] # "NPP"

\* Mutants: the task stays preemptive; the use of the mutex is not counted.
Enter_preemptive(x, c, m) ==
  /\ used_for_waiting' = [used_for_waiting EXCEPT ![c] = m]
  /\ use' = [use EXCEPT ![m] = @ + 1]
  /\ UNCHANGED nopreempt
Enter_unused(x, c, m) ==
  /\ used_for_waiting' = [used_for_waiting EXCEPT ![c] = m]
  /\ nopreempt' = [nopreempt EXCEPT ![x] = TRUE]
  /\ UNCHANGED use
Enter(x, c, m) ==
  /\ used_for_waiting' = [used_for_waiting EXCEPT ![c] = m]
  /\ use' = [use EXCEPT ![m] = @ + 1]
  /\ nopreempt' = [nopreempt EXCEPT ![x] = TRUE]

\* All the tasks that use the condition now use it with this mutex.
SameUser(c, m) == used_for_waiting[c] \in {NIL, m}

\* The entry: task_nopreempt, task_testcancel, and the test of the mutex
\* (EINVAL, with nothing changed, if the others use another one).
cond_wait(x, c, m, t) ==
  /\ At(x, "none")
  /\ MayWait(x, m) /\ ~destroyed[m]
  /\ IF killreq[x]
       THEN /\ GoTo(x, "dying")
            /\ nopreempt' = [nopreempt EXCEPT ![x] = TRUE]
            /\ UNCHANGED <<used_for_waiting, use, argVars>>
       ELSE /\ SameUser(c, m)
            /\ Enter(x, c, m)
            /\ GoTo(x, "entered")
            /\ cond' = [cond EXCEPT ![x] = c]
            /\ mutex' = [mutex EXCEPT ![x] = m]
            /\ timed' = [timed EXCEPT ![x] = t]
            /\ timedout' = [timedout EXCEPT ![x] = FALSE]
  /\ UNCHANGED <<class, levelVars, shadow, status, exec_shadow, callVars, raised,
                 waiters, cond_waiting, timer, wake, destroyed, killreq, corrupt>>

\* mutex_unlock succeeds ...
cond_unlock(x) ==
  /\ At(x, "entered") /\ Holds(x, mutex[x])
  /\ Unlock(x, mutex[x])
  /\ GoTo(x, "unlocked")
  /\ UNCHANGED <<class, exec_shadow, phase, arg, raised, waitVars, use,
                 destroyed, killreq, argVars, corrupt>>

\* ... or fails, for a caller that is not the owner: EINVAL.
cond_unlock_failed(x) ==
  /\ At(x, "entered") /\ ~Holds(x, mutex[x])
  /\ use' = [use EXCEPT ![mutex[x]] = @ - 1]
  /\ nopreempt' = [nopreempt EXCEPT ![x] = FALSE]
  /\ GoTo(x, "none")
  /\ UNCHANGED <<class, levelVars, shadow, status, exec_shadow, callVars, raised,
                 waitVars, destroyed, killreq, argVars, corrupt>>

\* The task is blocked; tasks of the modelled levels have equal priority in
\* iq_priority_insert.  NO_PREEMPT stays set.
cond_block(x) ==
  /\ At(x, "unlocked")
  /\ status' = [status EXCEPT ![x] = "WAIT_COND"]
  /\ waiters' = [waiters EXCEPT ![cond[x]] = InsertLast(x, @)]
  /\ cond_waiting' = [cond_waiting EXCEPT ![x] = cond[x]]
  /\ timer' = [timer EXCEPT ![x] = timed[x]]
  /\ wake' = [wake EXCEPT ![x] = "none"]
  /\ exec_shadow' = NIL
  /\ GoTo(x, "wait")
  /\ UNCHANGED <<class, levelVars, shadow, nopreempt, callVars, raised,
                 used_for_waiting, use, destroyed, killreq, argVars, corrupt>>

\* Mutant: the task dispatched again takes every wake-up for a time-out.
TimedOut_always(x) == TRUE
\* cond_waiting is NULL if the task was killed or its timer has fired.
TimedOut(x) == cond_waiting[x] = NIL

\* Mutant: a killed task dies at once.
AfterWait_dies(x) == IF killreq[x] THEN "dying" ELSE "relock"
\* Whatever ended the wait, the mutex comes first.
AfterWait(x) == "relock"

\* The task runs again: it deletes its event and becomes preemptive.
cond_resume(x) ==
  /\ At(x, "wait") /\ status[x] = "READY"
  /\ timer' = [timer EXCEPT ![x] = FALSE]
  /\ timedout' = [timedout EXCEPT ![x] = timed[x] /\ TimedOut(x)]
  /\ cond_waiting' = [cond_waiting EXCEPT ![x] = NIL]
  /\ used_for_waiting' = [used_for_waiting EXCEPT ![cond[x]] =
       IF cond_waiting[x] # NIL /\ waiters[cond[x]] = <<>> THEN NIL ELSE @]
  /\ nopreempt' = [nopreempt EXCEPT ![x] = FALSE]
  /\ GoTo(x, AfterWait(x))
  /\ UNCHANGED <<class, levelVars, shadow, status, exec_shadow, callVars, raised,
                 waiters, wake, use, destroyed, killreq, cond, mutex, timed,
                 corrupt>>

\* mutex_lock at the end of cond_wait; if it waits, lock_resume ends it.
cond_relock(x) ==
  /\ At(x, "relock") /\ ~Holds(x, mutex[x])
  /\ CASE class[mutex[x]] = "NOP" -> NOP_lock(x, mutex[x])
       [] class[mutex[x]] = "NOPM" -> NOPM_lock(x, mutex[x])
       [] class[mutex[x]] = "NPP" -> NPP_lock(x, mutex[x])
       [] class[mutex[x]] = "PI" -> PI_lock(x, mutex[x])
       [] class[mutex[x]] = "PC" -> PC_lock(x, mutex[x])
  /\ UNCHANGED condVars

\* The end of cond_wait: the use of the mutex ends, and a killed task dies, its
\* cleanup handler unlocking the mutex.
cond_return(x) ==
  /\ At(x, "relock") /\ Holds(x, mutex[x])
  /\ use' = [use EXCEPT ![mutex[x]] = @ - 1]
  /\ wake' = [wake EXCEPT ![x] = "none"]
  /\ IF killreq[x]
       THEN GoTo(x, "dying") /\ UNCHANGED argVars
       ELSE /\ GoTo(x, "none")
            /\ cond' = [cond EXCEPT ![x] = NIL]
            /\ mutex' = [mutex EXCEPT ![x] = NIL]
            /\ timed' = [timed EXCEPT ![x] = FALSE]
            /\ timedout' = [timedout EXCEPT ![x] = FALSE]
  /\ UNCHANGED <<mutexVars, waiters, used_for_waiting, cond_waiting, timer,
                 destroyed, killreq, corrupt>>

-----------------------------------------------------------------------------
(* The mutex operations, from the task's own code and cleanup handlers *)

\* Callers destroy a mutex that nobody holds or is locking for itself; a task
\* inside cond_wait is not theirs to see, mutex->use is.
Unused(m) ==
  \A y \in Tasks : call[y] \in {"none", "dying"} => ~Holds(y, m) /\ arg[y] # m

\* PI_destroy and PC_destroy ask for waiters, NOP_destroy and NPP_destroy for
\* an owner.
mutex_destroy(x, m) ==
  /\ At(x, "none")
  /\ Unused(m) /\ ~destroyed[m]
  /\ use[m] = 0
  /\ IF class[m] \in {"PI", "PC"} THEN blocked[m] = <<>> ELSE owner[m] = NIL
  /\ destroyed' = [destroyed EXCEPT ![m] = TRUE]
  /\ UNCHANGED <<mutexVars, waitVars, use, killreq, call, argVars, corrupt>>

OwnCode(x) ==
  \/ \E m \in Mutexes :
       \/ /\ At(x, "none") /\ ~destroyed[m]
          /\ mutex_lock(x, m) \/ mutex_trylock(x, m)
       \/ /\ At(x, "none") \/ At(x, "dying")
          /\ mutex_unlock(x, m)
  \/ lock_resume(x)
  \/ (At(x, "none") \/ At(x, "dying")) /\ task_end(x)

MutexCall(x) == ~corrupt /\ OwnCode(x) /\ UNCHANGED condVars
Dispatch(x) == ~corrupt /\ scheduler(x) /\ UNCHANGED condVars

TaskStep(x) ==
  \/ MutexCall(x)
  \/ \E c \in Conds :
       \/ cond_signal(x, c)
       \/ cond_broadcast(x, c)
       \/ \E m \in Mutexes, t \in BOOLEAN : cond_wait(x, c, m, t)
  \/ cond_unlock(x)
  \/ cond_unlock_failed(x)
  \/ cond_block(x)
  \/ cond_resume(x)
  \/ cond_relock(x)
  \/ cond_return(x)
  \/ \E y \in Tasks : task_kill(x, y)
  \/ \E m \in Mutexes : mutex_destroy(x, m)

Next == \E x \in Tasks : Dispatch(x) \/ condition_timer(x) \/ TaskStep(x)

Spec == Init /\ [][Next]_vars

-----------------------------------------------------------------------------
(* Properties *)

CondTypeOK ==
  /\ waiters \in [Conds -> Seq(Tasks)]
  /\ used_for_waiting \in [Conds -> Mutexes \cup {NIL}]
  /\ cond_waiting \in [Tasks -> Conds \cup {NIL}]
  /\ timer \in [Tasks -> BOOLEAN]
  /\ use \in [Mutexes -> Nat]
  /\ destroyed \in [Mutexes -> BOOLEAN]
  /\ killreq \in [Tasks -> BOOLEAN]
  /\ call \in [Tasks -> {"none", "entered", "unlocked", "wait", "relock", "dying"}]
  /\ cond \in [Tasks -> Conds \cup {NIL}]
  /\ mutex \in [Tasks -> Mutexes \cup {NIL}]
  /\ timed \in [Tasks -> BOOLEAN]
  /\ timedout \in [Tasks -> BOOLEAN]
  /\ wake \in [Tasks -> {"none", "signal", "timeout", "kill"}]
  /\ corrupt \in BOOLEAN

\* The queue of a condition holds exactly the tasks blocked on it, each once,
\* and each of them knows the condition and waits with the same mutex: signals,
\* time-outs and kills take tasks out in any order, none is waited for or woken
\* twice, and a time-out finds its task in the queue.
WaitersConsistent ==
  /\ CondTypeOK /\ ~corrupt
  /\ \A c \in Conds : Distinct(waiters[c])
  /\ \A x \in Tasks, c \in Conds :
       LET waits == status[x] = "WAIT_COND" /\ cond[x] = c
       IN  /\ x \in Members(waiters[c]) <=> waits
           /\ waits => cond_waiting[x] = c
  /\ \A c \in Conds : \A x, y \in Members(waiters[c]) : mutex[x] = mutex[y]

\* Releasing the mutex and waiting are one step for everybody else: no task
\* gets the mutex, and so changes what the condition is about and signals,
\* before the task that released it is in the queue.
NoLostSignal ==
  \A x, y \in Tasks :
    call[x] = "unlocked" /\ x # y => ~Holds(y, mutex[x])

\* A mutex is not destroyed while a task in cond_wait still has to lock it.
MutexOutlivesWait ==
  \A x \in Tasks :
    call[x] \in {"entered", "unlocked", "wait", "relock"} => ~destroyed[mutex[x]]

\* A cond_timedwait that a signal has ended does not return ETIMEDOUT, and one
\* that its timer has ended does.
WakeReported ==
  [][\A x \in Tasks :
       call[x] = "relock" /\ call'[x] = "none" /\ timed[x]
         => (timedout[x] <=> wake[x] = "timeout")]_vars

\* A task that is killed in cond_wait dies holding the mutex, so that the
\* cleanup handler that unlocks it is right.
KilledOwnsMutex ==
  [][\A x \in Tasks :
       call[x] # "none" /\ call[x] # "dying" /\ call'[x] = "dying"
         => owner[mutex[x]] = x]_vars

=============================================================================
