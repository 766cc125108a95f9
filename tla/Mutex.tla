------------------------------- MODULE Mutex -------------------------------
(***************************************************************************)
(* Mutexes: kernel/mutex.c, which hands each operation to the resource     *)
(* level of the mutex, and the levels NOP, NOPM (queue and hand-off), NPP  *)
(* (no preemption), PI (priority inheritance) and PC (priority ceiling) of *)
(* modules/, together with the part of scheduler() that they rely on: the  *)
(* shadow chain and the NO_PREEMPT flag.                                   *)
(*                                                                         *)
(* One task has the processor (exec_shadow).  An operation is one action   *)
(* up to the point where it gives the processor away; the rest of the      *)
(* lock of a task that had to wait is an action of its own.                *)
(***************************************************************************)
EXTENDS IqueueOps, FiniteSets

CONSTANTS
  Tasks,
  Mutexes,       \* numbers: callers nest locks in increasing order
  NIL,           \* no task
  ClassChoices,  \* the assignments of a class to each mutex to consider
  ceiling,       \* the ceiling of each PC mutex
  priority,      \* the PC priority of each task: 1 is more urgent than 2
  Nestable,      \* <<c, d>>: a holder of a mutex of class c may lock one of d
  MaxDepth       \* bound: how often a NOPM mutex is locked by its owner

Classes == {"NOP", "NOPM", "NPP", "PI", "PC"}

ASSUME MutexAssumption ==
  /\ NIL \notin Tasks
  /\ Mutexes \subseteq Nat /\ IsFiniteSet(Mutexes)
  /\ ClassChoices \subseteq [Mutexes -> Classes]
  /\ ceiling \in [Mutexes -> Nat]
  /\ priority \in [Tasks -> Nat]
  /\ Nestable \subseteq Classes \X Classes
  /\ MaxDepth \in Nat \ {0}

VARIABLES
  class,       \* the resource level each mutex was initialised for
  owner,       \* owner of each mutex (m->opt itself for NPP)
  counter,     \* NOPM: nested locks
  blocked,     \* NOP, NOPM: the queue; PI, PC: the list from firstblocked
  nlocked,     \* PI, PC: how many mutexes of the level each task locks
  nppLocked,   \* NPP: how many are locked
  mlist,       \* PC: the busy mutexes, the most urgent ceiling first
  shadow,
  status,      \* READY (or EXE), NOP_WAIT, or FREE
  nopreempt,   \* NO_PREEMPT
  exec_shadow, \* the task that has the processor
  phase,       \* where a task is: its own code, or waiting in mutex_lock
  arg,         \* the mutex it waits for
  depth,       \* history: successful locks minus unlocks of a mutex by a task
  raised       \* an exception of res_detach or task_makefree

levelVars == <<owner, counter, blocked, nlocked, nppLocked, mlist>>
taskVars == <<shadow, status, nopreempt>>
callVars == <<phase, arg, depth>>
mutexVars == <<class, levelVars, taskVars, exec_shadow, callVars, raised>>

MutexInit ==
  /\ class \in ClassChoices
  /\ owner = [m \in Mutexes |-> NIL]
  /\ counter = [m \in Mutexes |-> 0]
  /\ blocked = [m \in Mutexes |-> <<>>]
  /\ nlocked = [c \in {"PI", "PC"} |-> [x \in Tasks |-> 0]]
  /\ nppLocked = 0
  /\ mlist = <<>>
  /\ shadow = [x \in Tasks |-> x]
  /\ status = [x \in Tasks |-> "READY"]
  /\ nopreempt = [x \in Tasks |-> FALSE]
  /\ exec_shadow = NIL
  /\ phase = [x \in Tasks |-> "user"]
  /\ arg = [x \in Tasks |-> NIL]
  /\ depth = [x \in Tasks |-> [m \in Mutexes |-> 0]]
  /\ raised = FALSE

-----------------------------------------------------------------------------
(* The processor *)

Running(x, where) == ~raised /\ exec_shadow = x /\ phase[x] = where

\* The tasks on the shadow chain of p, which is in the smallest set that contains
\* p and the shadow of each of its members; a chain without an end stops the
\* scheduler.
ChainFrom(p) ==
  {e \in Tasks : \A C \in SUBSET Tasks :
     p \in C /\ (\A q \in C : shadow[q] \in C) => e \in C}
ChainEnds(p) == {e \in ChainFrom(p) : shadow[e] = e}

\* scheduler(), from an interrupt or a primitive: some level chooses the ready
\* task p, and the end of its shadow chain gets the processor.
scheduler(p) ==
  /\ ~raised
  /\ exec_shadow # NIL => ~nopreempt[exec_shadow]
  /\ status[p] = "READY"
  /\ exec_shadow' \in ChainEnds(p)
  /\ UNCHANGED <<class, levelVars, taskVars, callVars, raised>>

-----------------------------------------------------------------------------
(* NOP and NOPM: a queue, and the mutex is handed to the first waiter *)

Gain(x, m) == depth' = [depth EXCEPT ![x][m] = @ + 1]
Lose(x, m) == depth' = [depth EXCEPT ![x][m] = @ - 1]
Return(x) ==
  /\ phase' = [phase EXCEPT ![x] = "user"]
  /\ arg' = [arg EXCEPT ![x] = NIL]
WaitFor(x, m) ==
  /\ phase' = [phase EXCEPT ![x] = "lock"]
  /\ arg' = [arg EXCEPT ![x] = m]
  /\ UNCHANGED depth

\* Mutant: exec and exec_shadow are not reset.
Block_running(x, m) ==
  /\ blocked' = [blocked EXCEPT ![m] = InsertLast(x, @)]
  /\ status' = [status EXCEPT ![x] = "NOP_WAIT"]
  /\ WaitFor(x, m)
  /\ UNCHANGED <<class, owner, counter, nlocked, nppLocked, mlist, shadow,
                 nopreempt, exec_shadow, raised>>
\* The task leaves the ready queue.
Block(x, m) ==
  /\ blocked' = [blocked EXCEPT ![m] = InsertLast(x, @)]
  /\ status' = [status EXCEPT ![x] = "NOP_WAIT"]
  /\ exec_shadow' = NIL
  /\ WaitFor(x, m)
  /\ UNCHANGED <<class, owner, counter, nlocked, nppLocked, mlist, shadow,
                 nopreempt, raised>>

\* The mutex is free, or a NOPM mutex of x's.
TakeNOP(x, m) ==
  /\ owner' = [owner EXCEPT ![m] = x]
  /\ counter' = IF class[m] = "NOPM" THEN [counter EXCEPT ![m] = @ + 1]
                ELSE counter
  /\ Gain(x, m)
  /\ UNCHANGED <<class, blocked, nlocked, nppLocked, mlist, taskVars,
                 exec_shadow, phase, arg, raised>>

NOP_lock(x, m) ==
  \/ owner[m] = NIL /\ TakeNOP(x, m)
  \/ owner[m] \notin {NIL, x} /\ Block(x, m)
NOPM_lock(x, m) == (owner[m] = x /\ TakeNOP(x, m)) \/ NOP_lock(x, m)
NOP_trylock(x, m) == owner[m] = NIL /\ TakeNOP(x, m)
NOPM_trylock(x, m) == owner[m] = NIL /\ TakeNOP(x, m)

\* Mutant: without waiters the owner is not reset.
HandOff_stale(m) ==
  IF blocked[m] = <<>>
    THEN /\ counter' = [counter EXCEPT ![m] = 0]
         /\ UNCHANGED <<owner, blocked, status>>
    ELSE /\ owner' = [owner EXCEPT ![m] = Head(blocked[m])]
         /\ counter' = [counter EXCEPT ![m] = IF class[m] = "NOPM" THEN 1 ELSE 0]
         /\ blocked' = [blocked EXCEPT ![m] = Tail(@)]
         /\ status' = [status EXCEPT ![Head(blocked[m])] = "READY"]
\* The first waiter becomes the owner.
HandOff(m) ==
  IF blocked[m] = <<>>
    THEN /\ owner' = [owner EXCEPT ![m] = NIL]
         /\ counter' = [counter EXCEPT ![m] = 0]
         /\ UNCHANGED <<blocked, status>>
    ELSE /\ owner' = [owner EXCEPT ![m] = Head(blocked[m])]
         /\ counter' = [counter EXCEPT ![m] = IF class[m] = "NOPM" THEN 1 ELSE 0]
         /\ blocked' = [blocked EXCEPT ![m] = Tail(@)]
         /\ status' = [status EXCEPT ![Head(blocked[m])] = "READY"]

NOP_unlock(x, m) ==
  /\ owner[m] = x
  /\ HandOff(m)
  /\ UNCHANGED <<nlocked, nppLocked, mlist, shadow, nopreempt>>
NOPM_unlock(x, m) ==
  /\ owner[m] = x
  /\ IF counter[m] > 1
       THEN /\ counter' = [counter EXCEPT ![m] = @ - 1]
            /\ UNCHANGED <<owner, blocked, status>>
       ELSE HandOff(m)
  /\ UNCHANGED <<nlocked, nppLocked, mlist, shadow, nopreempt>>

-----------------------------------------------------------------------------
(* NPP: the first lock makes the task non-preemptive *)

NPP_lock(x, m) ==
  /\ owner[m] # x
  /\ owner' = [owner EXCEPT ![m] = x]
  /\ nppLocked' = nppLocked + 1
  /\ nopreempt' = IF nppLocked = 0 THEN [nopreempt EXCEPT ![x] = TRUE]
                  ELSE nopreempt
  /\ Gain(x, m)
  /\ UNCHANGED <<class, counter, blocked, nlocked, mlist, shadow, status,
                 exec_shadow, phase, arg, raised>>

\* NPP_unlock does not ask who the owner is.
NPP_unlock(x, m) ==
  /\ owner' = [owner EXCEPT ![m] = NIL]
  /\ nppLocked' = nppLocked - 1
  /\ nopreempt' = IF nppLocked = 1 THEN [nopreempt EXCEPT ![x] = FALSE]
                  ELSE nopreempt
  /\ UNCHANGED <<counter, blocked, nlocked, mlist, shadow, status>>

-----------------------------------------------------------------------------
(* PI and PC: a waiter lends its place to the owner; an unlock frees all *)

\* The task stays ready; scheduler() does nothing if it cannot be preempted.
Inherit(x, m, wanted) ==
  /\ shadow' = [shadow EXCEPT ![x] = owner[m]]
  /\ blocked' = [blocked EXCEPT ![m] = InsertFirst(x, @)]
  /\ exec_shadow' = IF nopreempt[x] THEN x ELSE NIL
  /\ WaitFor(x, wanted)
  /\ UNCHANGED <<class, owner, counter, nlocked, nppLocked, mlist, status,
                 nopreempt, raised>>

\* PC_insert, PC_extract: the list of busy mutexes, most urgent ceiling first.
PC_insert(m) == InsertByKey(m, mlist, ceiling)
PC_extract(m) == Extract(m, mlist)

\* The mutex is free and allowed.
TakeCounted(x, m) ==
  /\ owner' = [owner EXCEPT ![m] = x]
  /\ nlocked' = [nlocked EXCEPT ![class[m]][x] = @ + 1]
  /\ mlist' = IF class[m] = "PC" THEN PC_insert(m) ELSE mlist
  /\ Gain(x, m) /\ Return(x)
  /\ UNCHANGED <<class, counter, blocked, nppLocked, taskVars, exec_shadow,
                 raised>>

\* Mutant: the ceilings of the mutexes of others are not looked at.
PC_accept_any(x) == TRUE
\* PC_accept: the first busy mutex that is not x's decides.
PC_accept(x) ==
  LET others == {i \in DOMAIN mlist : owner[mlist[i]] # x}
  IN  \A i \in others :
        (\A j \in others : i <= j) => priority[x] < ceiling[mlist[i]]

\* One turn of the loop of PI_lock, and of PC_lock: a waiter of PC_lock joins
\* the list of the busy mutex with the most urgent ceiling.
PI_turn(x, m) ==
  \/ owner[m] = NIL /\ TakeCounted(x, m)
  \/ owner[m] # NIL /\ Inherit(x, m, m)
PC_turn(x, m) ==
  \/ PC_accept(x) /\ TakeCounted(x, m)
  \/ ~PC_accept(x) /\ Inherit(x, mlist[1], m)

PI_lock(x, m) == owner[m] # x /\ PI_turn(x, m)
PC_lock(x, m) == owner[m] # x /\ ceiling[m] <= priority[x] /\ PC_turn(x, m)
PI_trylock(x, m) == owner[m] = NIL /\ TakeCounted(x, m)

\* PC_trylock compares the ceiling the other way round (EINVAL if it is more
\* urgent than the caller); callers at the ceiling are right in both senses,
\* and only their calls are considered.
PC_trylock(x, m) ==
  /\ owner[m] # x /\ ceiling[m] >= priority[x] /\ PC_accept(x)
  /\ ceiling[m] <= priority[x]
  /\ TakeCounted(x, m)

\* Mutants: the last task of the list keeps its shadow; the unlock is not
\* counted.
ReleaseAll_but_last(x, m) ==
  LET woken == {blocked[m][i] : i \in 1 .. Len(blocked[m]) - 1}
  IN  /\ owner' = [owner EXCEPT ![m] = NIL]
      /\ nlocked' = [nlocked EXCEPT ![class[m]][x] = @ - 1]
      /\ shadow' = [p \in Tasks |-> IF p \in woken THEN p ELSE shadow[p]]
      /\ blocked' = [blocked EXCEPT ![m] = <<>>]
ReleaseAll_uncounted(x, m) ==
  /\ owner' = [owner EXCEPT ![m] = NIL]
  /\ shadow' = [p \in Tasks |-> IF p \in Members(blocked[m]) THEN p ELSE shadow[p]]
  /\ blocked' = [blocked EXCEPT ![m] = <<>>]
  /\ UNCHANGED nlocked
\* All waiters get their place back and test again.
ReleaseAll(x, m) ==
  LET woken == Members(blocked[m])
  IN  /\ owner' = [owner EXCEPT ![m] = NIL]
      /\ nlocked' = [nlocked EXCEPT ![class[m]][x] = @ - 1]
      /\ shadow' = [p \in Tasks |-> IF p \in woken THEN p ELSE shadow[p]]
      /\ blocked' = [blocked EXCEPT ![m] = <<>>]

PI_unlock(x, m) ==
  /\ owner[m] = x
  /\ ReleaseAll(x, m)
  /\ UNCHANGED <<counter, nppLocked, mlist, status, nopreempt>>
PC_unlock(x, m) ==
  /\ owner[m] = x
  /\ ReleaseAll(x, m)
  /\ mlist' = PC_extract(m)
  /\ UNCHANGED <<counter, nppLocked, status, nopreempt>>

-----------------------------------------------------------------------------
(* mutex.c: the operations, and how callers use them *)

Holds(x, m) == depth[x][m] > 0

\* Callers nest the classes as Nestable says, in increasing order unless the
\* level itself excludes deadlock; NOPM mutexes are recursive.
MayLock(x, m) ==
  \/ Holds(x, m) /\ class[m] = "NOPM" /\ depth[x][m] < MaxDepth
  \/ \A k \in Mutexes : Holds(x, k) =>
       /\ k # m
       /\ <<class[k], class[m]>> \in Nestable
       /\ k < m \/ (class[k] = class[m] /\ class[k] \in {"PC", "NPP"})

\* The calls that fail (EDEADLK, EINVAL, EBUSY, EPERM) change nothing.
mutex_lock(x, m) ==
  /\ Running(x, "user")
  /\ MayLock(x, m)
  /\ CASE class[m] = "NOP" -> NOP_lock(x, m)
       [] class[m] = "NOPM" -> NOPM_lock(x, m)
       [] class[m] = "NPP" -> NPP_lock(x, m)
       [] class[m] = "PI" -> PI_lock(x, m)
       [] class[m] = "PC" -> PC_lock(x, m)

\* A task that waited in PI_lock or PC_lock tests again when it runs again; one
\* that waited in NOP_lock or NOPM_lock has been made the owner.
lock_resume(x) ==
  /\ Running(x, "lock")
  /\ CASE class[arg[x]] = "PI" -> PI_turn(x, arg[x])
       [] class[arg[x]] = "PC" -> PC_turn(x, arg[x])
       [] OTHER -> /\ Gain(x, arg[x]) /\ Return(x)
                   /\ UNCHANGED <<class, levelVars, taskVars, exec_shadow, raised>>

\* NPP's trylock is its lock.
mutex_trylock(x, m) ==
  /\ Running(x, "user")
  /\ MayLock(x, m)
  /\ CASE class[m] = "NOP" -> NOP_trylock(x, m)
       [] class[m] = "NOPM" -> NOPM_trylock(x, m)
       [] class[m] = "NPP" -> NPP_lock(x, m)
       [] class[m] = "PI" -> PI_trylock(x, m)
       [] class[m] = "PC" -> PC_trylock(x, m)

Unlock(x, m) ==
  /\ CASE class[m] = "NOP" -> NOP_unlock(x, m)
       [] class[m] = "NOPM" -> NOPM_unlock(x, m)
       [] class[m] = "NPP" -> NPP_unlock(x, m)
       [] class[m] = "PI" -> PI_unlock(x, m)
       [] class[m] = "PC" -> PC_unlock(x, m)
  /\ Lose(x, m)

mutex_unlock(x, m) ==
  /\ Running(x, "user")
  /\ Holds(x, m)
  /\ Unlock(x, m)
  /\ UNCHANGED <<class, exec_shadow, phase, arg, raised>>

\* The end of a task that holds no mutex: task_makefree and the res_detach of
\* the levels raise an exception if their books say otherwise.
task_end(x) ==
  /\ Running(x, "user")
  /\ \A m \in Mutexes : ~Holds(x, m)
  /\ raised' = \/ \E p \in Tasks \ {x} : shadow[p] = x
               \/ \E c \in {"PI", "PC"} : nlocked[c][x] # 0
               \/ nppLocked # 0
  /\ status' = [status EXCEPT ![x] = "FREE"]
  /\ exec_shadow' = NIL
  /\ UNCHANGED <<class, levelVars, shadow, nopreempt, callVars>>

-----------------------------------------------------------------------------
MutexStep ==
  \E x \in Tasks :
    \/ scheduler(x)
    \/ \E m \in Mutexes : \/ mutex_lock(x, m)
                          \/ mutex_trylock(x, m)
                          \/ mutex_unlock(x, m)
    \/ lock_resume(x)
    \/ task_end(x)

MutexSpec == MutexInit /\ [][MutexStep]_mutexVars

-----------------------------------------------------------------------------
(* Properties *)

MutexTypeOK ==
  /\ class \in [Mutexes -> Classes]
  /\ owner \in [Mutexes -> Tasks \cup {NIL}]
  /\ counter \in [Mutexes -> 0 .. MaxDepth]
  /\ blocked \in [Mutexes -> Seq(Tasks)]
  /\ nlocked \in [{"PI", "PC"} -> [Tasks -> Nat]]
  /\ nppLocked \in Nat
  /\ mlist \in Seq(Mutexes)
  /\ shadow \in [Tasks -> Tasks]
  /\ status \in [Tasks -> {"READY", "NOP_WAIT", "FREE"}]
  /\ nopreempt \in [Tasks -> BOOLEAN]
  /\ exec_shadow \in Tasks \cup {NIL}
  /\ phase \in [Tasks -> {"user", "lock"}]
  /\ arg \in [Tasks -> Mutexes \cup {NIL}]
  /\ depth \in [Tasks -> [Mutexes -> 0 .. MaxDepth]]
  /\ raised \in BOOLEAN

\* A mutex that a task has locked, and not unlocked, is locked by no other
\* task, whatever its class and whatever the task did in between.
MutualExclusion ==
  \A m \in Mutexes, x, y \in Tasks : Holds(x, m) /\ Holds(y, m) => x = y

\* No wake-up is lost: a task that has left its place to another is in the
\* list of exactly one mutex, which that other task owns and will unlock; the
\* tasks in a NOP queue are the blocked ones, and the mutex has an owner.
WaitersLinked ==
  /\ MutexTypeOK
  /\ \A x \in Tasks :
       LET lists == {m \in Mutexes : x \in Members(blocked[m])}
       IN  /\ shadow[x] # x \/ status[x] = "NOP_WAIT" => Cardinality(lists) = 1
           /\ shadow[x] = x /\ status[x] # "NOP_WAIT" => lists = {}
           /\ \A m \in lists :
                /\ Distinct(blocked[m])
                /\ owner[m] \notin {NIL, x}
                /\ class[m] \in {"PI", "PC"} => shadow[x] = owner[m]

\* No deadlock, across the levels: following from any waiting task the owner of
\* the mutex in whose list it is ends at a task that does not wait. (So the
\* shadow chains that scheduler() follows end.)
NoWaitCycle ==
  \A C \in (SUBSET Tasks) \ {{}} :
    \E x \in C : \A m \in Mutexes :
      x \in Members(blocked[m]) => owner[m] \notin C

\* Inheritance never gives the processor to a task that is out of the ready
\* queues: scheduler() sets the end of the shadow chain running unseen.
ExecIsReady == exec_shadow # NIL => status[exec_shadow] = "READY"

\* The books of the levels are right when a task ends.
NeverRaised == ~raised
=============================================================================
