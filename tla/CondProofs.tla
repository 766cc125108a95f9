------------------------------ MODULE CondProofs ------------------------------
(* Theorems about condition variables, for any number of tasks, conditions *)
(* and mutexes: exact queues, no lost signal, mutexes that outlive the     *)
(* waits, wake-ups reported as what they were, and the mutex of a killed   *)
(* waiter.                                                                 *)
(*                                                                         *)
(* The mutexes under the condition variables keep the invariant of         *)
(* MutexProofs: seen from them, a task that waits on a condition is ready  *)
(* and does not run, and a task inside cond_wait is not non-preemptive.    *)
EXTENDS Cond, IqueueOpsProofs

VStatus == [x \in Tasks |-> IF status[x] = "WAIT_COND" THEN "READY" ELSE status[x]]
VNopreempt == [x \in Tasks |-> call[x] \in {"none", "relock"} /\ nopreempt[x]]
M == INSTANCE MutexProofs WITH status <- VStatus, nopreempt <- VNopreempt

-----------------------------------------------------------------------------
(* The inductive invariant *)

TypesOK ==
  /\ CondTypeOK /\ ~corrupt
  /\ status \in [Tasks -> {"READY", "NOP_WAIT", "FREE", "WAIT_COND"}]
  /\ nopreempt \in [Tasks -> BOOLEAN]

\* Where a task is between the entry and the return of cond_wait.
Entering(x) == call[x] \in {"entered", "unlocked"}
Waiting(x) == call[x] \in {"unlocked", "wait", "relock"}
Inside(x) == call[x] \in {"entered", "unlocked", "wait", "relock"}
Blocked(x) == status[x] = "WAIT_COND"

\* A task that enters has the processor and keeps it; only a task that is in
\* the queue has a timer, and only in mutex_lock does it wait for a mutex.
StepsOK ==
  /\ exec_shadow # NIL => ~Blocked(exec_shadow)
  /\ \A x \in Tasks :
       /\ Entering(x) => exec_shadow = x /\ nopreempt[x]
       /\ call[x] = "relock" => ~nopreempt[x]
       /\ phase[x] = "lock" => call[x] \in {"none", "relock"}
       /\ phase[x] = "lock" /\ call[x] = "relock" => arg[x] = mutex[x]
       /\ Blocked(x) \/ timer[x] => call[x] = "wait"
       /\ Inside(x) => cond[x] \in Conds /\ mutex[x] \in Mutexes

\* Between the unlock and the lock a task has mutexes of the levels NOP and
\* NOPM only, and may lock the mutex of the condition again.  Until it is in the
\* queue nobody has that mutex.
HoldsOK ==
  \A x \in Tasks :
    /\ Inside(x) =>
         /\ class[mutex[x]] # "NPP" /\ depth[x][mutex[x]] <= 1
         /\ \A k \in Mutexes \ {mutex[x]} : depth[x][k] > 0 =>
              /\ class[k] \in {"NOP", "NOPM"}
              /\ k < mutex[x] /\ <<class[k], class[mutex[x]]>> \in Nestable
    /\ call[x] = "wait" => depth[x][mutex[x]] = 0
    /\ call[x] = "unlocked" => \A y \in Tasks : depth[y][mutex[x]] = 0

\* The queues, and the mutex of the tasks that use a condition.
QueuesOK ==
  /\ \A c \in Conds : Distinct(waiters[c])
  /\ \A x \in Tasks, c \in Conds :
       x \in Members(waiters[c]) <=> Blocked(x) /\ cond[x] = c
  /\ \A x \in Tasks :
       /\ Blocked(x) => cond_waiting[x] = cond[x]
       /\ Blocked(x) \/ Entering(x) => used_for_waiting[cond[x]] = mutex[x]

\* What a woken task can tell from cond_waiting.
WakeOK ==
  \A x \in Tasks :
    /\ timer[x] => timed[x]
    /\ Blocked(x) => wake[x] = "none"
    /\ call[x] = "wait" /\ ~Blocked(x) =>
         (cond_waiting[x] = NIL <=> wake[x] \in {"timeout", "kill"})
    /\ call[x] = "relock" =>
         (timedout[x] <=> timed[x] /\ wake[x] \in {"timeout", "kill"})
    /\ call[x] \in {"wait", "relock"} /\ wake[x] = "kill" => killreq[x]

\* The use count of a mutex.
Users(m) == {x \in Tasks : Inside(x) /\ mutex[x] = m}
UseOK ==
  /\ \A m \in Mutexes : use[m] = Cardinality(Users(m))
  /\ \A x \in Tasks : Inside(x) => ~destroyed[mutex[x]]

CondOK ==
  /\ M!MutexOK
  /\ TypesOK /\ StepsOK /\ HoldsOK /\ QueuesOK /\ WakeOK /\ UseOK

-----------------------------------------------------------------------------
(* The mutexes, as MutexProofs sees them *)

LEMMA Assumed ==
  M!MutexAssumption
<1>1. M!IsFiniteSet(Mutexes)
  BY MutexAssumption DEF MutexAssumption, IsFiniteSet, M!IsFiniteSet
<1> QED BY <1>1, MutexAssumption DEF MutexAssumption, M!MutexAssumption, Classes, M!Classes

\* What the invariant of the mutexes says of the variables of Cond.
LEMMA Plain ==
  ASSUME CondOK
  PROVE  /\ ~raised /\ NIL \notin Tasks /\ NIL \notin Mutexes /\ Mutexes \subseteq Nat
         /\ class \in [Mutexes -> Classes]
         /\ owner \in [Mutexes -> Tasks \cup {NIL}]
         /\ blocked \in [Mutexes -> Seq(Tasks)]
         /\ phase \in [Tasks -> {"user", "lock"}]
         /\ arg \in [Tasks -> Mutexes \cup {NIL}]
         /\ depth \in [Tasks -> [Mutexes -> 0 .. MaxDepth]]
         /\ \A x \in Tasks, m \in Mutexes :
              depth[x][m] \in Nat /\ (depth[x][m] > 0 => owner[m] = x)
<1>1. M!MutexTypeOK /\ M!OwnersOK /\ ~raised
  BY DEF CondOK, M!MutexOK
<1>2. MaxDepth \in Nat
  BY MutexAssumption DEF MutexAssumption
<1>3. class \in [Mutexes -> Classes]
  BY <1>1 DEF M!MutexTypeOK, M!Classes, Classes
<1>4. depth \in [Tasks -> [Mutexes -> 0 .. MaxDepth]]
  BY <1>1 DEF M!MutexTypeOK
<1>5. \A x \in Tasks, m \in Mutexes : depth[x][m] > 0 => owner[m] = x
  BY <1>1 DEF M!OwnersOK
<1>6. \A x \in Tasks, m \in Mutexes : depth[x][m] \in Nat
  BY <1>2, <1>4
<1>7. NIL \notin Tasks /\ NIL \notin Mutexes /\ Mutexes \subseteq Nat
  BY MutexAssumption, CondAssumption DEF MutexAssumption, CondAssumption
<1> QED BY <1>1, <1>3, <1>4, <1>5, <1>6, <1>7 DEF M!MutexTypeOK

\* A task that has the processor is ready, and in the list of no mutex.
LEMMA RunsReady ==
  ASSUME CondOK, NEW x \in Tasks, exec_shadow = x
  PROVE  status[x] = "READY"
<1>1. VStatus[x] = "READY"
  BY Assumed, M!RunsFree DEF CondOK
<1>2. status[x] # "WAIT_COND"
  BY Plain DEF CondOK, StepsOK, Blocked
<1> QED BY <1>1, <1>2 DEF VStatus

LEMMA Unseen ==
  ASSUME status' = status, nopreempt' = nopreempt, call' = call
  PROVE  VStatus' = VStatus /\ VNopreempt' = VNopreempt
BY DEF VStatus, VNopreempt

\* The steps of the levels are steps of the mutexes as MutexProofs sees them.
LEMMA TakeNOPSeen ==
  ASSUME NEW x \in Tasks, NEW m \in Mutexes, TakeNOP(x, m), call' = call
  PROVE  M!TakeNOP(x, m)
<1>1. VStatus' = VStatus /\ VNopreempt' = VNopreempt
  BY Unseen DEF TakeNOP, taskVars
<1> QED BY <1>1 DEF TakeNOP, M!TakeNOP, Gain, M!Gain, taskVars, M!taskVars

LEMMA BlockSeen ==
  ASSUME TypesOK, NEW x \in Tasks, NEW m \in Mutexes, ~Blocked(x), Block(x, m), call' = call
  PROVE  M!Block(x, m)
<1>1. VNopreempt' = VNopreempt
  BY DEF Block, VNopreempt
<1>2. VStatus' = [VStatus EXCEPT ![x] = "NOP_WAIT"]
  BY DEF TypesOK, Block, VStatus
<1> QED
  BY <1>1, <1>2 DEF Block, M!Block, WaitFor, M!WaitFor, InsertLast, M!InsertLast

LEMMA TakeCountedSeen ==
  ASSUME NEW x \in Tasks, NEW m \in Mutexes, TakeCounted(x, m), call' = call
  PROVE  M!TakeCounted(x, m)
<1>1. VStatus' = VStatus /\ VNopreempt' = VNopreempt
  BY Unseen DEF TakeCounted, taskVars
<1>2. M!PC_insert(m) = PC_insert(m)
  BY DEF PC_insert, M!PC_insert, InsertByKey, M!InsertByKey
<1> QED
  BY <1>1, <1>2 DEF TakeCounted, M!TakeCounted, Gain, M!Gain, Return, M!Return,
                    taskVars, M!taskVars

LEMMA InheritSeen ==
  ASSUME NEW x \in Tasks, NEW m, NEW w, Inherit(x, m, w), call' = call,
         call[x] \in {"none", "relock"}
  PROVE  M!Inherit(x, m, w)
<1>1. VStatus' = VStatus /\ VNopreempt' = VNopreempt
  BY Unseen DEF Inherit
<1>2. VNopreempt[x] <=> nopreempt[x]
  BY DEF VNopreempt
<1>3. exec_shadow' = IF VNopreempt[x] THEN x ELSE NIL
  BY <1>2 DEF Inherit
<1> QED
  BY <1>1, <1>3 DEF Inherit, M!Inherit, WaitFor, M!WaitFor, InsertFirst, M!InsertFirst

LEMMA TurnSeen ==
  ASSUME NEW x \in Tasks, NEW m \in Mutexes, call' = call, call[x] \in {"none", "relock"}
  PROVE  /\ PI_turn(x, m) => M!PI_turn(x, m)
         /\ PC_turn(x, m) => M!PC_turn(x, m)
         /\ PC_accept(x) <=> M!PC_accept(x)
<1>1. PC_accept(x) <=> M!PC_accept(x)
  BY DEF PC_accept, M!PC_accept
<1>2. PI_turn(x, m) => M!PI_turn(x, m)
  BY TakeCountedSeen, InheritSeen DEF PI_turn, M!PI_turn
<1>3. PC_turn(x, m) => M!PC_turn(x, m)
  BY <1>1, TakeCountedSeen, InheritSeen DEF PC_turn, M!PC_turn
<1> QED BY <1>1, <1>2, <1>3

LEMMA NppLockSeen ==
  ASSUME TypesOK, NEW x \in Tasks, NEW m \in Mutexes, NPP_lock(x, m), call' = call,
         call[x] \in {"none", "relock"}
  PROVE  M!NPP_lock(x, m)
<1>1. VStatus' = VStatus
  BY DEF NPP_lock, VStatus
<1>2. VNopreempt' = IF nppLocked = 0 THEN [VNopreempt EXCEPT ![x] = TRUE] ELSE VNopreempt
  <2>1. CASE nppLocked = 0
    <3>1. nopreempt' = [nopreempt EXCEPT ![x] = TRUE]
      BY <2>1 DEF NPP_lock
    <3>2. \A y \in Tasks : VNopreempt'[y] = [VNopreempt EXCEPT ![x] = TRUE][y]
      BY <3>1 DEF TypesOK, VNopreempt
    <3> QED BY <2>1, <3>2 DEF VNopreempt
  <2>2. CASE nppLocked # 0
    BY <2>2 DEF NPP_lock, VNopreempt
  <2> QED BY <2>1, <2>2
<1> QED BY <1>1, <1>2 DEF NPP_lock, M!NPP_lock, Gain, M!Gain

\* The lock, from the task's own code or at the end of cond_wait.
LEMMA LockSeen ==
  ASSUME CondOK, NEW x \in Tasks, NEW m \in Mutexes, mutex_lock(x, m), call' = call,
         call[x] \in {"none", "relock"}
  PROVE  M!mutex_lock(x, m)
<1>1. TypesOK /\ class[m] \in Classes /\ ~Blocked(x)
  <2>1. exec_shadow = x
    BY DEF mutex_lock, Running
  <2> QED BY <2>1, Plain, RunsReady DEF CondOK, Blocked
<1>2. M!Running(x, "user") /\ M!MayLock(x, m)
  BY DEF mutex_lock, Running, M!Running, MayLock, M!MayLock, Holds, M!Holds
<1>3. CASE class[m] = "NOP"
  <2>1. NOP_lock(x, m)
    BY <1>3 DEF mutex_lock
  <2>2. M!NOP_lock(x, m)
    BY <1>1, <2>1, TakeNOPSeen, BlockSeen DEF NOP_lock, M!NOP_lock
  <2> QED BY <1>2, <1>3, <2>2 DEF M!mutex_lock
<1>4. CASE class[m] = "NOPM"
  <2>1. NOPM_lock(x, m)
    BY <1>4 DEF mutex_lock
  <2>2. M!NOPM_lock(x, m)
    BY <1>1, <2>1, TakeNOPSeen, BlockSeen DEF NOPM_lock, M!NOPM_lock, NOP_lock, M!NOP_lock
  <2> QED BY <1>2, <1>4, <2>2 DEF M!mutex_lock
<1>5. CASE class[m] = "NPP"
  <2>1. M!NPP_lock(x, m)
    BY <1>1, <1>5, NppLockSeen DEF mutex_lock
  <2> QED BY <1>2, <1>5, <2>1 DEF M!mutex_lock
<1>6. CASE class[m] = "PI"
  <2>1. M!PI_lock(x, m)
    BY <1>6, TurnSeen DEF mutex_lock, PI_lock, M!PI_lock
  <2> QED BY <1>2, <1>6, <2>1 DEF M!mutex_lock
<1>7. CASE class[m] = "PC"
  <2>1. M!PC_lock(x, m)
    BY <1>7, TurnSeen DEF mutex_lock, PC_lock, M!PC_lock
  <2> QED BY <1>2, <1>7, <2>1 DEF M!mutex_lock
<1> QED BY <1>1, <1>3, <1>4, <1>5, <1>6, <1>7 DEF Classes

LEMMA TrylockSeen ==
  ASSUME CondOK, NEW x \in Tasks, NEW m \in Mutexes, mutex_trylock(x, m), call' = call,
         call[x] \in {"none", "relock"}
  PROVE  M!mutex_trylock(x, m)
<1>1. TypesOK /\ class[m] \in Classes
  BY Plain DEF CondOK
<1>2. M!Running(x, "user") /\ M!MayLock(x, m)
  BY DEF mutex_trylock, Running, M!Running, MayLock, M!MayLock, Holds, M!Holds
<1>3. CASE class[m] \in {"NOP", "NOPM"}
  <2>1. owner[m] = NIL /\ TakeNOP(x, m)
    BY <1>3 DEF mutex_trylock, NOP_trylock, NOPM_trylock
  <2>2. M!NOP_trylock(x, m) /\ M!NOPM_trylock(x, m)
    BY <2>1, TakeNOPSeen DEF M!NOP_trylock, M!NOPM_trylock
  <2> QED BY <1>2, <1>3, <2>2 DEF M!mutex_trylock
<1>4. CASE class[m] = "NPP"
  <2>1. M!NPP_lock(x, m)
    BY <1>1, <1>4, NppLockSeen DEF mutex_trylock
  <2> QED BY <1>2, <1>4, <2>1 DEF M!mutex_trylock
<1>5. CASE class[m] = "PI"
  <2>1. M!PI_trylock(x, m)
    BY <1>5, TakeCountedSeen DEF mutex_trylock, PI_trylock, M!PI_trylock
  <2> QED BY <1>2, <1>5, <2>1 DEF M!mutex_trylock
<1>6. CASE class[m] = "PC"
  <2>1. M!PC_trylock(x, m)
    BY <1>6, TakeCountedSeen, TurnSeen DEF mutex_trylock, PC_trylock, M!PC_trylock
  <2> QED BY <1>2, <1>6, <2>1 DEF M!mutex_trylock
<1> QED BY <1>1, <1>3, <1>4, <1>5, <1>6 DEF Classes

LEMMA ResumeSeen ==
  ASSUME CondOK, NEW x \in Tasks, lock_resume(x), call' = call
  PROVE  M!lock_resume(x)
<1>1. M!Running(x, "lock") /\ call[x] \in {"none", "relock"}
  BY DEF lock_resume, Running, M!Running, CondOK, StepsOK
<1>2. arg[x] \in Mutexes
  BY <1>1 DEF CondOK, M!MutexOK, M!RequestsOK, M!Running
<1>3. CASE class[arg[x]] = "PI"
  <2>1. M!PI_turn(x, arg[x])
    BY <1>1, <1>2, <1>3, TurnSeen DEF lock_resume
  <2> QED BY <1>1, <1>3, <2>1 DEF M!lock_resume
<1>4. CASE class[arg[x]] = "PC"
  <2>1. M!PC_turn(x, arg[x])
    BY <1>1, <1>2, <1>4, TurnSeen DEF lock_resume
  <2> QED BY <1>1, <1>4, <2>1 DEF M!lock_resume
<1>5. CASE class[arg[x]] \notin {"PI", "PC"}
  <2>1. /\ Gain(x, arg[x]) /\ Return(x)
        /\ UNCHANGED <<class, levelVars, taskVars, exec_shadow, raised>>
    BY <1>5 DEF lock_resume
  <2>2. VStatus' = VStatus /\ VNopreempt' = VNopreempt
    BY <2>1, Unseen DEF taskVars
  <2>3. /\ M!Gain(x, arg[x]) /\ M!Return(x)
        /\ UNCHANGED <<class, M!levelVars, M!taskVars, exec_shadow, raised>>
    BY <2>1, <2>2 DEF Gain, M!Gain, Return, M!Return, levelVars, M!levelVars, taskVars, M!taskVars
  <2> QED BY <1>1, <1>5, <2>3 DEF M!lock_resume
<1> QED BY <1>3, <1>4, <1>5

\* A task in the queue of a NOP or NOPM mutex waits for no condition.
LEMMA QueuedSeen ==
  ASSUME CondOK, NEW m \in Mutexes, class[m] \in {"NOP", "NOPM"}, blocked[m] # <<>>
  PROVE  Head(blocked[m]) \in Tasks /\ status[Head(blocked[m])] = "NOP_WAIT"
<1> DEFINE h == Head(blocked[m])
<1>1. h \in Tasks /\ h \in Members(blocked[m])
  BY Plain, FirstLeavesProperties DEF CondOK, M!MutexOK, M!ListsOK, Distinct, M!Distinct
<1>2. M!Queued(h, m)
  BY <1>1 DEF M!Queued, M!Members, Members
<1>3. VStatus[h] = "NOP_WAIT"
  BY <1>1, <1>2 DEF CondOK, M!MutexOK, M!ListsOK, M!Handed
<1> QED BY <1>1, <1>3 DEF VStatus

\* The unlock, from the task's own code, its cleanup handlers or cond_wait.
LEMMA UnlockSeen ==
  ASSUME CondOK, NEW x \in Tasks, NEW m \in Mutexes,
         Running(x, "user"), Holds(x, m), Unlock(x, m),
         UNCHANGED <<class, exec_shadow, phase, arg, raised>>,
         \/ call' = call
         \/ /\ call[x] = "entered" /\ class[m] # "NPP"
            /\ call' = [call EXCEPT ![x] = "unlocked"]
  PROVE  M!mutex_unlock(x, m)
<1>1. TypesOK /\ class[m] \in Classes /\ owner[m] = x
  BY Plain DEF CondOK, Holds
<1>2. nopreempt' = nopreempt => VNopreempt' = VNopreempt
  BY DEF VNopreempt, CondOK, TypesOK, CondTypeOK
<1>3. status' = status => VStatus' = VStatus
  BY DEF VStatus
<1>4. /\ M!Running(x, "user") /\ M!Holds(x, m) /\ M!Lose(x, m)
  BY DEF Running, M!Running, Holds, M!Holds, Unlock, Lose, M!Lose
<1>5. ASSUME class[m] \in {"NOP", "NOPM"}, HandOff(m)
      PROVE  M!HandOff(m)
  <2>1. CASE blocked[m] = <<>>
    BY <1>3, <1>5, <2>1 DEF HandOff, M!HandOff
  <2>2. CASE blocked[m] # <<>>
    <3>1. status' = [status EXCEPT ![Head(blocked[m])] = "READY"]
      BY <1>5, <2>2 DEF HandOff
    <3>2. Head(blocked[m]) \in Tasks /\ status[Head(blocked[m])] = "NOP_WAIT"
      BY <1>5, <2>2, QueuedSeen
    <3> DEFINE h == Head(blocked[m])
    <3>3. VStatus' = [VStatus EXCEPT ![h] = "READY"]
      <4> HIDE DEF h
      <4> QED BY <1>1, <3>1, <3>2 DEF VStatus, TypesOK, h
    <3> QED BY <1>5, <2>2, <3>3 DEF HandOff, M!HandOff
  <2> QED BY <2>1, <2>2
<1>6. CASE class[m] = "NOP"
  <2>1. NOP_unlock(x, m)
    BY <1>6 DEF Unlock
  <2>2. M!NOP_unlock(x, m)
    BY <1>2, <1>5, <1>6, <2>1 DEF NOP_unlock, M!NOP_unlock
  <2> QED BY <1>4, <1>6, <2>2 DEF M!mutex_unlock, M!Unlock
<1>7. CASE class[m] = "NOPM"
  <2>1. NOPM_unlock(x, m)
    BY <1>7 DEF Unlock
  <2>2. M!NOPM_unlock(x, m)
    BY <1>2, <1>3, <1>5, <1>7, <2>1 DEF NOPM_unlock, M!NOPM_unlock
  <2> QED BY <1>4, <1>7, <2>2 DEF M!mutex_unlock, M!Unlock
<1>8. CASE class[m] = "NPP"
  <2>1. NPP_unlock(x, m) /\ call' = call
    BY <1>8 DEF Unlock
  <2>2. VNopreempt[x]
    BY <1>1, <1>8 DEF CondOK, M!MutexOK, M!NppOK
  <2>3. call[x] \in {"none", "relock"}
    BY <2>2 DEF VNopreempt
  <2>4. VNopreempt' = IF nppLocked = 1 THEN [VNopreempt EXCEPT ![x] = FALSE] ELSE VNopreempt
    <3>1. CASE nppLocked = 1
      <4>1. nopreempt' = [nopreempt EXCEPT ![x] = FALSE]
        BY <2>1, <3>1 DEF NPP_unlock
      <4>2. \A y \in Tasks : VNopreempt'[y] = [VNopreempt EXCEPT ![x] = FALSE][y]
        BY <1>1, <2>1, <2>3, <4>1 DEF TypesOK, VNopreempt
      <4> QED BY <3>1, <4>2 DEF VNopreempt
    <3>2. CASE nppLocked # 1
      BY <2>1, <3>2 DEF NPP_unlock, VNopreempt
    <3> QED BY <3>1, <3>2
  <2>5. M!NPP_unlock(x, m)
    BY <1>3, <2>1, <2>4 DEF NPP_unlock, M!NPP_unlock
  <2> QED BY <1>4, <1>8, <2>5 DEF M!mutex_unlock, M!Unlock
<1>9. ASSUME ReleaseAll(x, m) PROVE M!ReleaseAll(x, m)
  BY <1>9 DEF ReleaseAll, M!ReleaseAll, Members, M!Members
<1>10. CASE class[m] = "PI"
  <2>1. PI_unlock(x, m)
    BY <1>10 DEF Unlock
  <2>2. M!PI_unlock(x, m)
    BY <1>2, <1>3, <1>9, <2>1 DEF PI_unlock, M!PI_unlock
  <2> QED BY <1>4, <1>10, <2>2 DEF M!mutex_unlock, M!Unlock
<1>11. CASE class[m] = "PC"
  <2>1. PC_unlock(x, m)
    BY <1>11 DEF Unlock
  <2>2. M!PC_extract(m) = PC_extract(m)
    BY DEF PC_extract, M!PC_extract, Extract, M!Extract, Position, M!Position
  <2>3. M!PC_unlock(x, m)
    BY <1>2, <1>3, <1>9, <2>1, <2>2 DEF PC_unlock, M!PC_unlock
  <2> QED BY <1>4, <1>11, <2>3 DEF M!mutex_unlock, M!Unlock
<1> QED BY <1>1, <1>6, <1>7, <1>8, <1>10, <1>11 DEF Classes

LEMMA EndSeen ==
  ASSUME CondOK, NEW x \in Tasks, task_end(x), call' = call
  PROVE  M!task_end(x)
<1>1. VNopreempt' = VNopreempt
  BY DEF task_end, VNopreempt
<1>2. VStatus' = [VStatus EXCEPT ![x] = "FREE"]
  BY DEF task_end, VStatus, CondOK, TypesOK
<1> QED
  BY <1>1, <1>2 DEF task_end, M!task_end, Running, M!Running, Holds, M!Holds,
                    levelVars, M!levelVars, callVars, M!callVars

LEMMA SchedulerSeen ==
  ASSUME CondOK, NEW x \in Tasks, scheduler(x), call' = call
  PROVE  M!scheduler(x)
<1>1. VStatus' = VStatus /\ VNopreempt' = VNopreempt
  BY Unseen DEF scheduler, taskVars
<1>2. VStatus[x] = "READY"
  BY DEF scheduler, VStatus
<1>3. exec_shadow' \in M!ChainEnds(x)
  BY DEF scheduler, M!ChainEnds, M!ChainFrom, ChainEnds, ChainFrom
<1>4. exec_shadow # NIL => ~VNopreempt[exec_shadow]
  <2>1. exec_shadow \in Tasks \cup {NIL}
    BY DEF CondOK, M!MutexOK, M!MutexTypeOK
  <2> QED BY <2>1 DEF scheduler, VNopreempt
<1> QED
  BY <1>1, <1>2, <1>3, <1>4 DEF scheduler, M!scheduler, taskVars, M!taskVars,
     levelVars, M!levelVars, callVars, M!callVars

-----------------------------------------------------------------------------
(* What an operation of the task x on the mutex m leaves alone *)

OwnStep(x, m) ==
  /\ class' = class
  /\ status' \in [Tasks -> {"READY", "NOP_WAIT", "FREE", "WAIT_COND"}]
  /\ nopreempt' \in [Tasks -> BOOLEAN]
  /\ \A y \in Tasks : Blocked(y)' <=> Blocked(y)
  /\ \A y \in Tasks \ {x} :
       /\ nopreempt'[y] = nopreempt[y] /\ phase'[y] = phase[y]
       /\ arg'[y] = arg[y] /\ depth'[y] = depth[y]
  /\ \A k \in Mutexes \ {m} : depth'[x][k] = depth[x][k]
  /\ class[m] # "NPP" => nopreempt' = nopreempt
  /\ exec_shadow' \in {NIL, exec_shadow}
  /\ phase'[x] = "lock" => arg'[x] = m

\* The end of a lock of a task to which the mutex has been handed.
Granted(x, m) ==
  /\ Gain(x, m) /\ Return(x)
  /\ UNCHANGED <<class, levelVars, taskVars, exec_shadow, raised>>

LEMMA OwnLocks ==
  ASSUME CondOK, NEW x \in Tasks, NEW m \in Mutexes, exec_shadow = x
  PROVE  /\ phase[x] = "user" /\ TakeNOP(x, m) => OwnStep(x, m)
         /\ Block(x, m) => OwnStep(x, m)
         /\ phase[x] = "user" /\ class[m] = "NPP" /\ NPP_lock(x, m) => OwnStep(x, m)
         /\ TakeCounted(x, m) => OwnStep(x, m)
         /\ \A b : Inherit(x, b, m) => OwnStep(x, m)
         /\ Granted(x, m) => OwnStep(x, m)
<1>1. /\ phase \in [Tasks -> {"user", "lock"}] /\ arg \in [Tasks -> Mutexes \cup {NIL}]
      /\ depth \in [Tasks -> [Mutexes -> 0 .. MaxDepth]]
  BY Plain
<1>2. TypesOK /\ status[x] = "READY"
  BY RunsReady DEF CondOK
<1>3. \A i : depth' = [depth EXCEPT ![x][m] = i] =>
        /\ \A y \in Tasks \ {x} : depth'[y] = depth[y]
        /\ \A k \in Mutexes \ {m} : depth'[x][k] = depth[x][k]
  BY <1>1
<1>4. phase[x] = "user" /\ TakeNOP(x, m) => OwnStep(x, m)
  BY <1>2, <1>3 DEF TakeNOP, Gain, taskVars, OwnStep, TypesOK, Blocked
<1>5. Block(x, m) => OwnStep(x, m)
  BY <1>1, <1>2 DEF Block, WaitFor, OwnStep, TypesOK, Blocked
<1>6. phase[x] = "user" /\ class[m] = "NPP" /\ NPP_lock(x, m) => OwnStep(x, m)
  BY <1>2, <1>3 DEF NPP_lock, Gain, OwnStep, TypesOK, Blocked
<1>7. TakeCounted(x, m) => OwnStep(x, m)
  BY <1>1, <1>2, <1>3 DEF TakeCounted, Gain, Return, taskVars, OwnStep, TypesOK, Blocked
<1>8. \A b : Inherit(x, b, m) => OwnStep(x, m)
  BY <1>1, <1>2 DEF Inherit, WaitFor, OwnStep, TypesOK, Blocked
<1>9. Granted(x, m) => OwnStep(x, m)
  BY <1>1, <1>2, <1>3 DEF Granted, Gain, Return, taskVars, OwnStep, TypesOK, Blocked
<1> QED BY <1>4, <1>5, <1>6, <1>7, <1>8, <1>9

LEMMA LockIsOwn ==
  ASSUME CondOK, NEW x \in Tasks, NEW m \in Mutexes,
         mutex_lock(x, m) \/ mutex_trylock(x, m)
  PROVE  OwnStep(x, m)
<1>1. exec_shadow = x /\ phase[x] = "user" /\ class[m] \in Classes
  BY Plain DEF mutex_lock, mutex_trylock, Running
<1>2. CASE class[m] \in {"NOP", "NOPM"}
  <2>1. TakeNOP(x, m) \/ Block(x, m)
    BY <1>2 DEF mutex_lock, mutex_trylock, NOP_lock, NOPM_lock, NOP_trylock, NOPM_trylock
  <2> QED BY <1>1, <2>1, OwnLocks
<1>3. CASE class[m] = "NPP"
  BY <1>1, <1>3, OwnLocks DEF mutex_lock, mutex_trylock
<1>4. CASE class[m] \in {"PI", "PC"}
  <2>1. TakeCounted(x, m) \/ \E b : Inherit(x, b, m)
    BY <1>4 DEF mutex_lock, mutex_trylock, PI_lock, PC_lock, PI_trylock, PC_trylock,
                PI_turn, PC_turn
  <2> QED BY <1>1, <2>1, OwnLocks
<1> QED BY <1>1, <1>2, <1>3, <1>4 DEF Classes

LEMMA ResumeIsOwn ==
  ASSUME CondOK, NEW x \in Tasks, lock_resume(x)
  PROVE  arg[x] \in Mutexes /\ class[arg[x]] # "NPP" /\ OwnStep(x, arg[x])
<1>1. exec_shadow = x /\ phase[x] = "lock"
  BY DEF lock_resume, Running
<1>2. arg[x] \in Mutexes /\ class[arg[x]] # "NPP"
  BY <1>1 DEF CondOK, M!MutexOK, M!RequestsOK
<1>3. CASE class[arg[x]] \in {"PI", "PC"}
  <2>1. TakeCounted(x, arg[x]) \/ \E b : Inherit(x, b, arg[x])
    BY <1>3 DEF lock_resume, PI_turn, PC_turn
  <2> QED BY <1>1, <1>2, <2>1, OwnLocks
<1>4. CASE class[arg[x]] \notin {"PI", "PC"}
  <2>1. Granted(x, arg[x])
    BY <1>4 DEF lock_resume, Granted
  <2> QED BY <1>1, <1>2, <2>1, OwnLocks
<1> QED BY <1>2, <1>3, <1>4

\* The last unlock of a mutex leaves it to nobody that has locked it.
LEMMA UnlockIsOwn ==
  ASSUME CondOK, NEW x \in Tasks, NEW m \in Mutexes,
         Running(x, "user"), Holds(x, m), Unlock(x, m),
         UNCHANGED <<class, exec_shadow, phase, arg, raised>>
  PROVE  OwnStep(x, m) /\ depth'[x][m] = depth[x][m] - 1
<1>1. /\ TypesOK /\ class[m] \in Classes
      /\ depth \in [Tasks -> [Mutexes -> 0 .. MaxDepth]] /\ phase[x] = "user"
  BY Plain DEF CondOK, Running
<1>2. depth' = [depth EXCEPT ![x][m] = @ - 1]
  BY DEF Unlock, Lose
<1>3. /\ \A y \in Tasks \ {x} : depth'[y] = depth[y]
      /\ \A k \in Mutexes \ {m} : depth'[x][k] = depth[x][k]
      /\ depth'[x][m] = depth[x][m] - 1
  BY <1>1, <1>2
<1>4. /\ nopreempt' \in [Tasks -> BOOLEAN]
      /\ \A y \in Tasks \ {x} : nopreempt'[y] = nopreempt[y]
      /\ class[m] # "NPP" => nopreempt' = nopreempt
  BY <1>1 DEF Classes, Unlock, NOP_unlock, NOPM_unlock, NPP_unlock, PI_unlock, PC_unlock,
              TypesOK
<1>5. /\ status' \in [Tasks -> {"READY", "NOP_WAIT", "FREE", "WAIT_COND"}]
      /\ \A y \in Tasks : Blocked(y)' <=> Blocked(y)
  <2>1. CASE status' = status
    BY <1>1, <2>1 DEF TypesOK, Blocked
  <2>2. CASE status' # status
    <3>1. class[m] \in {"NOP", "NOPM"} /\ HandOff(m)
      BY <1>1, <2>2 DEF Classes, Unlock, NOP_unlock, NOPM_unlock, NPP_unlock, PI_unlock,
                        PC_unlock
    <3>2. blocked[m] # <<>> /\ status' = [status EXCEPT ![Head(blocked[m])] = "READY"]
      BY <2>2, <3>1 DEF HandOff
    <3>3. Head(blocked[m]) \in Tasks /\ status[Head(blocked[m])] = "NOP_WAIT"
      BY <3>1, <3>2, QueuedSeen
    <3> DEFINE h == Head(blocked[m])
    <3> HIDE DEF h
    <3> QED BY <1>1, <3>2, <3>3 DEF TypesOK, Blocked, h
  <2> QED BY <2>1, <2>2
<1> QED BY <1>1, <1>3, <1>4, <1>5 DEF OwnStep

-----------------------------------------------------------------------------
(* The mutex operations and the scheduler keep the invariant *)

LEMMA OwnStepKeeps ==
  ASSUME CondOK, M!MutexOK', NEW x \in Tasks, NEW m, exec_shadow = x,
         OwnStep(x, m), UNCHANGED condVars,
         \/ call[x] = "none"
         \/ call[x] = "dying" /\ phase'[x] = "user"
         \/ call[x] = "relock" /\ m = mutex[x] /\ depth'[x][m] <= 1
  PROVE  CondOK'
<1>1. /\ waiters' = waiters /\ used_for_waiting' = used_for_waiting
      /\ cond_waiting' = cond_waiting /\ timer' = timer /\ wake' = wake /\ use' = use
      /\ destroyed' = destroyed /\ killreq' = killreq /\ call' = call /\ cond' = cond
      /\ mutex' = mutex /\ timed' = timed /\ timedout' = timedout /\ corrupt' = corrupt
  BY DEF condVars, waitVars, argVars
<1>2. TypesOK'
  BY <1>1 DEF CondOK, TypesOK, CondTypeOK, OwnStep
<1>3. \A y \in Tasks : ~Entering(y)
  BY Plain DEF CondOK, StepsOK, Entering
<1>4. StepsOK'
  <2>1. (exec_shadow # NIL => ~Blocked(exec_shadow))'
    BY DEF CondOK, StepsOK, OwnStep
  <2>2. ASSUME NEW y \in Tasks
        PROVE  /\ ~Entering(y)'
               /\ call'[y] = "relock" => ~nopreempt'[y]
               /\ phase'[y] = "lock" => call'[y] \in {"none", "relock"}
               /\ phase'[y] = "lock" /\ call'[y] = "relock" => arg'[y] = mutex'[y]
               /\ Blocked(y)' \/ timer'[y] => call'[y] = "wait"
               /\ Inside(y)' => cond'[y] \in Conds /\ mutex'[y] \in Mutexes
    <3>1. Blocked(y)' <=> Blocked(y)
      BY DEF OwnStep
    <3>2. CASE y = x
      BY <1>1, <1>3, <3>1, <3>2 DEF CondOK, StepsOK, HoldsOK, OwnStep, Entering, Inside
    <3>3. CASE y # x
      BY <1>1, <1>3, <3>1, <3>3 DEF CondOK, StepsOK, OwnStep, Entering, Inside
    <3> QED BY <3>2, <3>3
  <2> QED BY <2>1, <2>2 DEF StepsOK
<1>5. HoldsOK'
  <2>1. \A y \in Tasks : call[y] # "unlocked"
    BY <1>3 DEF Entering
  <2>2. ASSUME NEW y \in Tasks, Inside(y)'
        PROVE  /\ class'[mutex'[y]] # "NPP" /\ depth'[y][mutex'[y]] <= 1
               /\ \A k \in Mutexes \ {mutex'[y]} : depth'[y][k] > 0 =>
                    /\ class'[k] \in {"NOP", "NOPM"}
                    /\ k < mutex'[y] /\ <<class'[k], class'[mutex'[y]]>> \in Nestable
    <3>1. Inside(y)
      BY <1>1, <2>2 DEF Inside
    <3>2. CASE y = x
      <4>1. m = mutex[x] /\ depth'[x][m] <= 1
        BY <3>1, <3>2 DEF Inside
      <4> QED BY <1>1, <3>1, <3>2, <4>1 DEF CondOK, HoldsOK, OwnStep
    <3>3. CASE y # x
      BY <1>1, <3>1, <3>3 DEF CondOK, HoldsOK, OwnStep
    <3> QED BY <3>2, <3>3
  <2>3. ASSUME NEW y \in Tasks, call'[y] = "wait" PROVE depth'[y][mutex'[y]] = 0
    BY <1>1, <2>3 DEF CondOK, HoldsOK, OwnStep
  <2> QED BY <1>1, <2>1, <2>2, <2>3 DEF HoldsOK
<1>6. QueuesOK'
  BY <1>1 DEF CondOK, QueuesOK, OwnStep, Entering
<1>7. WakeOK'
  BY <1>1 DEF CondOK, WakeOK, OwnStep
<1>8. UseOK'
  BY <1>1 DEF CondOK, UseOK, Users, Inside
<1> QED BY <1>2, <1>4, <1>5, <1>6, <1>7, <1>8 DEF CondOK

\* The end of a shadow chain does not wait for a condition: the owner of a PI or
\* PC mutex does not.
LEMMA ChainEndRuns ==
  ASSUME CondOK, NEW p \in Tasks, status[p] = "READY", NEW e \in ChainEnds(p)
  PROVE  e \in Tasks /\ ~Blocked(e)
<1>1. e \in Tasks /\ e \in ChainFrom(p)
  BY DEF ChainEnds, ChainFrom
<1>2. shadow \in [Tasks -> Tasks]
  BY DEF CondOK, M!MutexOK, M!MutexTypeOK
<1>3. CASE e = p
  BY <1>1, <1>3 DEF Blocked
<1>4. CASE e # p
  <2> DEFINE C == Tasks \ {e}
  <2>1. PICK q \in C : shadow[q] \notin C
    <3>1. SUFFICES ASSUME \A q \in C : shadow[q] \in C PROVE FALSE
      OBVIOUS
    <3>2. C \in SUBSET Tasks /\ p \in C
      BY <1>4
    <3>3. e \in C
      BY <1>1, <3>1, <3>2 DEF ChainFrom
    <3> QED BY <3>3
  <2>2. q \in Tasks /\ q # e /\ shadow[q] = e
    BY <1>2, <2>1
  <2>3. PICK m \in Mutexes : M!Queued(q, m) /\ M!Lent(m)
    BY <2>2 DEF CondOK, M!MutexOK, M!ShadowsOK
  <2>4. owner[m] = e
    BY <2>2, <2>3 DEF CondOK, M!MutexOK, M!ListsOK
  <2>5. depth[e][m] > 0 /\ class[m] \in {"PI", "PC"}
    BY <1>1, <2>3, <2>4 DEF CondOK, M!MutexOK, M!OwnersOK, M!Handed, M!Lent
  <2>6. ASSUME Blocked(e) PROVE FALSE
    <3>1. call[e] = "wait"
      BY <1>1, <2>6 DEF CondOK, StepsOK
    <3>2. depth[e][mutex[e]] = 0
      BY <1>1, <3>1 DEF CondOK, HoldsOK
    <3>3. m # mutex[e]
      BY <2>5, <3>2
    <3> QED BY <1>1, <2>5, <3>1, <3>3 DEF CondOK, HoldsOK, Inside
  <2> QED BY <1>1, <2>6
<1> QED BY <1>3, <1>4

LEMMA DispatchKeeps ==
  ASSUME M!SafeNesting, CondOK, NEW x \in Tasks, Dispatch(x)
  PROVE  CondOK'
<1>1. /\ waiters' = waiters /\ used_for_waiting' = used_for_waiting
      /\ cond_waiting' = cond_waiting /\ timer' = timer /\ wake' = wake /\ use' = use
      /\ destroyed' = destroyed /\ killreq' = killreq /\ call' = call /\ cond' = cond
      /\ mutex' = mutex /\ timed' = timed /\ timedout' = timedout /\ corrupt' = corrupt
  BY DEF Dispatch, condVars, waitVars, argVars
<1>2. scheduler(x)
  BY DEF Dispatch
<1>3. M!MutexOK'
  BY <1>1, <1>2, SchedulerSeen, Assumed, M!SchedulerKeeps DEF CondOK
<1>4. /\ class' = class /\ status' = status /\ nopreempt' = nopreempt
      /\ phase' = phase /\ arg' = arg /\ depth' = depth
  BY <1>2 DEF scheduler, taskVars, callVars
<1>5. exec_shadow' \in Tasks /\ ~Blocked(exec_shadow')
  BY <1>2, ChainEndRuns DEF scheduler
<1>6. \A y \in Tasks : ~Entering(y)
  BY <1>2, Plain DEF CondOK, StepsOK, scheduler
<1>7. TypesOK' /\ WakeOK' /\ QueuesOK'
  BY <1>1, <1>4 DEF CondOK, TypesOK, CondTypeOK, WakeOK, QueuesOK, Blocked, Entering
<1>8. StepsOK'
  BY <1>1, <1>4, <1>5, <1>6 DEF CondOK, StepsOK, Blocked, Entering, Inside
<1>9. HoldsOK' /\ UseOK'
  BY <1>1, <1>4 DEF CondOK, HoldsOK, UseOK, Users, Inside
<1> QED BY <1>3, <1>7, <1>8, <1>9 DEF CondOK

LEMMA MutexCallKeeps ==
  ASSUME M!SafeNesting, CondOK, NEW x \in Tasks, MutexCall(x)
  PROVE  CondOK'
<1>1. UNCHANGED condVars /\ call' = call /\ OwnCode(x)
  BY DEF MutexCall, condVars
<1>2. ASSUME NEW m \in Mutexes, At(x, "none"), mutex_lock(x, m) \/ mutex_trylock(x, m)
      PROVE  CondOK'
  <2>1. call[x] = "none" /\ exec_shadow = x
    BY <1>2 DEF At, Running
  <2>2. M!MutexOK'
    BY <1>1, <1>2, <2>1, LockSeen, TrylockSeen, Assumed, M!LockKeeps, M!TrylockKeeps DEF CondOK
  <2> QED BY <1>1, <1>2, <2>1, <2>2, LockIsOwn, OwnStepKeeps
<1>3. ASSUME NEW m \in Mutexes, At(x, "none") \/ At(x, "dying"), mutex_unlock(x, m)
      PROVE  CondOK'
  <2>1. call[x] \in {"none", "dying"} /\ exec_shadow = x /\ phase[x] = "user"
    BY <1>3 DEF At, Running
  <2>2. M!MutexOK'
    BY <1>1, <1>3, UnlockSeen, Assumed, M!UnlockKeeps DEF CondOK, mutex_unlock
  <2>3. OwnStep(x, m) /\ phase'[x] = "user"
    BY <1>3, <2>1, UnlockIsOwn DEF mutex_unlock
  <2> QED BY <1>1, <2>1, <2>2, <2>3, OwnStepKeeps
<1>4. ASSUME lock_resume(x) PROVE CondOK'
  <2>1. exec_shadow = x /\ phase[x] = "lock"
    BY <1>4 DEF lock_resume, Running
  <2>2. call[x] = "none" \/ (call[x] = "relock" /\ arg[x] = mutex[x])
    BY <2>1 DEF CondOK, StepsOK
  <2>3. M!MutexOK'
    BY <1>1, <1>4, ResumeSeen, Assumed, M!LockResumeKeeps DEF CondOK
  <2>4. arg[x] \in Mutexes /\ OwnStep(x, arg[x])
    BY <1>4, ResumeIsOwn
  <2>5. depth'[x][arg[x]] <= 1
    <3>1. depth[x][arg[x]] = 0
      BY <2>1 DEF CondOK, M!MutexOK, M!RequestsOK
    <3>2. depth \in [Tasks -> [Mutexes -> 0 .. MaxDepth]]
      BY Plain
    <3>3. depth' = depth \/ depth' = [depth EXCEPT ![x][arg[x]] = @ + 1]
      BY <1>4 DEF lock_resume, PI_turn, PC_turn, TakeCounted, Inherit, Gain, WaitFor
    <3> QED BY <2>4, <3>1, <3>2, <3>3
  <2> QED BY <1>1, <2>1, <2>2, <2>3, <2>4, <2>5, OwnStepKeeps
<1>5. ASSUME At(x, "none") \/ At(x, "dying"), task_end(x) PROVE CondOK'
  <2>1. /\ call[x] \in {"none", "dying"} /\ exec_shadow = x /\ phase[x] = "user"
        /\ status[x] = "READY"
    BY <1>5, RunsReady DEF At, Running
  <2>2. M!MutexOK'
    BY <1>1, <1>5, EndSeen, Assumed, M!TaskEndKeeps DEF CondOK
  <2>3. phase'[x] = "user" /\ OwnStep(x, NIL)
    BY <1>5, <2>1 DEF task_end, OwnStep, CondOK, TypesOK, Blocked, callVars
  <2> QED BY <1>1, <2>1, <2>2, <2>3, OwnStepKeeps
<1> QED BY <1>1, <1>2, <1>3, <1>4, <1>5 DEF OwnCode

-----------------------------------------------------------------------------
(* Waking a waiter *)

\* The mutexes do not see what changes neither their variables nor, to them, the
\* state of a task.
LEMMA MutexesRest ==
  ASSUME M!SafeNesting, CondOK,
         UNCHANGED <<class, levelVars, shadow, exec_shadow, callVars, raised>>,
         VStatus' = VStatus, VNopreempt' = VNopreempt
  PROVE  M!MutexOK'
<1>1. UNCHANGED M!mutexVars
  BY DEF M!mutexVars, M!levelVars, M!taskVars, M!callVars, levelVars, callVars
<1>2. [M!MutexStep]_(M!mutexVars)
  BY <1>1
<1> QED BY <1>2, Assumed, M!MutexOKIsInductive DEF CondOK

LEMMA LastOut ==
  ASSUME NEW S, NEW q \in Seq(S), NEW x \in Members(q), Extract(x, q) = <<>>
  PROVE  q = <<x>>
<1>1. Len(q) \in Nat /\ DOMAIN q = 1 .. Len(q)
  OBVIOUS
<1>2. DOMAIN Extract(x, q) = 1 .. Len(q) - 1
  BY DEF Extract
<1>3. 1 .. Len(q) - 1 = {}
  BY <1>2
<1>4. 1 \notin 1 .. Len(q) - 1
  BY <1>3
<1>5. Len(q) <= 1
  BY <1>1, <1>4
<1>6. PICK i \in DOMAIN q : q[i] = x
  BY DEF Members
<1>7. Len(q) = 1 /\ q[1] = x
  BY <1>1, <1>5, <1>6
<1> QED BY <1>7

\* A waiter leaves the queue; the mutex of the condition is forgotten only with
\* the last one.
LEMMA WithdrawEffect ==
  ASSUME CondOK, NEW x \in Tasks, Blocked(x), Withdraw(x)
  PROVE  /\ waiters' \in [Conds -> Seq(Tasks)]
         /\ used_for_waiting' \in [Conds -> Mutexes \cup {NIL}]
         /\ cond_waiting' \in [Tasks -> Conds \cup {NIL}] /\ cond_waiting'[x] = NIL
         /\ \A y \in Tasks \ {x} : cond_waiting'[y] = cond_waiting[y]
         /\ status' \in [Tasks -> {"READY", "NOP_WAIT", "FREE", "WAIT_COND"}]
         /\ VStatus' = VStatus
         /\ \A y \in Tasks : Blocked(y)' <=> Blocked(y) /\ y # x
         /\ \A c \in Conds :
              /\ Distinct(waiters'[c])
              /\ Members(waiters'[c]) = Members(waiters[c]) \ {x}
              /\ \/ used_for_waiting'[c] = used_for_waiting[c]
                 \/ c = cond[x] /\ waiters[c] = <<x>>
<1> DEFINE c == cond[x]
           q == Extract(x, waiters[c])
<1>1. /\ waiters \in [Conds -> Seq(Tasks)]
      /\ used_for_waiting \in [Conds -> Mutexes \cup {NIL}]
      /\ cond_waiting \in [Tasks -> Conds \cup {NIL}]
      /\ status \in [Tasks -> {"READY", "NOP_WAIT", "FREE", "WAIT_COND"}]
  BY DEF CondOK, TypesOK, CondTypeOK
<1>2. c \in Conds /\ cond_waiting[x] = c /\ x \in Members(waiters[c])
      /\ \A d \in Conds \ {c} : x \notin Members(waiters[d])
  BY DEF CondOK, StepsOK, QueuesOK, Inside
<1>3. Distinct(waiters[c])
  BY <1>2 DEF CondOK, QueuesOK
<1>4. q \in Seq(Tasks) /\ Distinct(q) /\ Members(q) = Members(waiters[c]) \ {x}
  BY <1>1, <1>2, <1>3, ExtractProperties
<1>5. q = <<>> => waiters[c] = <<x>>
  BY <1>1, <1>2, LastOut
<1>6. /\ waiters' = [waiters EXCEPT ![c] = q]
      /\ used_for_waiting' = [used_for_waiting EXCEPT ![c] =
                                IF q = <<>> THEN NIL ELSE used_for_waiting[c]]
      /\ cond_waiting' = [cond_waiting EXCEPT ![x] = NIL]
      /\ status' = [status EXCEPT ![x] = "READY"]
  BY <1>2 DEF Withdraw, Ready
<1> HIDE DEF q, c
<1>7. VStatus' = VStatus /\ \A y \in Tasks : Blocked(y)' <=> Blocked(y) /\ y # x
  BY <1>1, <1>6 DEF VStatus, Blocked
<1>8. /\ waiters' \in [Conds -> Seq(Tasks)]
      /\ used_for_waiting' \in [Conds -> Mutexes \cup {NIL}]
      /\ cond_waiting' \in [Tasks -> Conds \cup {NIL}] /\ cond_waiting'[x] = NIL
      /\ \A y \in Tasks \ {x} : cond_waiting'[y] = cond_waiting[y]
      /\ status' \in [Tasks -> {"READY", "NOP_WAIT", "FREE", "WAIT_COND"}]
  BY <1>1, <1>4, <1>6
<1>9. ASSUME NEW d \in Conds
      PROVE  /\ Distinct(waiters'[d])
             /\ Members(waiters'[d]) = Members(waiters[d]) \ {x}
             /\ \/ used_for_waiting'[d] = used_for_waiting[d]
                \/ d = c /\ waiters[d] = <<x>>
  <2>1. CASE d = c
    BY <1>1, <1>2, <1>4, <1>5, <1>6, <2>1
  <2>2. CASE d # c
    <3>1. waiters'[d] = waiters[d] /\ used_for_waiting'[d] = used_for_waiting[d]
      BY <1>1, <1>6, <2>2
    <3>2. x \notin Members(waiters[d])
      BY <1>2, <2>2
    <3> QED BY <3>1, <3>2 DEF CondOK, QueuesOK
  <2> QED BY <2>1, <2>2
<1> QED BY <1>7, <1>8, <1>9 DEF c

\* What both the timer and the cancellation test need of it.
LEMMA WithdrawKeeps ==
  ASSUME M!SafeNesting, CondOK, NEW x \in Tasks, Blocked(x), Withdraw(x),
         NEW by \in {"timeout", "kill"}, Woken(x, by),
         UNCHANGED <<class, levelVars, shadow, nopreempt, exec_shadow, callVars,
                     raised, use, destroyed, call, argVars, corrupt>>,
         timer' \in [Tasks -> BOOLEAN], \A y \in Tasks : timer'[y] => timer[y],
         killreq' \in [Tasks -> BOOLEAN], \A y \in Tasks : killreq[y] => killreq'[y],
         by = "kill" => killreq'[x],
         \A y \in Tasks : Entering(y) /\ cond[y] = cond[x] => waiters[cond[x]] # <<x>>
  PROVE  CondOK'
<1>1. /\ class' = class /\ nopreempt' = nopreempt /\ exec_shadow' = exec_shadow
      /\ phase' = phase /\ arg' = arg /\ depth' = depth /\ use' = use
      /\ destroyed' = destroyed /\ call' = call /\ cond' = cond /\ mutex' = mutex
      /\ timed' = timed /\ timedout' = timedout /\ corrupt' = corrupt
  BY DEF callVars, argVars
<1>2. M!MutexOK'
  BY <1>1, WithdrawEffect, MutexesRest DEF VNopreempt
<1>3. /\ wake' \in [Tasks -> {"none", "signal", "timeout", "kill"}] /\ wake'[x] = by
      /\ \A y \in Tasks \ {x} : wake'[y] = wake[y]
  BY DEF Woken, CondOK, TypesOK, CondTypeOK
<1>4. \A y \in Tasks : Blocked(y)' <=> Blocked(y) /\ y # x
  BY WithdrawEffect
<1>5. TypesOK'
  BY <1>1, <1>3, WithdrawEffect DEF CondOK, TypesOK, CondTypeOK
<1>6. StepsOK'
  <2>1. exec_shadow # NIL => ~Blocked(exec_shadow)'
    <3>1. exec_shadow \in Tasks \cup {NIL}
      BY DEF CondOK, M!MutexOK, M!MutexTypeOK
    <3> QED BY <1>4, <3>1 DEF CondOK, StepsOK
  <2> QED BY <1>1, <1>4, <2>1 DEF CondOK, StepsOK, Entering, Inside
<1>7. HoldsOK' /\ UseOK'
  <2>1. HoldsOK'
    BY <1>1 DEF CondOK, HoldsOK, Inside
  <2>2. \A m \in Mutexes : Users(m)' = Users(m)
    BY <1>1 DEF Users, Inside
  <2>3. UseOK'
    BY <1>1, <2>2 DEF CondOK, UseOK, Inside
  <2> QED BY <2>1, <2>3
<1>8. QueuesOK'
  <2>1. \A c \in Conds : Distinct(waiters'[c])
    BY WithdrawEffect
  <2>2. \A y \in Tasks, c \in Conds :
          y \in Members(waiters'[c]) <=> Blocked(y)' /\ cond'[y] = c
    <3>1. \A c \in Conds : Members(waiters'[c]) = Members(waiters[c]) \ {x}
      BY WithdrawEffect
    <3>2. \A y \in Tasks, c \in Conds :
            y \in Members(waiters[c]) <=> Blocked(y) /\ cond[y] = c
      BY DEF CondOK, QueuesOK
    <3> QED BY <1>1, <1>4, <3>1, <3>2
  <2>3. \A y \in Tasks : Blocked(y)' => cond_waiting'[y] = cond'[y]
    BY <1>1, <1>4, WithdrawEffect DEF CondOK, QueuesOK
  <2>4. ASSUME NEW y \in Tasks, Blocked(y)' \/ Entering(y)'
        PROVE  used_for_waiting'[cond'[y]] = mutex'[y]
    <3>1. /\ (Blocked(y) \/ Entering(y)) /\ used_for_waiting[cond[y]] = mutex[y]
          /\ cond[y] \in Conds
      BY <1>1, <1>4, <2>4 DEF CondOK, StepsOK, QueuesOK, Entering, Inside
    <3>2. ASSUME cond[y] = cond[x], waiters[cond[x]] = <<x>> PROVE FALSE
      <4>1. Blocked(y) /\ y # x
        BY <1>1, <1>4, <2>4, <3>2 DEF Entering
      <4>2. y \in Members(<<x>>)
        BY <3>1, <3>2, <4>1 DEF CondOK, QueuesOK
      <4>3. Members(<<x>>) = {x}
        BY DEF Members
      <4> QED BY <4>1, <4>2, <4>3
    <3>3. used_for_waiting'[cond[y]] = used_for_waiting[cond[y]]
      BY <3>1, <3>2, WithdrawEffect
    <3> QED BY <1>1, <2>4, <3>1, <3>3 DEF CondOK, QueuesOK
  <2> QED BY <2>1, <2>2, <2>3, <2>4 DEF QueuesOK
<1>9. WakeOK'
  <2>1. call[x] = "wait" /\ cond_waiting'[x] = NIL
    BY WithdrawEffect DEF CondOK, StepsOK
  <2>2. ASSUME NEW y \in Tasks
        PROVE  /\ timer'[y] => timed'[y]
               /\ Blocked(y)' => wake'[y] = "none"
               /\ call'[y] = "wait" /\ ~Blocked(y)' =>
                    (cond_waiting'[y] = NIL <=> wake'[y] \in {"timeout", "kill"})
               /\ call'[y] = "relock" =>
                    (timedout'[y] <=> timed'[y] /\ wake'[y] \in {"timeout", "kill"})
               /\ call'[y] \in {"wait", "relock"} /\ wake'[y] = "kill" => killreq'[y]
    <3>1. CASE y = x
      BY <1>1, <1>3, <1>4, <2>1, <3>1 DEF CondOK, WakeOK
    <3>2. CASE y # x
      BY <1>1, <1>3, <1>4, <3>2, WithdrawEffect DEF CondOK, WakeOK
    <3> QED BY <3>1, <3>2
  <2> QED BY <2>2 DEF WakeOK
<1> QED BY <1>2, <1>5, <1>6, <1>7, <1>8, <1>9 DEF CondOK

LEMMA TimerKeeps ==
  ASSUME M!SafeNesting, ~LateTimers, ~EntryResets, CondOK, NEW x \in Tasks,
         condition_timer(x)
  PROVE  CondOK'
<1>1. /\ Blocked(x) /\ ~ResetsEntry(x) /\ Withdraw(x) /\ Woken(x, "timeout")
      /\ UNCHANGED <<class, levelVars, shadow, nopreempt, exec_shadow, callVars,
                     raised, use, destroyed, call, argVars, corrupt>>
      /\ timer' = [timer EXCEPT ![x] = FALSE] /\ killreq' = killreq
  BY DEF condition_timer, Blocked
<1>2. timer \in [Tasks -> BOOLEAN] /\ killreq \in [Tasks -> BOOLEAN]
  BY DEF CondOK, TypesOK, CondTypeOK
<1>3. \A y \in Tasks : Entering(y) /\ cond[y] = cond[x] => waiters[cond[x]] # <<x>>
  BY <1>1 DEF ResetsEntry, Entering, Blocked
<1> QED BY <1>1, <1>2, <1>3, WithdrawKeeps

LEMMA KillKeeps ==
  ASSUME M!SafeNesting, CondOK, NEW k \in Tasks, NEW x \in Tasks, task_kill(k, x)
  PROVE  CondOK'
<1>1. /\ exec_shadow = k /\ call[k] = "none"
      /\ killreq' = [killreq EXCEPT ![x] = TRUE] /\ timer' = timer
      /\ UNCHANGED <<class, levelVars, shadow, nopreempt, exec_shadow, callVars,
                     raised, use, destroyed, call, argVars, corrupt>>
  BY DEF task_kill, At, Running
<1>2. timer \in [Tasks -> BOOLEAN] /\ killreq \in [Tasks -> BOOLEAN]
  BY DEF CondOK, TypesOK, CondTypeOK
<1>3. /\ killreq' \in [Tasks -> BOOLEAN] /\ killreq'[x]
      /\ \A y \in Tasks : killreq[y] => killreq'[y]
  BY <1>1, <1>2
<1>4. \A y \in Tasks : ~Entering(y)
  BY <1>1 DEF CondOK, StepsOK, Entering
<1>5. CASE Blocked(x)
  <2>1. Withdraw(x) /\ Woken(x, "kill")
    BY <1>5 DEF task_kill, Blocked
  <2> QED BY <1>1, <1>2, <1>3, <1>4, <1>5, <2>1, WithdrawKeeps
<1>6. CASE ~Blocked(x)
  <2>1. UNCHANGED <<waiters, used_for_waiting, cond_waiting, status, wake>>
    BY <1>6 DEF task_kill, Blocked
  <2>2. M!MutexOK'
    BY <1>1, <2>1, MutexesRest DEF VStatus, VNopreempt
  <2>3. TypesOK' /\ StepsOK' /\ HoldsOK' /\ QueuesOK' /\ UseOK'
    BY <1>1, <1>3, <2>1 DEF CondOK, TypesOK, CondTypeOK, StepsOK, HoldsOK, QueuesOK, UseOK,
       Users, Blocked, Entering, Inside, callVars, argVars
  <2>4. WakeOK'
    BY <1>1, <1>3, <2>1 DEF CondOK, WakeOK, Blocked, argVars
  <2> QED BY <2>2, <2>3, <2>4 DEF CondOK
<1> QED BY <1>5, <1>6

\* cond_signal and cond_broadcast: the first k tasks leave the queue.
LEMMA WakeFirstKeeps ==
  ASSUME M!SafeNesting, CondOK, NEW x \in Tasks, At(x, "none"),
         NEW c \in Conds, NEW k \in 0 .. Len(waiters[c]), WakeFirst(c, k)
  PROVE  CondOK'
<1> DEFINE woken == {waiters[c][i] : i \in 1 .. k}
           q == DropFirst(k, waiters[c])
<1>1. /\ waiters' = [waiters EXCEPT ![c] = q]
      /\ status' = [y \in Tasks |-> IF y \in woken THEN "READY" ELSE status[y]]
      /\ wake' = [y \in Tasks |-> IF y \in woken THEN "signal" ELSE wake[y]]
      /\ UNCHANGED <<class, levelVars, shadow, nopreempt, exec_shadow, callVars,
                     raised, used_for_waiting, cond_waiting, timer, use,
                     destroyed, killreq, call, argVars, corrupt>>
  BY DEF WakeFirst
<1>2. /\ waiters \in [Conds -> Seq(Tasks)] /\ Distinct(waiters[c])
      /\ wake \in [Tasks -> {"none", "signal", "timeout", "kill"}]
      /\ status \in [Tasks -> {"READY", "NOP_WAIT", "FREE", "WAIT_COND"}]
  BY DEF CondOK, TypesOK, CondTypeOK, QueuesOK
<1>3. q \in Seq(Tasks) /\ Distinct(q) /\ Members(q) = Members(waiters[c]) \ woken
  <2> DEFINE w == waiters[c]
  <2>1. w \in Seq(Tasks) /\ Distinct(w) /\ k \in 0 .. Len(w)
    BY <1>2
  <2> HIDE DEF w
  <2>2. /\ DropFirst(k, w) \in Seq(Tasks) /\ Distinct(DropFirst(k, w))
        /\ Members(DropFirst(k, w)) = Members(w) \ {w[i] : i \in 1 .. k}
    BY <2>1, DropFirstProperties
  <2> QED BY <2>2 DEF w
<1>4. woken \subseteq Members(waiters[c])
  BY <1>2 DEF Members
<1>5. \A y \in Tasks, d \in Conds : y \in Members(waiters[d]) <=> Blocked(y) /\ cond[y] = d
  BY DEF CondOK, QueuesOK
<1>6. \A y \in woken : y \in Tasks => Blocked(y) /\ cond[y] = c /\ call[y] = "wait"
  BY <1>4, <1>5 DEF CondOK, StepsOK
<1>7. exec_shadow = x /\ \A y \in Tasks : ~Entering(y)
  BY DEF CondOK, StepsOK, Entering, At, Running
<1> HIDE DEF q, woken
<1>8. \A y \in Tasks : Blocked(y)' <=> Blocked(y) /\ y \notin woken
  BY <1>1 DEF Blocked
<1>9. VStatus' = VStatus /\ VNopreempt' = VNopreempt
  BY <1>1, <1>2, <1>6 DEF VStatus, VNopreempt, Blocked
<1>10. M!MutexOK'
  BY <1>1, <1>9, MutexesRest
<1>11. TypesOK'
  BY <1>1, <1>2, <1>3 DEF CondOK, TypesOK, CondTypeOK, argVars
<1>12. StepsOK'
  <2>1. exec_shadow' = x /\ ~Blocked(x)'
    BY <1>1, <1>7, <1>8, RunsReady DEF Blocked
  <2> QED BY <1>1, <1>7, <1>8, <2>1 DEF CondOK, StepsOK, Entering, Inside, callVars, argVars
<1>13. HoldsOK' /\ UseOK'
  BY <1>1 DEF CondOK, HoldsOK, UseOK, Users, Inside, callVars, argVars
<1>14. QueuesOK'
  <2>1. \A d \in Conds : waiters'[d] = IF d = c THEN q ELSE waiters[d]
    BY <1>1, <1>2
  <2>2. \A d \in Conds : Distinct(waiters'[d])
    BY <1>3, <2>1 DEF CondOK, QueuesOK
  <2>3. ASSUME NEW y \in Tasks, NEW d \in Conds
        PROVE  y \in Members(waiters'[d]) <=> Blocked(y)' /\ cond'[y] = d
    <3>1. CASE d = c
      BY <1>1, <1>3, <1>5, <1>8, <2>1, <3>1 DEF argVars
    <3>2. CASE d # c
      BY <1>1, <1>5, <1>6, <1>8, <2>1, <3>2 DEF argVars
    <3> QED BY <3>1, <3>2
  <2>4. \A y \in Tasks :
          /\ Blocked(y)' => cond_waiting'[y] = cond'[y]
          /\ Blocked(y)' \/ Entering(y)' => used_for_waiting'[cond'[y]] = mutex'[y]
    BY <1>1, <1>7, <1>8 DEF CondOK, QueuesOK, Entering, argVars
  <2> QED BY <2>2, <2>3, <2>4 DEF QueuesOK
<1>15. WakeOK'
  <2>1. \A y \in Tasks : wake'[y] = IF y \in woken THEN "signal" ELSE wake[y]
    BY <1>1
  <2>2. \A y \in Tasks : y \in woken => cond_waiting[y] # NIL
    BY <1>6, CondAssumption DEF CondOK, QueuesOK, StepsOK, Inside, CondAssumption
  <2> QED BY <1>1, <1>6, <1>8, <2>1, <2>2 DEF CondOK, WakeOK, argVars
<1> QED BY <1>10, <1>11, <1>12, <1>13, <1>14, <1>15 DEF CondOK

LEMMA SignalKeeps ==
  ASSUME M!SafeNesting, CondOK, NEW x \in Tasks, NEW c \in Conds,
         cond_signal(x, c) \/ cond_broadcast(x, c)
  PROVE  CondOK'
<1>1. waiters[c] \in Seq(Tasks) /\ waiters[c] # <<>> /\ At(x, "none")
  BY DEF CondOK, TypesOK, CondTypeOK, cond_signal, cond_broadcast
<1>2. 1 \in 0 .. Len(waiters[c]) /\ Len(waiters[c]) \in 0 .. Len(waiters[c])
  BY <1>1
<1> QED BY <1>1, <1>2, WakeFirstKeeps DEF cond_signal, cond_broadcast

-----------------------------------------------------------------------------
(* cond_wait *)

\* The use counts follow a task that goes in or out with its mutex.
LEMMA UsersChange ==
  ASSUME CondOK, NEW x \in Tasks, NEW m \in Mutexes, use' = [use EXCEPT ![m] = use'[m]],
         \/ /\ ~Inside(x) /\ use'[m] = use[m] + 1
            /\ Users(m)' = Users(m) \cup {x}
         \/ /\ Inside(x) /\ mutex[x] = m /\ use'[m] = use[m] - 1
            /\ Users(m)' = Users(m) \ {x},
         \A k \in Mutexes \ {m} : Users(k)' = Users(k)
  PROVE  /\ use' \in [Mutexes -> Nat]
         /\ \A k \in Mutexes : use'[k] = Cardinality(Users(k)')
<1>1. use \in [Mutexes -> Nat] /\ \A k \in Mutexes : use[k] = Cardinality(Users(k))
  BY DEF CondOK, TypesOK, CondTypeOK, UseOK
<1>2. \A k : IsFiniteSet(Users(k)) /\ Users(k) \subseteq Tasks
  <2>1. \A k : Users(k) \subseteq Tasks
    BY DEF Users
  <2> QED BY <2>1, CondAssumption, FS_Subset DEF CondAssumption
<1>3. \A k \in Mutexes \ {m} : use'[k] = use[k]
  BY <1>1
<1>4. use'[m] \in Nat /\ use'[m] = Cardinality(Users(m)')
  <2>1. CASE ~Inside(x)
    <3>1. x \notin Users(m) /\ Users(m)' = Users(m) \cup {x} /\ use'[m] = use[m] + 1
      BY <2>1 DEF Users
    <3>2. Cardinality(Users(m) \cup {x}) = Cardinality(Users(m)) + 1
      BY <1>2, <3>1, FS_AddElement
    <3> QED BY <1>1, <3>1, <3>2
  <2>2. CASE Inside(x)
    <3>1. x \in Users(m) /\ Users(m)' = Users(m) \ {x} /\ use'[m] = use[m] - 1
      BY <2>2 DEF Users
    <3>2. Cardinality(Users(m) \ {x}) = Cardinality(Users(m)) - 1
      BY <1>2, <3>1, FS_RemoveElement
    <3>3. Cardinality(Users(m) \ {x}) \in Nat
      BY <1>2, FS_RemoveElement, FS_CardinalityType
    <3> QED BY <1>1, <3>1, <3>2, <3>3
  <2> QED BY <2>1, <2>2
<1>5. \A k \in Mutexes : use'[k] = Cardinality(Users(k)') /\ use'[k] \in Nat
  BY <1>1, <1>3, <1>4
<1>6. use' \in [Mutexes -> Nat]
  BY <1>1, <1>5
<1> QED BY <1>5, <1>6

\* A caller of cond_wait has no NPP mutex.
LEMMA CallerPreemptive ==
  ASSUME CondOK, NEW x \in Tasks, NEW m \in Mutexes, MayWait(x, m)
  PROVE  ~VNopreempt[x]
<1>1. SUFFICES ASSUME VNopreempt[x] PROVE FALSE
  OBVIOUS
<1>2. PICK k \in Mutexes : class[k] = "NPP" /\ owner[k] = x
  BY <1>1 DEF CondOK, M!MutexOK, M!NppOK
<1>3. depth[x][k] > 0
  BY <1>2 DEF CondOK, M!MutexOK, M!OwnersOK, M!Handed
<1> QED BY <1>2, <1>3 DEF MayWait, Holds

LEMMA WaitKeeps ==
  ASSUME M!SafeNesting, CondOK, NEW x \in Tasks, NEW c \in Conds, NEW m \in Mutexes,
         NEW t \in BOOLEAN, cond_wait(x, c, m, t)
  PROVE  CondOK'
<1>1. /\ exec_shadow = x /\ call[x] = "none" /\ phase[x] = "user"
      /\ MayWait(x, m) /\ ~destroyed[m]
      /\ UNCHANGED <<class, levelVars, shadow, status, exec_shadow, callVars, raised,
                     waiters, cond_waiting, timer, wake, destroyed, killreq, corrupt>>
  BY DEF cond_wait, At, Running
<1>2. /\ call \in [Tasks -> {"none", "entered", "unlocked", "wait", "relock", "dying"}]
      /\ nopreempt \in [Tasks -> BOOLEAN]
      /\ cond \in [Tasks -> Conds \cup {NIL}]
      /\ mutex \in [Tasks -> Mutexes \cup {NIL}]
      /\ timed \in [Tasks -> BOOLEAN]
      /\ timedout \in [Tasks -> BOOLEAN]
      /\ used_for_waiting \in [Conds -> Mutexes \cup {NIL}]
  BY DEF CondOK, TypesOK, CondTypeOK
<1>3. nopreempt' = [nopreempt EXCEPT ![x] = TRUE]
  BY DEF cond_wait, Enter
<1>4. ~VNopreempt[x] /\ ~Blocked(x) /\ ~timer[x]
  BY <1>1, CallerPreemptive DEF CondOK, StepsOK
<1>5. ASSUME NEW s \in {"entered", "dying"}, call' = [call EXCEPT ![x] = s] PROVE M!MutexOK'
  <2>1. VStatus' = VStatus
    BY <1>1 DEF VStatus
  <2>2. \A y \in Tasks : VNopreempt'[y] = VNopreempt[y]
    <3>1. \A y \in Tasks \ {x} : VNopreempt'[y] = VNopreempt[y]
      BY <1>2, <1>3, <1>5 DEF VNopreempt
    <3>2. VNopreempt'[x] = VNopreempt[x]
      BY <1>2, <1>4, <1>5 DEF VNopreempt
    <3> QED BY <3>1, <3>2
  <2>3. VNopreempt' = VNopreempt
    BY <2>2 DEF VNopreempt
  <2> QED BY <1>1, <2>1, <2>3, MutexesRest
<1>6. \A y \in Tasks : ~Entering(y)
  BY <1>1 DEF CondOK, StepsOK, Entering
<1>7. CASE killreq[x]
  <2>1. /\ call' = [call EXCEPT ![x] = "dying"]
        /\ UNCHANGED <<used_for_waiting, use, argVars>>
    BY <1>7 DEF cond_wait, GoTo
  <2>2. \A y \in Tasks : /\ y # x => call'[y] = call[y] /\ nopreempt'[y] = nopreempt[y]
                         /\ y = x => call'[y] = "dying"
    BY <1>2, <1>3, <2>1
  <2>3. TypesOK'
    BY <1>1, <1>2, <1>3, <2>1 DEF CondOK, TypesOK, CondTypeOK, argVars
  <2>4. StepsOK'
    BY <1>1, <1>4, <1>6, <2>1, <2>2 DEF CondOK, StepsOK, Blocked, Entering, Inside, callVars, argVars
  <2>5. HoldsOK'
    BY <1>1, <1>6, <2>1, <2>2 DEF CondOK, HoldsOK, Inside, Entering, callVars, argVars
  <2>6. QueuesOK' /\ WakeOK'
    BY <1>1, <1>4, <1>6, <2>1, <2>2 DEF CondOK, QueuesOK, WakeOK, Blocked, Entering, argVars
  <2>7. UseOK'
    <3>1. \A y \in Tasks : Inside(y)' <=> Inside(y)
      BY <1>1, <2>2 DEF Inside
    <3>2. \A k : Users(k)' = Users(k)
      BY <2>1, <3>1 DEF Users, argVars
    <3> QED BY <1>1, <2>1, <3>1, <3>2 DEF CondOK, UseOK, argVars
  <2> QED BY <1>5, <2>1, <2>3, <2>4, <2>5, <2>6, <2>7 DEF CondOK
<1>8. CASE ~killreq[x]
  <2>1. /\ SameUser(c, m) /\ call' = [call EXCEPT ![x] = "entered"]
        /\ used_for_waiting' = [used_for_waiting EXCEPT ![c] = m]
        /\ use' = [use EXCEPT ![m] = @ + 1]
        /\ cond' = [cond EXCEPT ![x] = c]
        /\ mutex' = [mutex EXCEPT ![x] = m]
        /\ timed' = [timed EXCEPT ![x] = t]
        /\ timedout' = [timedout EXCEPT ![x] = FALSE]
    BY <1>8 DEF cond_wait, GoTo, Enter
  <2>2. \A y \in Tasks :
          /\ y # x => /\ call'[y] = call[y] /\ nopreempt'[y] = nopreempt[y]
                      /\ cond'[y] = cond[y] /\ mutex'[y] = mutex[y]
                      /\ timed'[y] = timed[y] /\ timedout'[y] = timedout[y]
          /\ y = x => /\ call'[y] = "entered" /\ nopreempt'[y] /\ cond'[y] = c
                      /\ mutex'[y] = m
    BY <1>2, <1>3, <2>1
  <2>3. UseOK' /\ use' \in [Mutexes -> Nat]
    <3>1. ~Inside(x) /\ \A y \in Tasks : Inside(y)' <=> Inside(y) \/ y = x
      BY <1>1, <2>2 DEF Inside
    <3>2. Users(m)' = Users(m) \cup {x} /\ \A k \in Mutexes \ {m} : Users(k)' = Users(k)
      BY <2>2, <3>1 DEF Users
    <3>3. use' = [use EXCEPT ![m] = use'[m]] /\ use'[m] = use[m] + 1
      BY <2>1 DEF CondOK, TypesOK, CondTypeOK
    <3>4. use' \in [Mutexes -> Nat] /\ \A k \in Mutexes : use'[k] = Cardinality(Users(k)')
      BY <3>1, <3>2, <3>3, UsersChange
    <3>5. \A y \in Tasks : Inside(y)' => ~destroyed'[mutex'[y]]
      BY <1>1, <2>2, <3>1 DEF CondOK, UseOK
    <3> QED BY <3>4, <3>5 DEF UseOK
  <2>4. TypesOK'
    BY <1>1, <1>2, <1>3, <2>1, <2>3 DEF CondOK, TypesOK, CondTypeOK
  <2>5. StepsOK'
    BY <1>1, <1>4, <1>6, <2>2 DEF CondOK, StepsOK, Blocked, Entering, Inside, callVars
  <2>6. HoldsOK'
    <3>1. class' = class /\ depth' = depth
      BY <1>1 DEF callVars
    <3>2. /\ class[m] # "NPP" /\ depth[x][m] <= 1
          /\ \A k \in Mutexes \ {m} : depth[x][k] > 0 =>
               /\ class[k] \in {"NOP", "NOPM"}
               /\ k < m /\ <<class[k], class[m]>> \in Nestable
      BY <1>1 DEF MayWait, Holds
    <3>3. \A y \in Tasks : call'[y] # "unlocked"
      BY <1>6, <2>2 DEF Entering
    <3> QED BY <2>2, <3>1, <3>2, <3>3 DEF CondOK, HoldsOK, Inside
  <2>7. QueuesOK'
    <3>1. \A d \in Conds : Distinct(waiters'[d])
      BY <1>1 DEF CondOK, QueuesOK
    <3>2. \A y \in Tasks, d \in Conds :
            y \in Members(waiters'[d]) <=> Blocked(y)' /\ cond'[y] = d
      BY <1>1, <1>4, <2>2 DEF CondOK, QueuesOK, Blocked
    <3>3. \A y \in Tasks : Blocked(y)' => cond_waiting'[y] = cond'[y]
      BY <1>1, <1>4, <2>2 DEF CondOK, QueuesOK, Blocked
    <3>4. ASSUME NEW y \in Tasks, Blocked(y)' \/ Entering(y)'
          PROVE  used_for_waiting'[cond'[y]] = mutex'[y]
      <4>1. \A d \in Conds : used_for_waiting'[d] = IF d = c THEN m ELSE used_for_waiting[d]
        BY <1>2, <2>1
      <4>2. CASE y = x
        BY <2>2, <4>1, <4>2
      <4>3. CASE y # x
        <5>1. Blocked(y) /\ cond[y] \in Conds /\ mutex[y] \in Mutexes
          BY <1>1, <1>6, <2>2, <3>4, <4>3 DEF CondOK, StepsOK, Blocked, Entering, Inside
        <5>2. used_for_waiting[cond[y]] = mutex[y] /\ mutex[y] # NIL
          BY <5>1, Plain DEF CondOK, QueuesOK
        <5> QED BY <2>1, <2>2, <4>1, <4>3, <5>1, <5>2 DEF SameUser
      <4> QED BY <4>2, <4>3
    <3> QED BY <3>1, <3>2, <3>3, <3>4 DEF QueuesOK
  <2>8. WakeOK'
    BY <1>1, <1>4, <2>2 DEF CondOK, WakeOK, Blocked
  <2> QED BY <1>5, <2>1, <2>3, <2>4, <2>5, <2>6, <2>7, <2>8 DEF CondOK
<1> QED BY <1>7, <1>8

\* mutex_unlock inside cond_wait: afterwards nobody has the mutex.
LEMMA EntryUnlockKeeps ==
  ASSUME M!SafeNesting, CondOK, NEW x \in Tasks, cond_unlock(x)
  PROVE  CondOK'
<1> DEFINE m == mutex[x]
<1>1. /\ At(x, "entered") /\ Holds(x, m) /\ Unlock(x, m)
      /\ call' = [call EXCEPT ![x] = "unlocked"]
      /\ UNCHANGED <<class, exec_shadow, phase, arg, raised, waitVars, use,
                     destroyed, killreq, argVars, corrupt>>
  BY DEF cond_unlock, GoTo
<1>2. /\ Running(x, "user") /\ exec_shadow = x /\ call[x] = "entered" /\ phase[x] = "user"
  BY <1>1 DEF At, Running
<1>3. m \in Mutexes /\ class[m] # "NPP" /\ depth[x][m] <= 1 /\ cond[x] \in Conds
  BY <1>2 DEF CondOK, StepsOK, HoldsOK, Inside
<1>4. /\ waiters' = waiters /\ used_for_waiting' = used_for_waiting
      /\ cond_waiting' = cond_waiting /\ timer' = timer /\ wake' = wake /\ use' = use
      /\ destroyed' = destroyed /\ killreq' = killreq /\ cond' = cond
      /\ mutex' = mutex /\ timed' = timed /\ timedout' = timedout /\ corrupt' = corrupt
      /\ class' = class /\ exec_shadow' = exec_shadow /\ phase' = phase /\ arg' = arg
  BY <1>1 DEF waitVars, argVars
<1>5. M!MutexOK'
  BY <1>1, <1>2, <1>3, UnlockSeen, Assumed, M!UnlockKeeps DEF CondOK
<1>6. OwnStep(x, m) /\ depth'[x][m] = depth[x][m] - 1
  BY <1>1, <1>2, <1>3, UnlockIsOwn
<1>7. /\ nopreempt' = nopreempt /\ nopreempt[x] /\ \A y \in Tasks : Blocked(y)' <=> Blocked(y)
      /\ \A y \in Tasks \ {x} : ~Entering(y)
  BY <1>2, <1>3, <1>6 DEF OwnStep, CondOK, StepsOK, Entering
<1>8. \A y \in Tasks : call'[y] = IF y = x THEN "unlocked" ELSE call[y]
  BY <1>1 DEF CondOK, TypesOK, CondTypeOK
<1>9. TypesOK'
  <2>1. call' \in [Tasks -> {"none", "entered", "unlocked", "wait", "relock", "dying"}]
    BY <1>1 DEF CondOK, TypesOK, CondTypeOK
  <2>2. CondTypeOK' /\ ~corrupt'
    BY <1>4, <2>1 DEF CondOK, TypesOK, CondTypeOK
  <2> QED BY <1>6, <2>2 DEF TypesOK, OwnStep
<1>10. \A y \in Tasks : /\ Entering(y)' <=> Entering(y)
                        /\ Inside(y)' <=> Inside(y)
  BY <1>2, <1>8 DEF Entering, Inside
<1>11. StepsOK'
  <2>1. (exec_shadow # NIL => ~Blocked(exec_shadow))'
    BY <1>2, <1>4, <1>7 DEF CondOK, StepsOK
  <2> QED BY <1>2, <1>4, <1>7, <1>8, <1>10, <2>1 DEF CondOK, StepsOK
<1>12. \A y \in Tasks : depth'[y][m] = 0
  <2>1. depth'[x][m] = 0
    BY <1>1, <1>3, <1>6, Plain DEF Holds
  <2>2. \A y \in Tasks \ {x} : depth[y][m] = 0
    <3>1. owner[m] = x
      BY <1>1, <1>3, Plain DEF Holds
    <3> QED BY <1>3, <3>1, Plain
  <2> QED BY <2>1, <2>2, <1>6 DEF OwnStep
<1>13. HoldsOK'
  <2>1. ASSUME NEW y \in Tasks, Inside(y)'
        PROVE  /\ class'[mutex'[y]] # "NPP" /\ depth'[y][mutex'[y]] <= 1
               /\ \A k \in Mutexes \ {mutex'[y]} : depth'[y][k] > 0 =>
                    /\ class'[k] \in {"NOP", "NOPM"}
                    /\ k < mutex'[y] /\ <<class'[k], class'[mutex'[y]]>> \in Nestable
    <3>1. Inside(y)
      BY <1>10, <2>1
    <3>2. CASE y = x
      BY <1>3, <1>4, <1>6, <1>12, <3>1, <3>2 DEF CondOK, HoldsOK, OwnStep
    <3>3. CASE y # x
      BY <1>4, <1>6, <3>1, <3>3 DEF CondOK, HoldsOK, OwnStep
    <3> QED BY <3>2, <3>3
  <2>2. \A y \in Tasks : call'[y] = "wait" => depth'[y][mutex'[y]] = 0
    BY <1>4, <1>6, <1>8 DEF CondOK, HoldsOK, OwnStep
  <2>3. \A y \in Tasks : call'[y] = "unlocked" => y = x
    BY <1>7, <1>8 DEF Entering
  <2> QED BY <1>4, <1>12, <2>1, <2>2, <2>3 DEF HoldsOK
<1>14. QueuesOK'
  BY <1>4, <1>7, <1>10 DEF CondOK, QueuesOK
<1>15. WakeOK'
  BY <1>2, <1>4, <1>7, <1>8 DEF CondOK, WakeOK
<1>16. UseOK'
  BY <1>4, <1>10 DEF CondOK, UseOK, Users
<1> QED BY <1>5, <1>9, <1>11, <1>13, <1>14, <1>15, <1>16 DEF CondOK

\* A task goes out of cond_wait, with its mutex or because it never had it.
LEMMA LeavingKeeps ==
  ASSUME M!SafeNesting, CondOK, NEW x \in Tasks, NEW m \in Mutexes, m = mutex[x],
         exec_shadow = x, phase[x] = "user", Inside(x), call[x] \in {"entered", "relock"},
         NEW s \in {"none", "dying"}, call' = [call EXCEPT ![x] = s],
         use' = [use EXCEPT ![m] = @ - 1],
         nopreempt' = [nopreempt EXCEPT ![x] = FALSE],
         UNCHANGED <<class, levelVars, shadow, status, exec_shadow, callVars, raised,
                     waiters, used_for_waiting, cond_waiting, timer, destroyed, killreq,
                     corrupt>>,
         wake' = wake \/ wake' = [wake EXCEPT ![x] = "none"],
         cond' \in [Tasks -> Conds \cup {NIL}],
         mutex' \in [Tasks -> Mutexes \cup {NIL}],
         timed' \in [Tasks -> BOOLEAN], timedout' \in [Tasks -> BOOLEAN],
         \A y \in Tasks \ {x} : /\ cond'[y] = cond[y] /\ mutex'[y] = mutex[y]
                                /\ timed'[y] = timed[y] /\ timedout'[y] = timedout[y]
  PROVE  CondOK'
<1>1. cond[x] \in Conds /\ ~Blocked(x) /\ ~timer[x]
  BY DEF CondOK, StepsOK
<1>2. /\ call \in [Tasks -> {"none", "entered", "unlocked", "wait", "relock", "dying"}]
      /\ nopreempt \in [Tasks -> BOOLEAN] /\ use \in [Mutexes -> Nat]
      /\ wake \in [Tasks -> {"none", "signal", "timeout", "kill"}]
  BY DEF CondOK, TypesOK, CondTypeOK
<1>3. \A y \in Tasks : /\ call'[y] = IF y = x THEN s ELSE call[y]
                       /\ nopreempt'[y] = IF y = x THEN FALSE ELSE nopreempt[y]
                       /\ y # x => wake'[y] = wake[y]
  BY <1>2
<1>4. M!MutexOK'
  <2>1. VStatus' = VStatus
    BY DEF VStatus
  <2>2. \A y \in Tasks : VNopreempt'[y] = VNopreempt[y]
    <3>1. ~VNopreempt[x]
      BY DEF VNopreempt, CondOK, StepsOK
    <3>2. VNopreempt'[x] = FALSE /\ VNopreempt[x] = FALSE
      BY <1>2, <1>3, <3>1 DEF VNopreempt
    <3>3. \A y \in Tasks \ {x} : VNopreempt'[y] = VNopreempt[y]
      BY <1>3 DEF VNopreempt
    <3> QED BY <3>2, <3>3
  <2>3. VNopreempt' = VNopreempt
    BY <2>2 DEF VNopreempt
  <2> QED BY <2>1, <2>3, MutexesRest
<1>5. \A y \in Tasks : /\ Inside(y)' <=> Inside(y) /\ y # x
                       /\ ~Entering(y)'
                       /\ Entering(y) => y = x
                       /\ Blocked(y)' <=> Blocked(y)
  <2>1. status' = status
    OBVIOUS
  <2>2. \A y \in Tasks : Entering(y) => y = x
    BY DEF CondOK, StepsOK
  <2>3. \A y \in Tasks : (Inside(y)' <=> Inside(y) /\ y # x) /\ ~Entering(y)'
    BY <1>3, <2>2 DEF Inside, Entering
  <2> QED BY <2>1, <2>2, <2>3 DEF Blocked
<1>6. use' \in [Mutexes -> Nat] /\ UseOK'
  <2>1. Users(m)' = Users(m) \ {x} /\ \A k \in Mutexes \ {m} : Users(k)' = Users(k)
    BY <1>5 DEF Users
  <2>2. use' = [use EXCEPT ![m] = use'[m]] /\ use'[m] = use[m] - 1
    BY <1>1, <1>2
  <2>3. use' \in [Mutexes -> Nat] /\ \A k \in Mutexes : use'[k] = Cardinality(Users(k)')
    BY <1>1, <2>1, <2>2, UsersChange
  <2>4. \A y \in Tasks : Inside(y)' => ~destroyed'[mutex'[y]]
    BY <1>5 DEF CondOK, UseOK
  <2> QED BY <2>3, <2>4 DEF UseOK
<1>7. TypesOK'
  BY <1>2, <1>6 DEF CondOK, TypesOK, CondTypeOK
<1>8. StepsOK'
  <2>1. (exec_shadow # NIL => ~Blocked(exec_shadow))'
    BY <1>1, <1>5
  <2> QED BY <1>1, <1>3, <1>5, <2>1 DEF CondOK, StepsOK, callVars
<1>9. HoldsOK'
  <2>1. \A y \in Tasks : call'[y] # "unlocked"
    BY <1>5 DEF Entering
  <2>2. class' = class /\ depth' = depth
    BY DEF callVars
  <2>3. \A y \in Tasks : Inside(y)' => Inside(y) /\ mutex'[y] = mutex[y]
    BY <1>5
  <2>4. \A y \in Tasks : call'[y] = "wait" => call[y] = "wait" /\ mutex'[y] = mutex[y]
    BY <1>3
  <2>5. ASSUME NEW y \in Tasks, Inside(y)'
        PROVE  /\ class'[mutex'[y]] # "NPP" /\ depth'[y][mutex'[y]] <= 1
               /\ \A k \in Mutexes \ {mutex'[y]} : depth'[y][k] > 0 =>
                    /\ class'[k] \in {"NOP", "NOPM"}
                    /\ k < mutex'[y] /\ <<class'[k], class'[mutex'[y]]>> \in Nestable
    <3>1. Inside(y) /\ mutex'[y] = mutex[y]
      BY <2>3, <2>5
    <3> QED BY <2>2, <3>1 DEF CondOK, HoldsOK
  <2>6. ASSUME NEW y \in Tasks, call'[y] = "wait" PROVE depth'[y][mutex'[y]] = 0
    <3>1. call[y] = "wait" /\ mutex'[y] = mutex[y]
      BY <2>4, <2>6
    <3> QED BY <2>2, <3>1 DEF CondOK, HoldsOK
  <2> QED BY <2>1, <2>5, <2>6 DEF HoldsOK
<1>10. QueuesOK'
  BY <1>1, <1>5 DEF CondOK, QueuesOK
<1>11. WakeOK'
  <2>1. \A y \in Tasks : call'[y] \in {"wait", "relock"} => y # x
    BY <1>3
  <2>2. \A y \in Tasks : Blocked(y) \/ timer[y] => y # x
    BY <1>1
  <2>3. ASSUME NEW y \in Tasks
        PROVE  /\ timer'[y] => timed'[y]
               /\ Blocked(y)' => wake'[y] = "none"
               /\ call'[y] = "wait" /\ ~Blocked(y)' =>
                    (cond_waiting'[y] = NIL <=> wake'[y] \in {"timeout", "kill"})
               /\ call'[y] = "relock" =>
                    (timedout'[y] <=> timed'[y] /\ wake'[y] \in {"timeout", "kill"})
               /\ call'[y] \in {"wait", "relock"} /\ wake'[y] = "kill" => killreq'[y]
    <3>1. CASE y = x
      BY <1>5, <2>1, <2>2, <3>1
    <3>2. CASE y # x
      <4>1. /\ timed'[y] = timed[y] /\ timedout'[y] = timedout[y] /\ wake'[y] = wake[y]
            /\ call'[y] = call[y] /\ (Blocked(y)' <=> Blocked(y))
        BY <1>3, <1>5, <3>2
      <4> QED BY <4>1 DEF CondOK, WakeOK
    <3> QED BY <3>1, <3>2
  <2> QED BY <2>3 DEF WakeOK
<1> QED BY <1>4, <1>6, <1>7, <1>8, <1>9, <1>10, <1>11 DEF CondOK

LEMMA UnlockFailedKeeps ==
  ASSUME M!SafeNesting, CondOK, NEW x \in Tasks, cond_unlock_failed(x)
  PROVE  CondOK'
<1>1. exec_shadow = x /\ phase[x] = "user" /\ call[x] = "entered" /\ Inside(x)
  BY DEF cond_unlock_failed, At, Running, Inside
<1>2. /\ cond \in [Tasks -> Conds \cup {NIL}]
      /\ mutex \in [Tasks -> Mutexes \cup {NIL}]
      /\ timed \in [Tasks -> BOOLEAN] /\ timedout \in [Tasks -> BOOLEAN]
  BY DEF CondOK, TypesOK, CondTypeOK
<1>3. mutex[x] \in Mutexes
  BY <1>1 DEF CondOK, StepsOK
<1> QED BY <1>1, <1>2, <1>3, LeavingKeeps DEF cond_unlock_failed, GoTo, waitVars, argVars

LEMMA ReturnKeeps ==
  ASSUME M!SafeNesting, CondOK, NEW x \in Tasks, cond_return(x)
  PROVE  CondOK'
<1>1. exec_shadow = x /\ phase[x] = "user" /\ call[x] = "relock" /\ Inside(x)
  BY DEF cond_return, At, Running, Inside
<1>2. /\ cond \in [Tasks -> Conds \cup {NIL}]
      /\ mutex \in [Tasks -> Mutexes \cup {NIL}]
      /\ timed \in [Tasks -> BOOLEAN] /\ timedout \in [Tasks -> BOOLEAN]
  BY DEF CondOK, TypesOK, CondTypeOK
<1>3. nopreempt' = [nopreempt EXCEPT ![x] = FALSE]
  <2>1. nopreempt[x] = FALSE /\ nopreempt' = nopreempt
    BY <1>1 DEF CondOK, TypesOK, StepsOK, cond_return, mutexVars, taskVars
  <2> QED BY <2>1 DEF CondOK, TypesOK
<1>4. /\ use' = [use EXCEPT ![mutex[x]] = @ - 1]
      /\ wake' = [wake EXCEPT ![x] = "none"]
      /\ UNCHANGED <<class, levelVars, shadow, status, exec_shadow, callVars, raised,
                     waiters, used_for_waiting, cond_waiting, timer, destroyed, killreq,
                     corrupt>>
  BY DEF cond_return, mutexVars, taskVars
<1>5. \E s \in {"none", "dying"} : call' = [call EXCEPT ![x] = s]
  BY DEF cond_return, GoTo
<1>6. /\ cond' \in [Tasks -> Conds \cup {NIL}]
      /\ mutex' \in [Tasks -> Mutexes \cup {NIL}]
      /\ timed' \in [Tasks -> BOOLEAN] /\ timedout' \in [Tasks -> BOOLEAN]
      /\ \A y \in Tasks \ {x} : /\ cond'[y] = cond[y] /\ mutex'[y] = mutex[y]
                                /\ timed'[y] = timed[y] /\ timedout'[y] = timedout[y]
  BY <1>2 DEF cond_return, argVars
<1>7. mutex[x] \in Mutexes
  BY <1>1 DEF CondOK, StepsOK
<1> QED BY <1>1, <1>3, <1>4, <1>5, <1>6, <1>7, LeavingKeeps

\* The task gives the processor away; the mutexes see nothing else.
LEMMA BlockKeeps ==
  ASSUME CondOK, NEW x \in Tasks, cond_block(x)
  PROVE  CondOK'
<1> DEFINE c == cond[x]
           q == InsertLast(x, waiters[c])
<1>1. exec_shadow = x /\ phase[x] = "user" /\ call[x] = "unlocked" /\ status[x] = "READY"
  BY RunsReady DEF cond_block, At, Running
<1>2. /\ status' = [status EXCEPT ![x] = "WAIT_COND"]
      /\ waiters' = [waiters EXCEPT ![c] = q]
      /\ cond_waiting' = [cond_waiting EXCEPT ![x] = c]
      /\ timer' = [timer EXCEPT ![x] = timed[x]]
      /\ wake' = [wake EXCEPT ![x] = "none"]
      /\ exec_shadow' = NIL
      /\ call' = [call EXCEPT ![x] = "wait"]
      /\ class' = class /\ owner' = owner /\ counter' = counter /\ blocked' = blocked
      /\ nlocked' = nlocked /\ nppLocked' = nppLocked /\ mlist' = mlist
      /\ shadow' = shadow /\ nopreempt' = nopreempt
      /\ phase' = phase /\ arg' = arg /\ depth' = depth /\ raised' = raised
      /\ used_for_waiting' = used_for_waiting /\ use' = use /\ destroyed' = destroyed
      /\ killreq' = killreq /\ cond' = cond /\ mutex' = mutex /\ timed' = timed
      /\ timedout' = timedout /\ corrupt' = corrupt
  BY DEF cond_block, GoTo, levelVars, callVars, argVars
<1>3. c \in Conds /\ ~Blocked(x) /\ used_for_waiting[c] = mutex[x]
  BY <1>1 DEF CondOK, StepsOK, QueuesOK, Blocked, Entering, Inside
<1>4. /\ waiters \in [Conds -> Seq(Tasks)]
      /\ cond_waiting \in [Tasks -> Conds \cup {NIL}]
      /\ timer \in [Tasks -> BOOLEAN] /\ timed \in [Tasks -> BOOLEAN]
      /\ wake \in [Tasks -> {"none", "signal", "timeout", "kill"}]
      /\ call \in [Tasks -> {"none", "entered", "unlocked", "wait", "relock", "dying"}]
      /\ status \in [Tasks -> {"READY", "NOP_WAIT", "FREE", "WAIT_COND"}]
  BY DEF CondOK, TypesOK, CondTypeOK
<1>5. q \in Seq(Tasks) /\ Distinct(q) /\ Members(q) = Members(waiters[c]) \cup {x}
  <2>1. waiters[c] \in Seq(Tasks) /\ Distinct(waiters[c]) /\ x \notin Members(waiters[c])
    BY <1>3, <1>4 DEF CondOK, QueuesOK
  <2> QED BY <2>1, InsertLastProperties
<1> HIDE DEF q
<1>6. \A y \in Tasks :
        /\ Blocked(y)' <=> Blocked(y) \/ y = x
        /\ call'[y] = IF y = x THEN "wait" ELSE call[y]
        /\ cond_waiting'[y] = IF y = x THEN c ELSE cond_waiting[y]
        /\ timer'[y] = IF y = x THEN timed[x] ELSE timer[y]
        /\ wake'[y] = IF y = x THEN "none" ELSE wake[y]
  BY <1>2, <1>4 DEF Blocked
<1>7. M!MutexOK'
  <2>1. VStatus' = VStatus
    BY <1>1, <1>2, <1>4 DEF VStatus
  <2>2. VNopreempt' = VNopreempt
    BY <1>1, <1>2, <1>6 DEF VNopreempt
  <2>3. \A y \in Tasks : ~VNopreempt[y]
    <3>1. ~VNopreempt[x]
      BY <1>1 DEF VNopreempt
    <3> QED BY <1>1, <3>1 DEF CondOK, M!MutexOK, M!NppOK
  <2>4. M!MutexTypeOK' /\ M!ExecOK' /\ M!NppOK'
    BY <1>2, <2>1, <2>2, <2>3 DEF CondOK, M!MutexOK, M!MutexTypeOK, M!ExecOK, M!NppOK
  <2>5. /\ ~raised' /\ M!OwnersOK' /\ M!CountsOK' /\ M!RequestsOK' /\ M!NestingOK'
        /\ M!ListsOK' /\ M!ShadowsOK'
    BY <1>2, <2>1 DEF CondOK, M!MutexOK, M!OwnersOK, M!CountsOK, M!RequestsOK, M!NestingOK,
       M!ListsOK, M!ShadowsOK, M!Queued, M!Waits, M!Handed, M!Lent
  <2>6. M!BooksOK' /\ M!ListOK' /\ M!CeilingsOK'
    BY <1>2 DEF CondOK, M!MutexOK, M!BooksOK, M!ListOK, M!CeilingsOK, M!Busy, M!Own
  <2> QED BY <2>4, <2>5, <2>6 DEF M!MutexOK
<1>8. TypesOK'
  BY <1>2, <1>3, <1>4, <1>5 DEF CondOK, TypesOK, CondTypeOK
<1>9. \A y \in Tasks : /\ Inside(y)' <=> Inside(y)
                       /\ ~Entering(y)' /\ (Entering(y) => y = x)
  BY <1>1, <1>6 DEF CondOK, StepsOK, Inside, Entering
<1>10. StepsOK'
  <2>1. (exec_shadow # NIL => ~Blocked(exec_shadow))'
    BY <1>2
  <2> QED BY <1>1, <1>2, <1>6, <1>9, <2>1 DEF CondOK, StepsOK
<1>11. HoldsOK'
  <2>1. \A y \in Tasks : call'[y] # "unlocked"
    BY <1>9 DEF Entering
  <2>2. depth[x][mutex[x]] = 0
    BY <1>1 DEF CondOK, HoldsOK
  <2> QED BY <1>2, <1>6, <1>9, <2>1, <2>2 DEF CondOK, HoldsOK
<1>12. QueuesOK'
  <2>1. \A d \in Conds : waiters'[d] = IF d = c THEN q ELSE waiters[d]
    BY <1>2, <1>4
  <2>2. \A d \in Conds : Distinct(waiters'[d])
    BY <1>5, <2>1 DEF CondOK, QueuesOK
  <2>3. ASSUME NEW y \in Tasks, NEW d \in Conds
        PROVE  y \in Members(waiters'[d]) <=> Blocked(y)' /\ cond'[y] = d
    <3>1. y \in Members(waiters[d]) <=> Blocked(y) /\ cond[y] = d
      BY DEF CondOK, QueuesOK
    <3>2. CASE d = c
      BY <1>2, <1>5, <1>6, <2>1, <3>1, <3>2
    <3>3. CASE d # c
      BY <1>2, <1>6, <2>1, <3>1, <3>3
    <3> QED BY <3>2, <3>3
  <2>4. \A y \in Tasks :
          /\ Blocked(y)' => cond_waiting'[y] = cond'[y]
          /\ Blocked(y)' \/ Entering(y)' => used_for_waiting'[cond'[y]] = mutex'[y]
    BY <1>2, <1>3, <1>6, <1>9 DEF CondOK, QueuesOK
  <2> QED BY <2>2, <2>3, <2>4 DEF QueuesOK
<1>13. WakeOK'
  BY <1>1, <1>2, <1>6 DEF CondOK, WakeOK
<1>14. UseOK'
  BY <1>2, <1>9 DEF CondOK, UseOK, Users
<1> QED BY <1>7, <1>8, <1>10, <1>11, <1>12, <1>13, <1>14 DEF CondOK

\* The task that waited runs again and looks at cond_waiting.
LEMMA CondResumeKeeps ==
  ASSUME M!SafeNesting, CondOK, NEW x \in Tasks, cond_resume(x)
  PROVE  CondOK'
<1> DEFINE c == cond[x]
<1>1. /\ exec_shadow = x /\ phase[x] = "user" /\ call[x] = "wait" /\ ~Blocked(x)
      /\ Inside(x)
  BY DEF cond_resume, At, Running, Blocked, Inside
<1>2. /\ timer' = [timer EXCEPT ![x] = FALSE]
      /\ timedout' = [timedout EXCEPT ![x] = timed[x] /\ cond_waiting[x] = NIL]
      /\ cond_waiting' = [cond_waiting EXCEPT ![x] = NIL]
      /\ used_for_waiting' = [used_for_waiting EXCEPT ![c] =
           IF cond_waiting[x] # NIL /\ waiters[c] = <<>> THEN NIL ELSE @]
      /\ nopreempt' = [nopreempt EXCEPT ![x] = FALSE]
      /\ call' = [call EXCEPT ![x] = "relock"]
      /\ UNCHANGED <<class, levelVars, shadow, status, exec_shadow, callVars, raised>>
      /\ waiters' = waiters /\ wake' = wake /\ use' = use /\ destroyed' = destroyed
      /\ killreq' = killreq /\ cond' = cond /\ mutex' = mutex /\ timed' = timed
      /\ corrupt' = corrupt
  BY DEF cond_resume, GoTo, AfterWait, TimedOut
<1>3. c \in Conds
  BY <1>1 DEF CondOK, StepsOK
<1>4. /\ waiters \in [Conds -> Seq(Tasks)]
      /\ used_for_waiting \in [Conds -> Mutexes \cup {NIL}]
      /\ cond_waiting \in [Tasks -> Conds \cup {NIL}]
      /\ timer \in [Tasks -> BOOLEAN] /\ timed \in [Tasks -> BOOLEAN]
      /\ timedout \in [Tasks -> BOOLEAN] /\ nopreempt \in [Tasks -> BOOLEAN]
      /\ call \in [Tasks -> {"none", "entered", "unlocked", "wait", "relock", "dying"}]
  BY DEF CondOK, TypesOK, CondTypeOK
<1>5. \A y \in Tasks :
        /\ call'[y] = IF y = x THEN "relock" ELSE call[y]
        /\ nopreempt'[y] = IF y = x THEN FALSE ELSE nopreempt[y]
        /\ cond_waiting'[y] = IF y = x THEN NIL ELSE cond_waiting[y]
        /\ timer'[y] = IF y = x THEN FALSE ELSE timer[y]
        /\ timedout'[y] = IF y = x THEN timed[x] /\ cond_waiting[x] = NIL ELSE timedout[y]
        /\ Blocked(y)' <=> Blocked(y)
        /\ Inside(y)' <=> Inside(y)
        /\ ~Entering(y) /\ ~Entering(y)'
  <2>1. \A y \in Tasks : call'[y] = IF y = x THEN "relock" ELSE call[y]
    BY <1>2, <1>4
  <2>2. \A y \in Tasks : ~Entering(y) /\ ~Entering(y)' /\ (Inside(y)' <=> Inside(y))
    BY <1>1, <2>1 DEF CondOK, StepsOK, Entering, Inside
  <2> QED BY <1>2, <1>4, <2>1, <2>2 DEF Blocked
<1>6. /\ class' = class /\ exec_shadow' = exec_shadow /\ phase' = phase /\ arg' = arg
      /\ depth' = depth /\ status' = status
  BY <1>2 DEF callVars
<1>7. M!MutexOK'
  <2>1. VStatus' = VStatus
    BY <1>6 DEF VStatus
  <2>2. \A y \in Tasks : VNopreempt'[y] = VNopreempt[y]
    <3>1. VNopreempt[x] = FALSE /\ VNopreempt'[x] = FALSE
      BY <1>1, <1>5 DEF VNopreempt
    <3>2. \A y \in Tasks \ {x} : VNopreempt'[y] = VNopreempt[y]
      BY <1>5 DEF VNopreempt
    <3> QED BY <3>1, <3>2
  <2>3. VNopreempt' = VNopreempt
    BY <2>2 DEF VNopreempt
  <2> QED BY <1>2, <2>1, <2>3, MutexesRest
<1>8. TypesOK'
  BY <1>2, <1>4, <1>6 DEF CondOK, TypesOK, CondTypeOK
<1>9. StepsOK'
  <2>1. (exec_shadow # NIL => ~Blocked(exec_shadow))'
    BY <1>1, <1>5, <1>6
  <2>2. ASSUME NEW y \in Tasks
        PROVE  /\ ~Entering(y)'
               /\ call'[y] = "relock" => ~nopreempt'[y]
               /\ phase'[y] = "lock" => call'[y] \in {"none", "relock"}
               /\ phase'[y] = "lock" /\ call'[y] = "relock" => arg'[y] = mutex'[y]
               /\ Blocked(y)' \/ timer'[y] => call'[y] = "wait"
               /\ Inside(y)' => cond'[y] \in Conds /\ mutex'[y] \in Mutexes
    <3>1. /\ call[y] = "relock" => ~nopreempt[y]
          /\ phase[y] = "lock" => call[y] \in {"none", "relock"}
          /\ phase[y] = "lock" /\ call[y] = "relock" => arg[y] = mutex[y]
          /\ Blocked(y) \/ timer[y] => call[y] = "wait"
          /\ Inside(y) => cond[y] \in Conds /\ mutex[y] \in Mutexes
      BY DEF CondOK, StepsOK
    <3>2. CASE y = x
      BY <1>1, <1>2, <1>5, <1>6, <3>1, <3>2
    <3>3. CASE y # x
      BY <1>2, <1>5, <1>6, <3>1, <3>3
    <3> QED BY <3>2, <3>3
  <2> QED BY <2>1, <2>2 DEF StepsOK
<1>10. HoldsOK'
  <2>1. \A y \in Tasks : call'[y] # "unlocked" /\ (call'[y] = "wait" => call[y] = "wait")
    BY <1>5 DEF Entering
  <2>2. /\ class' = class /\ depth' = depth /\ mutex' = mutex
        /\ \A y \in Tasks : Inside(y)' => Inside(y)
    BY <1>2, <1>5, <1>6
  <2> QED BY <2>1, <2>2 DEF CondOK, HoldsOK
<1>11. QueuesOK'
  <2>1. ASSUME NEW y \in Tasks, Blocked(y)
        PROVE  used_for_waiting'[cond[y]] = used_for_waiting[cond[y]] /\ y # x
    <3>1. cond[y] \in Conds /\ y # x
      BY <1>1, <2>1 DEF CondOK, StepsOK, Inside
    <3>2. y \in Members(waiters[cond[y]])
      BY <2>1, <3>1 DEF CondOK, QueuesOK
    <3>3. waiters[cond[y]] # <<>>
      BY <3>2 DEF Members
    <3> QED BY <1>2, <1>4, <3>1, <3>3
  <2> QED BY <1>2, <1>5, <2>1 DEF CondOK, QueuesOK
<1>12. WakeOK'
  <2> SUFFICES ASSUME NEW y \in Tasks
      PROVE  /\ timer'[y] => timed'[y]
             /\ Blocked(y)' => wake'[y] = "none"
             /\ call'[y] = "wait" /\ ~Blocked(y)' =>
                  (cond_waiting'[y] = NIL <=> wake'[y] \in {"timeout", "kill"})
             /\ call'[y] = "relock" =>
                  (timedout'[y] <=> timed'[y] /\ wake'[y] \in {"timeout", "kill"})
             /\ call'[y] \in {"wait", "relock"} /\ wake'[y] = "kill" => killreq'[y]
    BY DEF WakeOK
  <2>1. /\ timer[y] => timed[y]
        /\ Blocked(y) => wake[y] = "none"
        /\ call[y] = "wait" /\ ~Blocked(y) =>
             (cond_waiting[y] = NIL <=> wake[y] \in {"timeout", "kill"})
        /\ call[y] = "relock" =>
             (timedout[y] <=> timed[y] /\ wake[y] \in {"timeout", "kill"})
        /\ call[y] \in {"wait", "relock"} /\ wake[y] = "kill" => killreq[y]
    BY DEF CondOK, WakeOK
  <2>2. wake' = wake /\ timed' = timed /\ killreq' = killreq
    BY <1>2
  <2>3. CASE y = x
    BY <1>1, <1>5, <2>1, <2>2, <2>3
  <2>4. CASE y # x
    BY <1>5, <2>1, <2>2, <2>4
  <2> QED BY <2>3, <2>4
<1>13. UseOK'
  BY <1>2, <1>5 DEF CondOK, UseOK, Users
<1> QED BY <1>7, <1>8, <1>9, <1>10, <1>11, <1>12, <1>13 DEF CondOK

\* The lock at the end of cond_wait is one that its caller may ask for.
LEMMA RelockKeeps ==
  ASSUME M!SafeNesting, CondOK, NEW x \in Tasks, cond_relock(x)
  PROVE  CondOK'
<1> DEFINE m == mutex[x]
<1>1. /\ Running(x, "user") /\ exec_shadow = x /\ call[x] = "relock" /\ ~Holds(x, m)
      /\ UNCHANGED condVars /\ call' = call
  BY DEF cond_relock, At, Running, condVars
<1>2. m \in Mutexes /\ depth[x][m] = 0
  <2>1. m \in Mutexes
    BY <1>1 DEF CondOK, StepsOK, Inside
  <2> QED BY <1>1, <2>1, Plain DEF Holds
<1>3. MayLock(x, m)
  BY <1>1, <1>2 DEF CondOK, HoldsOK, Inside, MayLock, Holds
<1>4. mutex_lock(x, m)
  BY <1>1, <1>3 DEF cond_relock, mutex_lock
<1>5. M!MutexOK'
  BY <1>1, <1>2, <1>4, LockSeen, Assumed, M!LockKeeps DEF CondOK
<1>6. depth'[x][m] <= 1
  <2>1. class[m] \in Classes /\ depth \in [Tasks -> [Mutexes -> 0 .. MaxDepth]]
    BY <1>2, Plain
  <2>2. depth' = depth \/ depth' = [depth EXCEPT ![x][m] = @ + 1]
    BY <1>4, <2>1 DEF mutex_lock, NOP_lock, NOPM_lock, NPP_lock, PI_lock, PC_lock, PI_turn,
       PC_turn, TakeNOP, Block, TakeCounted, Inherit, Gain, WaitFor, Classes
  <2> QED BY <1>2, <2>1, <2>2
<1> QED BY <1>1, <1>2, <1>4, <1>5, <1>6, LockIsOwn, OwnStepKeeps

LEMMA DestroyKeeps ==
  ASSUME M!SafeNesting, CondOK, NEW x \in Tasks, NEW m \in Mutexes, mutex_destroy(x, m)
  PROVE  CondOK'
<1>1. /\ use[m] = 0 /\ destroyed' = [destroyed EXCEPT ![m] = TRUE]
      /\ UNCHANGED <<mutexVars, waitVars, use, killreq, call, argVars, corrupt>>
  BY DEF mutex_destroy
<1>2. destroyed \in [Mutexes -> BOOLEAN]
  BY DEF CondOK, TypesOK, CondTypeOK
<1>3. M!MutexOK'
  BY <1>1, Unseen, MutexesRest DEF mutexVars, taskVars
<1>4. Users(m) = {}
  <2>1. Users(m) \subseteq Tasks
    BY DEF Users
  <2>2. IsFiniteSet(Users(m)) /\ Cardinality(Users(m)) = 0
    BY <1>1, <2>1, CondAssumption, FS_Subset DEF CondAssumption, CondOK, UseOK
  <2> QED BY <2>2, FS_EmptySet
<1>5. UseOK'
  <2>1. \A y \in Tasks : Inside(y)' => Inside(y) /\ mutex'[y] = mutex[y] /\ mutex[y] # m
    BY <1>1, <1>4 DEF Inside, argVars, Users
  <2>2. \A k \in Mutexes : use'[k] = Cardinality(Users(k)')
    BY <1>1 DEF CondOK, UseOK, Users, Inside, argVars
  <2>3. \A y \in Tasks : Inside(y) => mutex[y] \in Mutexes
    BY DEF CondOK, StepsOK
  <2> QED BY <1>1, <1>2, <2>1, <2>2, <2>3 DEF CondOK, UseOK
<1>6. TypesOK' /\ StepsOK' /\ HoldsOK'
  BY <1>1, <1>2 DEF CondOK, TypesOK, CondTypeOK, StepsOK, HoldsOK, Blocked, Entering, Inside,
     mutexVars, taskVars, callVars, waitVars, argVars
<1>7. QueuesOK' /\ WakeOK'
  BY <1>1 DEF CondOK, QueuesOK, WakeOK, Blocked, Entering, mutexVars, taskVars, waitVars, argVars
<1> QED BY <1>3, <1>5, <1>6, <1>7 DEF CondOK

-----------------------------------------------------------------------------
(* The theorems *)

LEMMA CondStarts ==
  ASSUME Init
  PROVE  CondOK
<1>1. M!MutexOK
  <2>1. VStatus = [x \in Tasks |-> "READY"] /\ VNopreempt = [x \in Tasks |-> FALSE]
    BY DEF Init, MutexInit, VStatus, VNopreempt
  <2>2. M!MutexInit
    BY <2>1 DEF Init, MutexInit, M!MutexInit
  <2> QED BY <2>2, Assumed, M!MutexStarts
<1>2. TypesOK
  <2>1. waiters \in [Conds -> Seq(Tasks)]
    BY DEF Init
  <2>2. use \in [Mutexes -> Nat]
    BY DEF Init
  <2> QED BY <2>1, <2>2 DEF Init, MutexInit, TypesOK, CondTypeOK
<1>3. StepsOK /\ HoldsOK /\ WakeOK
  BY DEF Init, MutexInit, StepsOK, HoldsOK, WakeOK, Blocked, Entering, Inside
<1>4. QueuesOK
  <2>1. \A c \in Conds : Distinct(waiters[c]) /\ Members(waiters[c]) = {}
    BY DEF Init, Distinct, Members
  <2> QED BY <2>1 DEF Init, MutexInit, QueuesOK, Blocked, Entering
<1>5. UseOK
  <2>1. \A m : Users(m) = {}
    BY DEF Init, Users, Inside
  <2> QED BY <2>1, FS_EmptySet DEF Init, UseOK, Inside
<1> QED BY <1>1, <1>2, <1>3, <1>4, <1>5 DEF CondOK

LEMMA CondOKIsInductive ==
  ASSUME M!SafeNesting, ~LateTimers, ~EntryResets, CondOK, [Next]_vars
  PROVE  CondOK'
<1>1. ASSUME NEW x \in Tasks, Dispatch(x) PROVE CondOK'
  BY <1>1, DispatchKeeps
<1>2. ASSUME NEW x \in Tasks, condition_timer(x) PROVE CondOK'
  BY <1>2, TimerKeeps
<1>3. ASSUME NEW x \in Tasks, TaskStep(x) PROVE CondOK'
  <2>1. ASSUME NEW c \in Conds, cond_signal(x, c) \/ cond_broadcast(x, c) PROVE CondOK'
    BY <2>1, SignalKeeps
  <2>2. ASSUME NEW c \in Conds, NEW m \in Mutexes, NEW t \in BOOLEAN, cond_wait(x, c, m, t)
        PROVE  CondOK'
    BY <2>2, WaitKeeps
  <2>3. ASSUME NEW y \in Tasks, task_kill(x, y) PROVE CondOK'
    BY <2>3, KillKeeps
  <2>4. ASSUME NEW m \in Mutexes, mutex_destroy(x, m) PROVE CondOK'
    BY <2>4, DestroyKeeps
  <2> QED
    BY <1>3, <2>1, <2>2, <2>3, <2>4, MutexCallKeeps, EntryUnlockKeeps, UnlockFailedKeeps,
       BlockKeeps, CondResumeKeeps, RelockKeeps, ReturnKeeps DEF TaskStep
<1>4. CASE UNCHANGED vars
  <2>1. UNCHANGED <<mutexVars, waitVars, use, destroyed, killreq, call, argVars, corrupt>>
    BY <1>4 DEF vars, condVars
  <2>2. M!MutexOK'
    BY <2>1, Unseen, MutexesRest DEF mutexVars, taskVars
  <2>3. TypesOK' /\ StepsOK' /\ HoldsOK' /\ UseOK'
    BY <2>1 DEF CondOK, TypesOK, CondTypeOK, StepsOK, HoldsOK, UseOK, Users, Blocked, Entering,
       Inside, mutexVars, taskVars, callVars, waitVars, argVars
  <2>4. QueuesOK' /\ WakeOK'
    BY <2>1 DEF CondOK, QueuesOK, WakeOK, Blocked, Entering, mutexVars, taskVars, waitVars,
       argVars
  <2> QED BY <2>2, <2>3, <2>4 DEF CondOK
<1> QED BY <1>1, <1>2, <1>3, <1>4 DEF Next

LEMMA CondInvariant ==
  ASSUME M!SafeNesting, ~LateTimers, ~EntryResets
  PROVE  Spec => []CondOK
<1>1. Init => CondOK
  BY CondStarts
<1>2. CondOK /\ [Next]_vars => CondOK'
  BY CondOKIsInductive
<1> QED BY <1>1, <1>2, PTL DEF Spec

\* The queues hold the blocked tasks, each once, whatever takes tasks out of them.
THEOREM QueuesAreExact ==
  ASSUME M!SafeNesting, ~LateTimers, ~EntryResets
  PROVE  Spec => []WaitersConsistent
<1>1. ASSUME CondOK PROVE WaitersConsistent
  <2>1. \A x \in Tasks, c \in Conds :
          /\ x \in Members(waiters[c]) <=> Blocked(x) /\ cond[x] = c
          /\ Blocked(x) => cond_waiting[x] = cond[x] /\ used_for_waiting[cond[x]] = mutex[x]
    BY <1>1 DEF CondOK, QueuesOK
  <2>2. \A c \in Conds : Distinct(waiters[c]) /\ Members(waiters[c]) \subseteq Tasks
    BY <1>1 DEF CondOK, QueuesOK, TypesOK, CondTypeOK, Members
  <2>3. \A c \in Conds : \A x, y \in Members(waiters[c]) : mutex[x] = mutex[y]
    BY <2>1, <2>2
  <2> QED BY <1>1, <2>1, <2>2, <2>3 DEF CondOK, TypesOK, WaitersConsistent, Blocked
<1> QED BY <1>1, CondInvariant, PTL

\* Nobody gets the mutex between the unlock and the queue.
THEOREM SignalsAreNotLost ==
  ASSUME M!SafeNesting, ~LateTimers, ~EntryResets
  PROVE  Spec => []NoLostSignal
<1>1. ASSUME CondOK PROVE NoLostSignal
  BY <1>1 DEF CondOK, HoldsOK, NoLostSignal, Holds
<1> QED BY <1>1, CondInvariant, PTL

\* The use count keeps the mutex of every task that still has to lock it.
THEOREM MutexesOutliveWaits ==
  ASSUME M!SafeNesting, ~LateTimers, ~EntryResets
  PROVE  Spec => []MutexOutlivesWait
<1>1. ASSUME CondOK PROVE MutexOutlivesWait
  BY <1>1 DEF CondOK, UseOK, MutexOutlivesWait, Inside
<1> QED BY <1>1, CondInvariant, PTL

\* Mutual exclusion outlives them too: the hand-over of a mutex from a waiter to
\* others and back never gives it to two tasks.
THEOREM WaitersExclude ==
  ASSUME M!SafeNesting, ~LateTimers, ~EntryResets
  PROVE  Spec => []MutualExclusion
<1>1. ASSUME CondOK PROVE MutualExclusion
  BY <1>1, Plain DEF MutualExclusion, Holds
<1> QED BY <1>1, CondInvariant, PTL

\* How a task gets on in cond_wait.
LEMMA NextStepOfCall ==
  ASSUME CondOK, [Next]_vars, NEW x \in Tasks
  PROVE  \/ call'[x] = call[x]
         \/ call[x] = "none"
         \/ call[x] = "entered" /\ call'[x] \in {"unlocked", "none"}
         \/ call[x] = "unlocked" /\ call'[x] = "wait"
         \/ call[x] = "wait" /\ call'[x] = "relock"
         \/ call[x] = "relock" /\ cond_return(x)
<1>1. call \in [Tasks -> {"none", "entered", "unlocked", "wait", "relock", "dying"}]
  BY DEF CondOK, TypesOK, CondTypeOK
<1>2. CASE call' = call
  BY <1>2
<1>3. CASE \E y \in Tasks :
             \/ call[y] = "none" /\ \E s : call' = [call EXCEPT ![y] = s]
             \/ /\ call[y] = "entered"
                /\ \E s \in {"unlocked", "none"} : call' = [call EXCEPT ![y] = s]
             \/ call[y] = "unlocked" /\ call' = [call EXCEPT ![y] = "wait"]
             \/ call[y] = "wait" /\ call' = [call EXCEPT ![y] = "relock"]
             \/ /\ call[y] = "relock" /\ cond_return(y)
                /\ \E s : call' = [call EXCEPT ![y] = s]
  BY <1>1, <1>3
<1>4. ASSUME NEW y \in Tasks, TaskStep(y), call' # call
      PROVE  \/ call[y] = "none" /\ \E s : call' = [call EXCEPT ![y] = s]
             \/ /\ call[y] = "entered"
                /\ \E s \in {"unlocked", "none"} : call' = [call EXCEPT ![y] = s]
             \/ call[y] = "unlocked" /\ call' = [call EXCEPT ![y] = "wait"]
             \/ call[y] = "wait" /\ call' = [call EXCEPT ![y] = "relock"]
             \/ /\ call[y] = "relock" /\ cond_return(y)
                /\ \E s : call' = [call EXCEPT ![y] = s]
  <2>1. CASE MutexCall(y)
    BY <1>4, <2>1 DEF MutexCall, condVars
  <2>2. CASE \E c \in Conds : cond_signal(y, c) \/ cond_broadcast(y, c)
    BY <1>4, <2>2 DEF cond_signal, cond_broadcast, WakeFirst
  <2>3. CASE \E c \in Conds, m \in Mutexes, t \in BOOLEAN : cond_wait(y, c, m, t)
    BY <2>3 DEF cond_wait, At, GoTo
  <2>4. CASE cond_unlock(y) \/ cond_unlock_failed(y)
    BY <2>4 DEF cond_unlock, cond_unlock_failed, At, GoTo
  <2>5. CASE cond_block(y) \/ cond_resume(y)
    BY <2>5 DEF cond_block, cond_resume, At, GoTo, AfterWait
  <2>6. CASE cond_relock(y)
    BY <1>4, <2>6 DEF cond_relock, condVars
  <2>7. CASE cond_return(y)
    BY <2>7 DEF cond_return, At, GoTo
  <2>8. CASE \E k \in Tasks : task_kill(y, k)
    BY <1>4, <2>8 DEF task_kill
  <2>9. CASE \E m \in Mutexes : mutex_destroy(y, m)
    BY <1>4, <2>9 DEF mutex_destroy
  <2> QED BY <1>4, <2>1, <2>2, <2>3, <2>4, <2>5, <2>6, <2>7, <2>8, <2>9 DEF TaskStep
<1>5. ASSUME NEW y \in Tasks, Dispatch(y) \/ condition_timer(y) PROVE call' = call
  BY <1>5 DEF Dispatch, condition_timer, condVars
<1>6. CASE UNCHANGED vars
  BY <1>2, <1>6 DEF vars, condVars
<1> QED BY <1>2, <1>3, <1>4, <1>5, <1>6 DEF Next

\* cond_timedwait says ETIMEDOUT of the waits that the timer ended, and of no
\* other, whoever wakes or kills the task before it runs again.
THEOREM WakesAreReported ==
  ASSUME M!SafeNesting, ~LateTimers, ~EntryResets
  PROVE  Spec => WakeReported
<1> DEFINE Report(x) ==
             call[x] = "relock" /\ call'[x] = "none" /\ timed[x]
               => (timedout[x] <=> wake[x] = "timeout")
<1>1. ASSUME CondOK, [Next]_vars, NEW x \in Tasks PROVE Report(x)
  <2> SUFFICES ASSUME call[x] = "relock", call'[x] = "none", timed[x]
               PROVE  timedout[x] <=> wake[x] = "timeout"
    OBVIOUS
  <2>1. cond_return(x)
    BY <1>1, NextStepOfCall
  <2>2. call \in [Tasks -> {"none", "entered", "unlocked", "wait", "relock", "dying"}]
    BY <1>1 DEF CondOK, TypesOK, CondTypeOK
  <2>3. ~killreq[x]
    BY <2>1, <2>2 DEF cond_return, GoTo
  <2> QED BY <1>1, <2>3 DEF CondOK, WakeOK
<1>2. CondOK /\ [Next]_vars => [\A x \in Tasks : Report(x)]_vars
  BY <1>1
<1> QED BY <1>2, CondInvariant, PTL DEF Spec, WakeReported

\* A killed waiter dies with the mutex locked.
THEOREM KilledWaitersOwn ==
  ASSUME M!SafeNesting, ~LateTimers, ~EntryResets
  PROVE  Spec => KilledOwnsMutex
<1> DEFINE Dies(x) ==
             call[x] # "none" /\ call[x] # "dying" /\ call'[x] = "dying"
               => owner[mutex[x]] = x
<1>1. ASSUME CondOK, [Next]_vars, NEW x \in Tasks PROVE Dies(x)
  <2> SUFFICES ASSUME call[x] # "none", call[x] # "dying", call'[x] = "dying"
               PROVE  owner[mutex[x]] = x
    OBVIOUS
  <2>1. call[x] = "relock" /\ cond_return(x)
    BY <1>1, NextStepOfCall
  <2>2. Holds(x, mutex[x]) /\ mutex[x] \in Mutexes
    BY <1>1, <2>1 DEF cond_return, CondOK, StepsOK, Inside
  <2> QED BY <1>1, <2>2, Plain DEF Holds
<1>2. CondOK /\ [Next]_vars => [\A x \in Tasks : Dies(x)]_vars
  BY <1>1
<1> QED BY <1>2, CondInvariant, PTL DEF Spec, KilledOwnsMutex

=============================================================================
