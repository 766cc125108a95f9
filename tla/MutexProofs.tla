----------------------------- MODULE MutexProofs -----------------------------
(* Theorems about the mutexes, for any number of tasks and mutexes and any *)
(* assignment of classes: mutual exclusion, exact lists of waiting tasks,  *)
(* the processor only to ready tasks, right books at the end of a task,    *)
(* and no deadlock across the levels.                                      *)
EXTENDS Mutex, IqueueOpsProofs

\* What callers respect: a holder of a mutex that others inherit from, or that
\* makes it non-preemptive, is not taken out of the ready queues by NOP or NOPM,
\* and a holder of an NPP mutex does not wait at all.
SafeNesting ==
  \A n \in Nestable :
    /\ n[2] \in {"NOP", "NOPM"} => n[1] \in {"NOP", "NOPM"}
    /\ n[1] = "NPP" => n[2] = "NPP"

\* And for the absence of deadlock: only holders of PC mutexes lock PC mutexes,
\* because PC_lock waits for owners that the order of the locks does not know.
CeilingsFirst == \A n \in Nestable : n[2] = "PC" => n[1] = "PC"

-----------------------------------------------------------------------------
(* The inductive invariant *)

Handed(m) == class[m] \in {"NOP", "NOPM"}
Lent(m) == class[m] \in {"PI", "PC"}
Queued(x, m) == x \in Members(blocked[m])
Waits(x, m) == phase[x] = "lock" /\ arg[x] = m

\* A task that has locked a mutex owns it; an owner has locked its mutex, unless
\* it is a waiter to whom the mutex was just handed.
OwnersOK ==
  \A m \in Mutexes :
    /\ \A x \in Tasks : depth[x][m] > 0 => owner[m] = x
    /\ \A x \in Tasks : class[m] # "NOPM" => depth[x][m] <= 1
    /\ \A x \in Tasks : owner[m] = x =>
         /\ status[x] # "FREE"
         /\ depth[x][m] > 0 \/ (Waits(x, m) /\ Handed(m))

\* The count of a NOPM mutex is the depth of its owner, to be or already.
CountsOK ==
  \A m \in Mutexes : class[m] = "NOPM" =>
    /\ owner[m] = NIL => counter[m] = 0
    /\ \A x \in Tasks : owner[m] = x =>
         counter[m] = depth[x][m] + (IF Waits(x, m) THEN 1 ELSE 0)

\* A task that waits in mutex_lock, for a mutex that it may lock.
RequestsOK ==
  \A x \in Tasks : phase[x] = "lock" =>
    /\ arg[x] \in Mutexes /\ depth[x][arg[x]] = 0
    /\ status[x] # "FREE"
    /\ class[arg[x]] # "NPP"
    /\ Handed(arg[x]) => \/ status[x] = "NOP_WAIT" /\ Queued(x, arg[x])
                         \/ status[x] = "READY" /\ owner[arg[x]] = x
    /\ Lent(arg[x]) => status[x] = "READY" /\ owner[arg[x]] # x
    /\ class[arg[x]] = "PC" => ceiling[arg[x]] <= priority[x]
NestingOK ==
  \A x \in Tasks, k \in Mutexes : phase[x] = "lock" /\ depth[x][k] > 0 =>
    /\ <<class[k], class[arg[x]]>> \in Nestable
    /\ k < arg[x] \/ (class[k] = "PC" /\ class[arg[x]] = "PC")

\* The lists of waiting tasks.
ListsOK ==
  /\ \A m \in Mutexes : Distinct(blocked[m])
  /\ \A x \in Tasks, m \in Mutexes : Queued(x, m) =>
       /\ phase[x] = "lock"
       /\ owner[m] \notin {NIL, x}
       /\ class[m] # "NPP"
       /\ Handed(m) => arg[x] = m /\ status[x] = "NOP_WAIT"
       /\ Lent(m) => shadow[x] = owner[m] /\ class[arg[x]] = class[m]
       /\ class[m] = "PI" => arg[x] = m
       /\ class[m] = "PC" => ceiling[m] <= priority[x]
  /\ \A x \in Tasks, m, k \in Mutexes : Queued(x, m) /\ Queued(x, k) => m = k
ShadowsOK ==
  \A x \in Tasks :
    /\ shadow[x] # x =>
         status[x] = "READY" /\ \E m \in Mutexes : Queued(x, m) /\ Lent(m)
    /\ status[x] = "NOP_WAIT" => phase[x] = "lock"

\* The processor; a non-preemptive task holds an NPP mutex, and keeps it.
ExecOK ==
  exec_shadow # NIL => status[exec_shadow] = "READY" /\ shadow[exec_shadow] = exec_shadow
NppOK ==
  \A x \in Tasks :
    /\ nopreempt[x] <=> \E m \in Mutexes : class[m] = "NPP" /\ owner[m] = x
    /\ nopreempt[x] => exec_shadow = x

\* The books.
Busy(c) == {m \in Mutexes : class[m] = c /\ owner[m] # NIL}
Own(c, x) == {m \in Mutexes : class[m] = c /\ owner[m] = x}
BooksOK ==
  /\ nppLocked = Cardinality(Busy("NPP"))
  /\ \A c \in {"PI", "PC"}, x \in Tasks : nlocked[c][x] = Cardinality(Own(c, x))

\* The busy PC mutexes, in order; of two that different tasks own, one was
\* locked when the other was: its owner is more urgent than the other's ceiling.
ListOK ==
  /\ Distinct(mlist) /\ InOrder(mlist, ceiling)
  /\ Members(mlist) = Busy("PC")
CeilingsOK ==
  /\ \A m \in Mutexes, x \in Tasks :
       class[m] = "PC" /\ owner[m] = x => ceiling[m] <= priority[x]
  /\ \A a, b \in Mutexes, x, y \in Tasks :
       class[a] = "PC" /\ class[b] = "PC" /\ owner[a] = x /\ owner[b] = y /\ x # y
       => priority[y] < ceiling[a] \/ priority[x] < ceiling[b]

MutexOK ==
  /\ MutexTypeOK /\ ~raised
  /\ OwnersOK /\ CountsOK
  /\ RequestsOK /\ NestingOK /\ ListsOK /\ ShadowsOK
  /\ ExecOK /\ NppOK /\ BooksOK
  /\ ListOK /\ CeilingsOK

-----------------------------------------------------------------------------
(* What the invariant says of a task that runs, owns or asks *)

LEMMA NestingRules ==
  ASSUME SafeNesting, NEW c, NEW d, <<c, d>> \in Nestable
  PROVE  /\ d \in {"NOP", "NOPM"} => c \in {"NOP", "NOPM"}
         /\ c = "NPP" => d = "NPP"
<1> DEFINE n == <<c, d>>
<1>1. n \in Nestable /\ n[1] = c /\ n[2] = d
  OBVIOUS
<1> HIDE DEF n
<1> QED BY <1>1 DEF SafeNesting

LEMMA Numbers ==
  ASSUME MutexOK
  PROVE  /\ MaxDepth \in Nat /\ MaxDepth > 0
         /\ \A x \in Tasks, m \in Mutexes :
              depth[x][m] \in Nat /\ depth[x][m] <= MaxDepth /\ counter[m] \in Nat
BY MutexAssumption DEF MutexAssumption, MutexOK, MutexTypeOK

\* A task that does not own a mutex has not locked it.
LEMMA NotOwner ==
  ASSUME MutexOK, NEW x \in Tasks, NEW m \in Mutexes, owner[m] # x
  PROVE  depth[x][m] = 0
<1>1. ~(depth[x][m] > 0)
  BY DEF MutexOK, OwnersOK
<1> QED BY <1>1, Numbers

\* A task that has the processor is in no list.
LEMMA RunsFree ==
  ASSUME MutexOK, NEW x \in Tasks, exec_shadow = x
  PROVE  /\ status[x] = "READY" /\ shadow[x] = x
         /\ \A m \in Mutexes : ~Queued(x, m)
<1>1. x # NIL
  BY MutexAssumption DEF MutexAssumption
<1>2. status[x] = "READY" /\ shadow[x] = x
  BY <1>1 DEF MutexOK, ExecOK
<1>3. \A m \in Mutexes : class[m] \in Classes
  BY DEF MutexOK, MutexTypeOK
<1>4. ASSUME NEW m \in Mutexes, Queued(x, m) PROVE FALSE
  BY <1>2, <1>3, <1>4 DEF MutexOK, ListsOK, Handed, Lent, Classes
<1> QED BY <1>2, <1>4

\* The owner of an NPP, PI or PC mutex is ready.
LEMMA OwnerIsReady ==
  ASSUME SafeNesting, MutexOK, NEW x \in Tasks, NEW m \in Mutexes,
         owner[m] = x, ~Handed(m)
  PROVE  status[x] = "READY" /\ depth[x][m] > 0
<1>1. depth[x][m] > 0 /\ status[x] # "FREE"
  BY DEF MutexOK, OwnersOK
<1>2. status[x] \in {"READY", "NOP_WAIT", "FREE"} /\ \A k \in Mutexes : class[k] \in Classes
  BY DEF MutexOK, MutexTypeOK
<1>3. ASSUME status[x] = "NOP_WAIT" PROVE FALSE
  <2>1. phase[x] = "lock"
    BY <1>3 DEF MutexOK, ShadowsOK
  <2>2. arg[x] \in Mutexes /\ Handed(arg[x])
    BY <1>2, <1>3, <2>1 DEF MutexOK, RequestsOK, Handed, Lent, Classes
  <2>3. <<class[m], class[arg[x]]>> \in Nestable
    BY <1>1, <2>1 DEF MutexOK, NestingOK
  <2> QED BY <2>2, <2>3, NestingRules DEF Handed
<1> QED BY <1>1, <1>2, <1>3

\* A holder of an NPP mutex does not wait.
LEMMA NonPreemptive ==
  ASSUME SafeNesting, MutexOK, NEW x \in Tasks, nopreempt[x]
  PROVE  phase[x] = "user" /\ \E k \in Mutexes : class[k] = "NPP" /\ depth[x][k] > 0
<1>1. PICK k \in Mutexes : class[k] = "NPP" /\ owner[k] = x
  BY DEF MutexOK, NppOK
<1>2. depth[x][k] > 0
  BY <1>1, OwnerIsReady DEF Handed
<1>3. phase[x] \in {"user", "lock"}
  BY DEF MutexOK, MutexTypeOK
<1>4. ASSUME phase[x] = "lock" PROVE FALSE
  <2>1. class[arg[x]] # "NPP" /\ <<class[k], class[arg[x]]>> \in Nestable
    BY <1>2, <1>4 DEF MutexOK, NestingOK, RequestsOK
  <2> QED BY <1>1, <2>1, NestingRules
<1> QED BY <1>1, <1>2, <1>3, <1>4

\* What MayLock gives a caller that does not own the mutex.
LEMMA MayAsk ==
  ASSUME SafeNesting, MutexOK, NEW x \in Tasks, NEW m \in Mutexes,
         MayLock(x, m), owner[m] # x
  PROVE  /\ depth[x][m] = 0
         /\ \A k \in Mutexes : depth[x][k] > 0 =>
              /\ <<class[k], class[m]>> \in Nestable
              /\ k < m \/ (class[k] = class[m] /\ class[k] \in {"PC", "NPP"})
         /\ class[m] # "NPP" => ~nopreempt[x]
<1>1. depth[x][m] = 0
  BY NotOwner
<1>2. \A k \in Mutexes : depth[x][k] > 0 =>
        /\ <<class[k], class[m]>> \in Nestable
        /\ k < m \/ (class[k] = class[m] /\ class[k] \in {"PC", "NPP"})
  BY <1>1 DEF MayLock, Holds
<1>3. ASSUME nopreempt[x] PROVE class[m] = "NPP"
  <2>1. PICK k \in Mutexes : class[k] = "NPP" /\ depth[x][k] > 0
    BY <1>3, NonPreemptive
  <2> QED BY <1>2, <2>1, NestingRules
<1> QED BY <1>1, <1>2, <1>3

-----------------------------------------------------------------------------
(* NOP and NOPM *)

\* The lock of a free mutex, or once more of an own NOPM mutex.
LEMMA TakeNOPKeeps ==
  ASSUME SafeNesting, MutexOK, NEW x \in Tasks, NEW m \in Mutexes,
         Running(x, "user"), MayLock(x, m), Handed(m),
         owner[m] = NIL \/ (owner[m] = x /\ class[m] = "NOPM"),
         TakeNOP(x, m)
  PROVE  MutexOK'
<1>1. /\ owner' = [owner EXCEPT ![m] = x]
      /\ counter' = IF class[m] = "NOPM" THEN [counter EXCEPT ![m] = @ + 1] ELSE counter
      /\ depth' = [depth EXCEPT ![x][m] = @ + 1]
      /\ class' = class /\ blocked' = blocked /\ nlocked' = nlocked
      /\ nppLocked' = nppLocked /\ mlist' = mlist /\ shadow' = shadow
      /\ status' = status /\ nopreempt' = nopreempt /\ exec_shadow' = exec_shadow
      /\ phase' = phase /\ arg' = arg /\ raised' = raised
  BY DEF TakeNOP, Gain, taskVars
<1>2. MutexTypeOK /\ x # NIL /\ phase[x] = "user" /\ exec_shadow = x /\ NIL \notin Tasks
  BY MutexAssumption DEF MutexOK, MutexAssumption, Running
<1>3. status[x] = "READY" /\ \A k \in Mutexes : ~Queued(x, k)
  BY <1>2, RunsFree
<1>4. /\ owner'[m] = x /\ \A k \in Mutexes \ {m} : owner'[k] = owner[k]
      /\ \A k \in Mutexes \ {m} : counter'[k] = counter[k]
      /\ counter'[m] = IF class[m] = "NOPM" THEN counter[m] + 1 ELSE counter[m]
      /\ depth'[x][m] = depth[x][m] + 1
      /\ \A y \in Tasks, k \in Mutexes : y # x \/ k # m => depth'[y][k] = depth[y][k]
  BY <1>1, <1>2 DEF MutexTypeOK
<1>5. \A y \in Tasks : y # x => depth[y][m] = 0
  BY <1>2, NotOwner
<1>6. /\ owner[m] = NIL => depth[x][m] = 0
      /\ class[m] = "NOPM" => counter[m] = depth[x][m]
      /\ depth[x][m] < MaxDepth
  <2>1. owner[m] = NIL => depth[x][m] = 0
    BY <1>2, NotOwner
  <2>2. class[m] = "NOPM" => counter[m] = depth[x][m]
    BY <1>2, <2>1, Numbers DEF MutexOK, CountsOK, Waits
  <2>3. depth[x][m] > 0 => depth[x][m] < MaxDepth
    BY DEF MayLock, Holds
  <2> QED BY <2>1, <2>2, <2>3, Numbers
<1>7. depth[x][m] \in Nat /\ depth[x][m] + 1 \in 0 .. MaxDepth
  BY <1>6, Numbers
<1>8. MutexTypeOK'
  <2>1. counter' \in [Mutexes -> 0 .. MaxDepth]
    BY <1>1, <1>2, <1>6, <1>7 DEF MutexTypeOK
  <2>2. depth' \in [Tasks -> [Mutexes -> 0 .. MaxDepth]]
    BY <1>1, <1>2, <1>7 DEF MutexTypeOK
  <2>3. owner' \in [Mutexes -> Tasks \cup {NIL}]
    BY <1>1, <1>2 DEF MutexTypeOK
  <2> QED BY <1>1, <1>2, <2>1, <2>2, <2>3 DEF MutexTypeOK
<1>9. OwnersOK'
  BY <1>1, <1>2, <1>3, <1>4, <1>5, <1>6, <1>7 DEF MutexOK, OwnersOK, Handed, Waits
<1>10. CountsOK'
  BY <1>1, <1>2, <1>3, <1>4, <1>5, <1>6, <1>7 DEF MutexOK, CountsOK, Waits
<1>11. RequestsOK'
  BY <1>1, <1>2, <1>3, <1>4 DEF MutexOK, RequestsOK, Handed, Lent, Queued
<1>12. NestingOK'
  BY <1>1, <1>2, <1>4 DEF MutexOK, NestingOK
<1>13. ListsOK'
  BY <1>1, <1>2, <1>3, <1>4 DEF MutexOK, ListsOK, Handed, Lent, Queued
<1>14. ShadowsOK' /\ ExecOK'
  BY <1>1 DEF MutexOK, ShadowsOK, ExecOK, Queued, Lent
<1>15. NppOK'
  BY <1>1, <1>4 DEF MutexOK, NppOK, Handed
<1>16. Busy("NPP")' = Busy("NPP") /\ Busy("PC")' = Busy("PC")
       /\ \A c \in {"PI", "PC"}, y \in Tasks : Own(c, y)' = Own(c, y)
  BY <1>1, <1>4 DEF Busy, Own, Handed
<1>17. BooksOK' /\ ListOK'
  BY <1>1, <1>16 DEF MutexOK, BooksOK, ListOK
<1>18. CeilingsOK'
  BY <1>1, <1>4 DEF MutexOK, CeilingsOK, Handed
<1> QED
  BY <1>1, <1>8, <1>9, <1>10, <1>11, <1>12, <1>13, <1>14, <1>15, <1>17, <1>18 DEF MutexOK

\* A task to which the mutex was handed runs again.
LEMMA ResumeKeeps ==
  ASSUME SafeNesting, MutexOK, NEW x \in Tasks,
         Running(x, "lock"), Handed(arg[x]),
         Gain(x, arg[x]), Return(x),
         UNCHANGED <<class, levelVars, taskVars, exec_shadow, raised>>
  PROVE  MutexOK'
<1> DEFINE m == arg[x]
<1>1. /\ depth' = [depth EXCEPT ![x][m] = @ + 1]
      /\ phase' = [phase EXCEPT ![x] = "user"]
      /\ arg' = [arg EXCEPT ![x] = NIL]
      /\ class' = class /\ blocked' = blocked /\ nlocked' = nlocked
      /\ nppLocked' = nppLocked /\ mlist' = mlist /\ shadow' = shadow
      /\ status' = status /\ nopreempt' = nopreempt /\ exec_shadow' = exec_shadow
      /\ raised' = raised /\ owner' = owner /\ counter' = counter
  BY DEF Gain, Return, taskVars, levelVars
<1>2. MutexTypeOK /\ x # NIL /\ phase[x] = "lock" /\ exec_shadow = x /\ NIL \notin Tasks
  BY MutexAssumption DEF MutexOK, MutexAssumption, Running
<1>3. status[x] = "READY" /\ \A k \in Mutexes : ~Queued(x, k)
  BY <1>2, RunsFree
<1>4. m \in Mutexes /\ depth[x][m] = 0 /\ owner[m] = x
  BY <1>2, <1>3 DEF MutexOK, RequestsOK, Handed
<1> HIDE DEF m
<1>5. /\ phase'[x] = "user" /\ arg'[x] = NIL
      /\ \A y \in Tasks \ {x} : phase'[y] = phase[y] /\ arg'[y] = arg[y]
      /\ depth'[x][m] = 1
      /\ \A y \in Tasks, k \in Mutexes : y # x \/ k # m => depth'[y][k] = depth[y][k]
  BY <1>1, <1>2, <1>4 DEF MutexTypeOK
<1>6. MutexTypeOK'
  <2>1. 0 + 1 \in 0 .. MaxDepth
    BY Numbers
  <2>2. depth' \in [Tasks -> [Mutexes -> 0 .. MaxDepth]]
    BY <1>1, <1>2, <1>4, <2>1 DEF MutexTypeOK
  <2>3. phase' \in [Tasks -> {"user", "lock"}] /\ arg' \in [Tasks -> Mutexes \cup {NIL}]
    BY <1>1, <1>2 DEF MutexTypeOK
  <2> QED BY <1>1, <1>2, <2>2, <2>3 DEF MutexTypeOK
<1>7. OwnersOK'
  BY <1>1, <1>2, <1>3, <1>4, <1>5, NotOwner DEF MutexOK, OwnersOK, Handed, Waits, m
<1>8. CountsOK'
  BY <1>1, <1>2, <1>4, <1>5 DEF MutexOK, CountsOK, Waits, m
<1>9. RequestsOK'
  BY <1>1, <1>2, <1>5 DEF MutexOK, RequestsOK, Handed, Lent, Queued
<1>10. NestingOK'
  BY <1>1, <1>2, <1>5 DEF MutexOK, NestingOK
<1>11. ListsOK'
  BY <1>1, <1>2, <1>3, <1>5 DEF MutexOK, ListsOK, Handed, Lent, Queued
<1>12. ShadowsOK' /\ ExecOK' /\ NppOK'
  BY <1>1, <1>3, <1>5 DEF MutexOK, ShadowsOK, ExecOK, NppOK, Queued, Lent
<1>13. BooksOK' /\ ListOK' /\ CeilingsOK'
  BY <1>1 DEF MutexOK, BooksOK, ListOK, CeilingsOK, Busy, Own
<1> QED
  BY <1>1, <1>6, <1>7, <1>8, <1>9, <1>10, <1>11, <1>12, <1>13 DEF MutexOK

\* The lock of a mutex of another task.
LEMMA BlockKeeps ==
  ASSUME SafeNesting, MutexOK, NEW x \in Tasks, NEW m \in Mutexes,
         Running(x, "user"), MayLock(x, m), Handed(m),
         owner[m] \notin {NIL, x}, Block(x, m)
  PROVE  MutexOK'
<1>1. /\ blocked' = [blocked EXCEPT ![m] = InsertLast(x, @)]
      /\ status' = [status EXCEPT ![x] = "NOP_WAIT"]
      /\ exec_shadow' = NIL
      /\ phase' = [phase EXCEPT ![x] = "lock"]
      /\ arg' = [arg EXCEPT ![x] = m]
      /\ depth' = depth /\ class' = class /\ nlocked' = nlocked
      /\ nppLocked' = nppLocked /\ mlist' = mlist /\ shadow' = shadow
      /\ nopreempt' = nopreempt /\ raised' = raised /\ owner' = owner
      /\ counter' = counter
  BY DEF Block, WaitFor
<1>2. MutexTypeOK /\ x # NIL /\ phase[x] = "user" /\ exec_shadow = x /\ NIL \notin Tasks
  BY MutexAssumption DEF MutexOK, MutexAssumption, Running
<1>3. status[x] = "READY" /\ shadow[x] = x /\ \A k \in Mutexes : ~Queued(x, k)
  BY <1>2, RunsFree
<1>4. /\ depth[x][m] = 0 /\ ~nopreempt[x]
      /\ \A k \in Mutexes : depth[x][k] > 0 =>
           /\ <<class[k], class[m]>> \in Nestable
           /\ k < m \/ (class[k] = class[m] /\ class[k] \in {"PC", "NPP"})
  BY MayAsk DEF Handed
<1>5. /\ InsertLast(x, blocked[m]) \in Seq(Tasks)
      /\ Distinct(InsertLast(x, blocked[m]))
      /\ Members(InsertLast(x, blocked[m])) = Members(blocked[m]) \cup {x}
  <2>1. blocked[m] \in Seq(Tasks) /\ Distinct(blocked[m]) /\ x \notin Members(blocked[m])
    BY <1>2, <1>3 DEF MutexOK, ListsOK, MutexTypeOK, Queued
  <2> QED BY <2>1, InsertLastProperties
<1> DEFINE b == InsertLast(x, blocked[m])
<1> HIDE DEF b
<1>6. /\ blocked'[m] = b /\ \A k \in Mutexes \ {m} : blocked'[k] = blocked[k]
      /\ status'[x] = "NOP_WAIT" /\ phase'[x] = "lock" /\ arg'[x] = m
      /\ \A y \in Tasks \ {x} :
           status'[y] = status[y] /\ phase'[y] = phase[y] /\ arg'[y] = arg[y]
  BY <1>1, <1>2 DEF MutexTypeOK, b
<1>7. \A y \in Tasks, k \in Mutexes : Queued(y, k)' <=> Queued(y, k) \/ (y = x /\ k = m)
  BY <1>5, <1>6 DEF Queued, b
<1>8. MutexTypeOK'
  <2>1. blocked' \in [Mutexes -> Seq(Tasks)]
    BY <1>1, <1>2, <1>5 DEF MutexTypeOK
  <2> QED BY <1>1, <1>2, <2>1 DEF MutexTypeOK
<1>9. OwnersOK'
  BY <1>1, <1>2, <1>3, <1>6, <1>7 DEF MutexOK, OwnersOK, Handed, Waits
<1>10. CountsOK'
  BY <1>1, <1>2, <1>6 DEF MutexOK, CountsOK, Waits
<1>11. RequestsOK'
  BY <1>1, <1>2, <1>3, <1>4, <1>6, <1>7 DEF MutexOK, RequestsOK, Handed, Lent
<1>12. NestingOK'
  BY <1>1, <1>2, <1>4, <1>6 DEF MutexOK, NestingOK, Handed
<1>13. ListsOK'
  <2>1. \A k \in Mutexes : Distinct(blocked'[k])
    BY <1>5, <1>6 DEF MutexOK, ListsOK, b
  <2>2. \A y \in Tasks, k, j \in Mutexes : Queued(y, k)' /\ Queued(y, j)' => k = j
    BY <1>3, <1>7 DEF MutexOK, ListsOK
  <2>3. ASSUME NEW y \in Tasks, NEW k \in Mutexes, Queued(y, k)'
        PROVE  /\ phase'[y] = "lock"
               /\ owner'[k] \notin {NIL, y}
               /\ class'[k] # "NPP"
               /\ Handed(k)' => arg'[y] = k /\ status'[y] = "NOP_WAIT"
               /\ Lent(k)' => shadow'[y] = owner'[k] /\ class'[arg'[y]] = class'[k]
               /\ class'[k] = "PI" => arg'[y] = k
               /\ class'[k] = "PC" => ceiling[k] <= priority[y]
    <3>1. CASE y = x
      BY <1>1, <1>3, <1>6, <1>7, <2>3, <3>1 DEF Handed, Lent
    <3>2. CASE y # x
      <4>1. Queued(y, k)
        BY <1>7, <2>3, <3>2
      <4> QED BY <1>1, <1>6, <3>2, <4>1 DEF MutexOK, ListsOK, Handed, Lent
    <3> QED BY <3>1, <3>2
  <2> QED BY <2>1, <2>2, <2>3 DEF ListsOK
<1>14. ShadowsOK'
  BY <1>1, <1>3, <1>6, <1>7 DEF MutexOK, ShadowsOK, Lent
<1>15. ExecOK' /\ NppOK'
  BY <1>1, <1>2, <1>4 DEF MutexOK, ExecOK, NppOK
<1>16. BooksOK' /\ ListOK' /\ CeilingsOK'
  BY <1>1 DEF MutexOK, BooksOK, ListOK, CeilingsOK, Busy, Own
<1> QED
  BY <1>1, <1>8, <1>9, <1>10, <1>11, <1>12, <1>13, <1>14, <1>15, <1>16 DEF MutexOK

\* A nested NOPM mutex is unlocked once.
LEMMA CountDownKeeps ==
  ASSUME SafeNesting, MutexOK, NEW x \in Tasks, NEW m \in Mutexes,
         Running(x, "user"), class[m] = "NOPM", owner[m] = x, counter[m] > 1,
         counter' = [counter EXCEPT ![m] = @ - 1], Lose(x, m),
         UNCHANGED <<owner, blocked, status, nlocked, nppLocked, mlist, shadow,
                     nopreempt, class, exec_shadow, phase, arg, raised>>
  PROVE  MutexOK'
<1>1. MutexTypeOK /\ x # NIL /\ phase[x] = "user" /\ exec_shadow = x /\ NIL \notin Tasks
  BY MutexAssumption DEF MutexOK, MutexAssumption, Running
<1>2. depth[x][m] = counter[m] /\ depth[x][m] > 1 /\ depth[x][m] \in 0 .. MaxDepth
  BY <1>1, Numbers DEF MutexOK, CountsOK, Waits
<1>3. depth' = [depth EXCEPT ![x][m] = @ - 1]
  BY DEF Lose
<1>4. /\ depth'[x][m] = depth[x][m] - 1 /\ counter'[m] = counter[m] - 1
      /\ \A k \in Mutexes \ {m} : counter'[k] = counter[k]
      /\ \A y \in Tasks, k \in Mutexes : y # x \/ k # m => depth'[y][k] = depth[y][k]
  BY <1>1, <1>3 DEF MutexTypeOK
<1>5. MutexTypeOK'
  <2>1. depth[x][m] - 1 \in 0 .. MaxDepth /\ counter[m] - 1 \in 0 .. MaxDepth
    BY <1>2, Numbers
  <2>2. /\ counter' \in [Mutexes -> 0 .. MaxDepth]
        /\ depth' \in [Tasks -> [Mutexes -> 0 .. MaxDepth]]
    BY <1>1, <1>3, <2>1 DEF MutexTypeOK
  <2> QED BY <1>1, <2>2 DEF MutexTypeOK
<1>6. OwnersOK'
  BY <1>1, <1>2, <1>4, Numbers DEF MutexOK, OwnersOK, Handed, Waits
<1>7. CountsOK'
  BY <1>1, <1>2, <1>4, Numbers DEF MutexOK, CountsOK, Waits
<1>8. RequestsOK'
  BY <1>1, <1>4 DEF MutexOK, RequestsOK, Handed, Lent, Queued
<1>9. NestingOK'
  BY <1>1, <1>2, <1>4 DEF MutexOK, NestingOK
<1>10. ListsOK' /\ ShadowsOK' /\ ExecOK' /\ NppOK'
  BY DEF MutexOK, ListsOK, ShadowsOK, ExecOK, NppOK, Handed, Lent, Queued
<1>11. BooksOK' /\ ListOK' /\ CeilingsOK'
  BY DEF MutexOK, BooksOK, ListOK, CeilingsOK, Busy, Own
<1> QED
  BY <1>5, <1>6, <1>7, <1>8, <1>9, <1>10, <1>11 DEF MutexOK

\* The last unlock: nobody waits, or the first waiter becomes the owner.
LEMMA HandOffKeeps ==
  ASSUME SafeNesting, MutexOK, NEW x \in Tasks, NEW m \in Mutexes,
         Running(x, "user"), Holds(x, m), Handed(m), owner[m] = x,
         class[m] = "NOPM" => ~(counter[m] > 1),
         HandOff(m), Lose(x, m),
         UNCHANGED <<nlocked, nppLocked, mlist, shadow, nopreempt,
                     class, exec_shadow, phase, arg, raised>>
  PROVE  MutexOK'
<1>1. MutexTypeOK /\ x # NIL /\ phase[x] = "user" /\ exec_shadow = x /\ NIL \notin Tasks
  BY MutexAssumption DEF MutexOK, MutexAssumption, Running
<1>2. status[x] = "READY" /\ \A k \in Mutexes : ~Queued(x, k)
  BY <1>1, RunsFree
<1>3. depth[x][m] = 1
  <2>1. depth[x][m] > 0 /\ (class[m] # "NOPM" => depth[x][m] <= 1)
    BY DEF MutexOK, OwnersOK, Holds
  <2>2. class[m] = "NOPM" => counter[m] = depth[x][m]
    BY <1>1, Numbers DEF MutexOK, CountsOK, Waits
  <2> QED BY <2>1, <2>2, Numbers
<1>4. depth' = [depth EXCEPT ![x][m] = @ - 1]
  BY DEF Lose
<1>5. /\ depth'[x][m] = 0
      /\ \A y \in Tasks, k \in Mutexes : y # x \/ k # m => depth'[y][k] = depth[y][k]
  BY <1>1, <1>3, <1>4 DEF MutexTypeOK
<1>6. \A y \in Tasks : depth'[y][m] = 0
  BY <1>5, NotOwner
<1>7. depth' \in [Tasks -> [Mutexes -> 0 .. MaxDepth]]
  <2>1. 1 - 1 \in 0 .. MaxDepth
    BY Numbers
  <2> QED BY <1>1, <1>3, <1>4, <2>1 DEF MutexTypeOK
<1>8. 0 \in 0 .. MaxDepth /\ 1 \in 0 .. MaxDepth
  BY Numbers
<1>9. CASE blocked[m] = <<>>
  <2>1. /\ owner' = [owner EXCEPT ![m] = NIL]
        /\ counter' = [counter EXCEPT ![m] = 0]
        /\ blocked' = blocked /\ status' = status
    BY <1>9 DEF HandOff
  <2>2. /\ owner'[m] = NIL /\ counter'[m] = 0
        /\ \A k \in Mutexes \ {m} : owner'[k] = owner[k] /\ counter'[k] = counter[k]
    BY <1>1, <2>1 DEF MutexTypeOK
  <2>3. \A y \in Tasks : ~Queued(y, m)
    BY <1>9 DEF Queued, Members
  <2>4. MutexTypeOK'
    <3>1. owner' \in [Mutexes -> Tasks \cup {NIL}] /\ counter' \in [Mutexes -> 0 .. MaxDepth]
      BY <1>1, <1>8, <2>1 DEF MutexTypeOK
    <3> QED BY <1>1, <1>7, <2>1, <3>1 DEF MutexTypeOK
  <2>5. OwnersOK' /\ CountsOK'
    BY <1>1, <1>5, <1>6, <2>1, <2>2, Numbers DEF MutexOK, OwnersOK, CountsOK, Handed, Waits
  <2>6. RequestsOK'
    BY <1>1, <1>5, <2>1, <2>2, <2>3 DEF MutexOK, RequestsOK, Handed, Lent, Queued
  <2>7. NestingOK'
    BY <1>1, <1>5 DEF MutexOK, NestingOK
  <2>8. ListsOK' /\ ShadowsOK' /\ ExecOK'
    BY <2>1, <2>2, <2>3 DEF MutexOK, ListsOK, ShadowsOK, ExecOK, Handed, Lent, Queued
  <2>9. NppOK'
    BY <1>1, <2>2 DEF MutexOK, NppOK, Handed
  <2>10. Busy("NPP")' = Busy("NPP") /\ Busy("PC")' = Busy("PC")
         /\ \A c \in {"PI", "PC"}, y \in Tasks : Own(c, y)' = Own(c, y)
    BY <2>2 DEF Busy, Own, Handed
  <2>11. BooksOK' /\ ListOK'
    BY <2>10 DEF MutexOK, BooksOK, ListOK
  <2>12. CeilingsOK'
    BY <2>2 DEF MutexOK, CeilingsOK, Handed
  <2> QED
    BY <2>4, <2>5, <2>6, <2>7, <2>8, <2>9, <2>11, <2>12 DEF MutexOK
<1>10. CASE blocked[m] # <<>>
  <2> DEFINE w == Head(blocked[m])
             b == Tail(blocked[m])
  <2>1. /\ owner' = [owner EXCEPT ![m] = w]
        /\ counter' = [counter EXCEPT ![m] = IF class[m] = "NOPM" THEN 1 ELSE 0]
        /\ blocked' = [blocked EXCEPT ![m] = b]
        /\ status' = [status EXCEPT ![w] = "READY"]
    BY <1>10 DEF HandOff
  <2>2. /\ w \in Tasks /\ w \in Members(blocked[m])
        /\ b \in Seq(Tasks) /\ Distinct(b)
        /\ Members(b) = Members(blocked[m]) \ {w}
    <3>1. blocked[m] \in Seq(Tasks) /\ Distinct(blocked[m])
      BY <1>1 DEF MutexOK, ListsOK, MutexTypeOK
    <3> QED BY <1>10, <3>1, FirstLeavesProperties
  <2> HIDE DEF w, b
  <2>3. /\ Queued(w, m) /\ w # x /\ phase[w] = "lock" /\ arg[w] = m
        /\ status[w] = "NOP_WAIT" /\ w # NIL
    BY <1>1, <1>2, <2>2 DEF MutexOK, ListsOK, Queued
  <2>4. /\ owner'[m] = w /\ counter'[m] = (IF class[m] = "NOPM" THEN 1 ELSE 0)
        /\ \A k \in Mutexes \ {m} : owner'[k] = owner[k] /\ counter'[k] = counter[k]
        /\ blocked'[m] = b /\ \A k \in Mutexes \ {m} : blocked'[k] = blocked[k]
        /\ status'[w] = "READY" /\ \A y \in Tasks \ {w} : status'[y] = status[y]
    BY <1>1, <2>1, <2>2 DEF MutexTypeOK
  <2>5. /\ \A y \in Tasks, k \in Mutexes :
             Queued(y, k)' <=> Queued(y, k) /\ ~(y = w /\ k = m)
        /\ \A k \in Mutexes : w \notin Members(blocked'[k])
    <3>1. \A y \in Tasks, k \in Mutexes :
             Queued(y, k)' <=> Queued(y, k) /\ ~(y = w /\ k = m)
      BY <2>2, <2>4 DEF Queued
    <3>2. ASSUME NEW k \in Mutexes, Queued(w, k) PROVE k = m
      BY <2>2, <2>3, <3>2 DEF MutexOK, ListsOK
    <3> QED BY <2>2, <3>1, <3>2 DEF Queued
  <2>6. MutexTypeOK'
    <3>1. /\ owner' \in [Mutexes -> Tasks \cup {NIL}]
          /\ counter' \in [Mutexes -> 0 .. MaxDepth]
          /\ blocked' \in [Mutexes -> Seq(Tasks)]
      BY <1>1, <1>8, <2>1, <2>2 DEF MutexTypeOK
    <3>2. status' \in [Tasks -> {"READY", "NOP_WAIT", "FREE"}]
      BY <1>1, <2>1, <2>2 DEF MutexTypeOK
    <3> QED BY <1>1, <1>7, <3>1, <3>2 DEF MutexTypeOK
  <2>7. OwnersOK'
    BY <1>1, <1>5, <1>6, <2>2, <2>3, <2>4, Numbers DEF MutexOK, OwnersOK, Handed, Waits
  <2>8. CountsOK'
    BY <1>1, <1>5, <1>6, <2>2, <2>3, <2>4, Numbers DEF MutexOK, CountsOK, Waits
  <2>9. RequestsOK'
    BY <1>1, <1>5, <2>2, <2>3, <2>4, <2>5 DEF MutexOK, RequestsOK, Handed, Lent
  <2>10. NestingOK'
    BY <1>1, <1>5 DEF MutexOK, NestingOK
  <2>11. ListsOK'
    BY <2>2, <2>3, <2>4, <2>5 DEF MutexOK, ListsOK, Handed, Lent
  <2>12. ShadowsOK'
    BY <2>3, <2>4, <2>5 DEF MutexOK, ShadowsOK, Handed, Lent
  <2>13. ExecOK'
    BY <1>1, <2>2, <2>3, <2>4 DEF MutexOK, ExecOK
  <2>14. NppOK'
    BY <1>1, <2>4 DEF MutexOK, NppOK, Handed
  <2>15. Busy("NPP")' = Busy("NPP") /\ Busy("PC")' = Busy("PC")
         /\ \A c \in {"PI", "PC"}, y \in Tasks : Own(c, y)' = Own(c, y)
    BY <2>4 DEF Busy, Own, Handed
  <2>16. BooksOK' /\ ListOK'
    BY <2>15 DEF MutexOK, BooksOK, ListOK
  <2>17. CeilingsOK'
    BY <2>4 DEF MutexOK, CeilingsOK, Handed
  <2> QED
    BY <2>6, <2>7, <2>8, <2>9, <2>10, <2>11, <2>12, <2>13, <2>14, <2>16, <2>17 DEF MutexOK
<1> QED BY <1>9, <1>10

-----------------------------------------------------------------------------
(* NPP *)

\* If a task that runs locks or holds an NPP mutex, no other task owns one.
LEMMA NppOwner ==
  ASSUME MutexOK, NEW x \in Tasks, exec_shadow = x, NEW m \in Mutexes,
         class[m] = "NPP", owner[m] # NIL
  PROVE  owner[m] = x
<1>1. owner[m] \in Tasks
  BY DEF MutexOK, MutexTypeOK
<1> QED BY <1>1 DEF MutexOK, NppOK

LEMMA BusyFinite ==
  ASSUME MutexOK
  PROVE  /\ \A c : IsFiniteSet(Busy(c)) /\ Cardinality(Busy(c)) \in Nat
         /\ \A c, x : IsFiniteSet(Own(c, x)) /\ Cardinality(Own(c, x)) \in Nat
<1>1. IsFiniteSet(Mutexes)
  BY MutexAssumption DEF MutexAssumption
<1>2. \A c : Busy(c) \subseteq Mutexes
  BY DEF Busy
<1>3. \A c, x : Own(c, x) \subseteq Mutexes
  BY DEF Own
<1> QED BY <1>1, <1>2, <1>3, FS_Subset, FS_CardinalityType

LEMMA NppLockKeeps ==
  ASSUME SafeNesting, MutexOK, NEW x \in Tasks, NEW m \in Mutexes,
         Running(x, "user"), class[m] = "NPP", NPP_lock(x, m)
  PROVE  MutexOK'
<1>1. /\ owner' = [owner EXCEPT ![m] = x] /\ owner[m] # x
      /\ nppLocked' = nppLocked + 1
      /\ nopreempt' = IF nppLocked = 0 THEN [nopreempt EXCEPT ![x] = TRUE] ELSE nopreempt
      /\ depth' = [depth EXCEPT ![x][m] = @ + 1]
      /\ class' = class /\ counter' = counter /\ blocked' = blocked
      /\ nlocked' = nlocked /\ mlist' = mlist /\ shadow' = shadow
      /\ status' = status /\ exec_shadow' = exec_shadow /\ phase' = phase
      /\ arg' = arg /\ raised' = raised
  BY DEF NPP_lock, Gain
<1>2. MutexTypeOK /\ x # NIL /\ phase[x] = "user" /\ exec_shadow = x /\ NIL \notin Tasks
  BY MutexAssumption DEF MutexOK, MutexAssumption, Running
<1>3. owner[m] = NIL /\ depth[x][m] = 0 /\ status[x] = "READY"
  BY <1>1, <1>2, NppOwner, NotOwner, RunsFree
<1>4. /\ owner'[m] = x /\ \A k \in Mutexes \ {m} : owner'[k] = owner[k]
      /\ depth'[x][m] = 1
      /\ \A y \in Tasks, k \in Mutexes : y # x \/ k # m => depth'[y][k] = depth[y][k]
  BY <1>1, <1>2, <1>3 DEF MutexTypeOK
<1>5. /\ Busy("NPP")' = Busy("NPP") \cup {m} /\ m \notin Busy("NPP")
      /\ Busy("PC")' = Busy("PC")
      /\ \A c \in {"PI", "PC"}, y \in Tasks : Own(c, y)' = Own(c, y)
  BY <1>1, <1>2, <1>3, <1>4 DEF Busy, Own
<1>6. nppLocked = Cardinality(Busy("NPP")) /\ nppLocked \in Nat
      /\ nppLocked' = Cardinality(Busy("NPP")')
  <2>1. nppLocked = Cardinality(Busy("NPP")) /\ IsFiniteSet(Busy("NPP"))
    BY BusyFinite DEF MutexOK, BooksOK
  <2>2. Cardinality(Busy("NPP") \cup {m}) = Cardinality(Busy("NPP")) + 1
    BY <1>5, <2>1, FS_AddElement
  <2> QED BY <1>1, <1>5, <2>1, <2>2, BusyFinite
<1>7. MutexTypeOK'
  <2>1. 0 + 1 \in 0 .. MaxDepth
    BY Numbers
  <2>2. /\ depth' \in [Tasks -> [Mutexes -> 0 .. MaxDepth]]
        /\ owner' \in [Mutexes -> Tasks \cup {NIL}]
        /\ nopreempt' \in [Tasks -> BOOLEAN]
    BY <1>1, <1>2, <1>3, <2>1 DEF MutexTypeOK
  <2> QED BY <1>1, <1>2, <1>6, <2>2 DEF MutexTypeOK
<1>8. OwnersOK'
  BY <1>1, <1>2, <1>3, <1>4, NotOwner DEF MutexOK, OwnersOK, Handed, Waits
<1>9. CountsOK'
  BY <1>1, <1>4 DEF MutexOK, CountsOK, Waits
<1>10. RequestsOK'
  BY <1>1, <1>2, <1>4 DEF MutexOK, RequestsOK, Handed, Lent, Queued
<1>11. NestingOK'
  BY <1>1, <1>2, <1>4 DEF MutexOK, NestingOK
<1>12. ListsOK'
  BY <1>1, <1>2, <1>3, <1>4 DEF MutexOK, ListsOK, Handed, Lent, Queued
<1>13. ShadowsOK' /\ ExecOK'
  BY <1>1 DEF MutexOK, ShadowsOK, ExecOK, Lent, Queued
<1>14. NppOK'
  <2>1. nopreempt'[x]
    <3>1. CASE nppLocked = 0
      BY <1>1, <1>2, <3>1 DEF MutexTypeOK
    <3>2. CASE nppLocked # 0
      <4>1. Busy("NPP") # {}
        BY <1>6, <3>2, FS_EmptySet
      <4>2. PICK k \in Mutexes : class[k] = "NPP" /\ owner[k] # NIL
        BY <4>1 DEF Busy
      <4>3. owner[k] = x
        BY <1>2, <4>2, NppOwner
      <4> QED BY <1>1, <3>2, <4>2, <4>3 DEF MutexOK, NppOK
    <3> QED BY <3>1, <3>2
  <2>2. \A y \in Tasks \ {x} : nopreempt'[y] <=> nopreempt[y]
    BY <1>1, <1>2 DEF MutexTypeOK
  <2> QED BY <1>1, <1>2, <1>3, <1>4, <2>1, <2>2 DEF MutexOK, NppOK
<1>15. BooksOK' /\ ListOK'
  BY <1>1, <1>5, <1>6 DEF MutexOK, BooksOK, ListOK
<1>16. CeilingsOK'
  BY <1>1, <1>4 DEF MutexOK, CeilingsOK
<1> QED
  BY <1>1, <1>7, <1>8, <1>9, <1>10, <1>11, <1>12, <1>13, <1>14, <1>15, <1>16 DEF MutexOK

\* The unlock by the task that runs, which owns all the busy NPP mutexes.
LEMMA NppUnlockKeeps ==
  ASSUME SafeNesting, MutexOK, NEW x \in Tasks, NEW m \in Mutexes,
         Running(x, "user"), Holds(x, m), class[m] = "NPP",
         NPP_unlock(x, m), Lose(x, m),
         UNCHANGED <<class, exec_shadow, phase, arg, raised>>
  PROVE  MutexOK'
<1>1. /\ owner' = [owner EXCEPT ![m] = NIL]
      /\ nppLocked' = nppLocked - 1
      /\ nopreempt' = IF nppLocked = 1 THEN [nopreempt EXCEPT ![x] = FALSE] ELSE nopreempt
      /\ depth' = [depth EXCEPT ![x][m] = @ - 1]
      /\ class' = class /\ counter' = counter /\ blocked' = blocked
      /\ nlocked' = nlocked /\ mlist' = mlist /\ shadow' = shadow
      /\ status' = status /\ exec_shadow' = exec_shadow /\ phase' = phase
      /\ arg' = arg /\ raised' = raised
  BY DEF NPP_unlock, Lose
<1>2. MutexTypeOK /\ x # NIL /\ phase[x] = "user" /\ exec_shadow = x /\ NIL \notin Tasks
  BY MutexAssumption DEF MutexOK, MutexAssumption, Running
<1>3. depth[x][m] = 1 /\ owner[m] = x
  <2>1. depth[x][m] > 0 /\ depth[x][m] <= 1 /\ owner[m] = x
    BY DEF MutexOK, OwnersOK, Holds
  <2> QED BY <2>1, Numbers
<1>4. /\ owner'[m] = NIL /\ \A k \in Mutexes \ {m} : owner'[k] = owner[k]
      /\ depth'[x][m] = 0
      /\ \A y \in Tasks, k \in Mutexes : y # x \/ k # m => depth'[y][k] = depth[y][k]
  BY <1>1, <1>2, <1>3 DEF MutexTypeOK
<1>5. \A y \in Tasks : depth'[y][m] = 0
  BY <1>3, <1>4, NotOwner
<1>6. /\ Busy("NPP")' = Busy("NPP") \ {m} /\ m \in Busy("NPP")
      /\ Busy("PC")' = Busy("PC")
      /\ \A c \in {"PI", "PC"}, y \in Tasks : Own(c, y)' = Own(c, y)
  BY <1>1, <1>2, <1>3, <1>4 DEF Busy, Own
<1>7. /\ nppLocked = Cardinality(Busy("NPP")) /\ nppLocked \in Nat /\ nppLocked' \in Nat
      /\ nppLocked' = Cardinality(Busy("NPP")') /\ IsFiniteSet(Busy("NPP")')
  <2>1. nppLocked = Cardinality(Busy("NPP")) /\ IsFiniteSet(Busy("NPP"))
    BY BusyFinite DEF MutexOK, BooksOK
  <2>2. /\ IsFiniteSet(Busy("NPP") \ {m})
        /\ Cardinality(Busy("NPP") \ {m}) = Cardinality(Busy("NPP")) - 1
    BY <1>6, <2>1, FS_RemoveElement
  <2>3. Cardinality(Busy("NPP") \ {m}) \in Nat
    BY <2>2, FS_CardinalityType
  <2> QED BY <1>1, <1>6, <2>1, <2>2, <2>3, BusyFinite
<1>8. MutexTypeOK'
  <2>1. 1 - 1 \in 0 .. MaxDepth
    BY Numbers
  <2>2. /\ depth' \in [Tasks -> [Mutexes -> 0 .. MaxDepth]]
        /\ owner' \in [Mutexes -> Tasks \cup {NIL}]
        /\ nopreempt' \in [Tasks -> BOOLEAN]
    BY <1>1, <1>2, <1>3, <2>1 DEF MutexTypeOK
  <2> QED BY <1>1, <1>2, <1>7, <2>2 DEF MutexTypeOK
<1>9. OwnersOK'
  BY <1>1, <1>2, <1>4, <1>5, Numbers DEF MutexOK, OwnersOK, Handed, Waits
<1>10. CountsOK'
  BY <1>1, <1>4 DEF MutexOK, CountsOK, Waits
<1>11. RequestsOK'
  BY <1>1, <1>2, <1>4 DEF MutexOK, RequestsOK, Handed, Lent, Queued
<1>12. NestingOK'
  BY <1>1, <1>2, <1>4 DEF MutexOK, NestingOK
<1>13. ListsOK'
  BY <1>1, <1>2, <1>3, <1>4 DEF MutexOK, ListsOK, Handed, Lent, Queued
<1>14. ShadowsOK' /\ ExecOK'
  BY <1>1 DEF MutexOK, ShadowsOK, ExecOK, Lent, Queued
<1>15. NppOK'
  <2>1. nopreempt'[x] <=> \E k \in Mutexes : class[k] = "NPP" /\ owner'[k] = x
    <3>1. CASE nppLocked = 1
      <4>1. Busy("NPP")' = {}
        BY <1>1, <1>7, <3>1, FS_EmptySet
      <4>2. ~nopreempt'[x]
        BY <1>1, <1>2, <3>1 DEF MutexTypeOK
      <4> QED BY <1>1, <1>2, <4>1, <4>2 DEF Busy
    <3>2. CASE nppLocked # 1
      <4>1. Busy("NPP")' # {}
        BY <1>1, <1>7, <3>2, FS_EmptySet
      <4>2. PICK k \in Mutexes : class[k] = "NPP" /\ owner'[k] # NIL
        BY <1>1, <4>1 DEF Busy
      <4>3. owner[k] = x /\ owner'[k] = x
        BY <1>2, <1>4, <4>2, NppOwner
      <4> QED BY <1>1, <3>2, <4>2, <4>3 DEF MutexOK, NppOK
    <3> QED BY <3>1, <3>2
  <2>2. \A y \in Tasks \ {x} : nopreempt'[y] <=> nopreempt[y]
    BY <1>1, <1>2 DEF MutexTypeOK
  <2> QED BY <1>1, <1>2, <1>3, <1>4, <2>1, <2>2 DEF MutexOK, NppOK
<1>16. BooksOK' /\ ListOK'
  BY <1>1, <1>6, <1>7 DEF MutexOK, BooksOK, ListOK
<1>17. CeilingsOK'
  BY <1>1, <1>4 DEF MutexOK, CeilingsOK
<1> QED
  BY <1>1, <1>8, <1>9, <1>10, <1>11, <1>12, <1>13, <1>14, <1>15, <1>16, <1>17 DEF MutexOK

-----------------------------------------------------------------------------
(* PI and PC *)

\* PC_accept looks at one mutex of the list, the first of another task: it
\* speaks for all of them.
LEMMA AcceptMeans ==
  ASSUME MutexOK, NEW x \in Tasks, PC_accept(x),
         NEW b \in Mutexes, class[b] = "PC", owner[b] \notin {NIL, x}
  PROVE  priority[x] < ceiling[b]
<1> DEFINE others == {i \in DOMAIN mlist : owner[mlist[i]] # x}
<1>1. mlist \in Seq(Mutexes) /\ InOrder(mlist, ceiling) /\ b \in Members(mlist)
  BY DEF MutexOK, MutexTypeOK, ListOK, Busy
<1>2. PICK j \in DOMAIN mlist : mlist[j] = b
  BY <1>1 DEF Members
<1>3. others \in SUBSET Nat /\ j \in others
  BY <1>1, <1>2
<1>4. PICK i \in others : \A h \in others : i <= h
  BY <1>3, LeastElement
<1>5. priority[x] < ceiling[mlist[i]]
  BY <1>4 DEF PC_accept
<1>6. ceiling[mlist[i]] <= ceiling[b]
  <2>1. mlist[i] \in Mutexes
    BY <1>1, <1>4
  <2>2. CASE i = j
    <3>1. ceiling[mlist[i]] \in Nat
      BY <2>1, MutexAssumption DEF MutexAssumption
    <3> QED BY <1>2, <2>2, <3>1
  <2>3. CASE i # j
    <3>1. i < j
      BY <1>3, <1>4, <2>3
    <3> QED BY <1>1, <1>2, <1>4, <3>1 DEF InOrder
  <2> QED BY <2>2, <2>3
<1> QED
  <2>1. mlist[i] \in Mutexes
    BY <1>1, <1>4
  <2>2. /\ ceiling[mlist[i]] \in Nat /\ priority[x] \in Nat /\ ceiling[b] \in Nat
    BY <2>1, MutexAssumption DEF MutexAssumption
  <2> QED BY <1>5, <1>6, <2>2

\* The mutex is free, and PC_accept agrees if it is a PC mutex.
LEMMA TakeCountedKeeps ==
  ASSUME SafeNesting, MutexOK, NEW x \in Tasks, NEW m \in Mutexes,
         exec_shadow = x, Lent(m), owner[m] = NIL,
         phase[x] = "lock" => arg[x] = m,
         class[m] = "PC" => ceiling[m] <= priority[x] /\ PC_accept(x),
         TakeCounted(x, m)
  PROVE  MutexOK'
<1> DEFINE c == class[m]
           l == IF c = "PC" THEN PC_insert(m) ELSE mlist
<1>1. /\ owner' = [owner EXCEPT ![m] = x]
      /\ nlocked' = [nlocked EXCEPT ![c][x] = @ + 1]
      /\ mlist' = l
      /\ depth' = [depth EXCEPT ![x][m] = @ + 1]
      /\ phase' = [phase EXCEPT ![x] = "user"]
      /\ arg' = [arg EXCEPT ![x] = NIL]
      /\ class' = class /\ counter' = counter /\ blocked' = blocked
      /\ nppLocked' = nppLocked /\ shadow' = shadow /\ nopreempt' = nopreempt
      /\ status' = status /\ exec_shadow' = exec_shadow /\ raised' = raised
  BY DEF TakeCounted, Gain, Return, taskVars
<1>2. MutexTypeOK /\ x # NIL /\ NIL \notin Tasks /\ c \in {"PI", "PC"}
  BY MutexAssumption DEF MutexOK, MutexAssumption, Lent
<1>3. /\ depth[x][m] = 0 /\ status[x] = "READY"
      /\ \A k \in Mutexes : ~Queued(x, k)
  BY <1>2, NotOwner, RunsFree
<1>4. l \in Seq(Mutexes) /\ Distinct(l) /\ InOrder(l, ceiling)
      /\ Members(l) = Busy("PC") \cup (IF c = "PC" THEN {m} ELSE {})
  <2>1. /\ mlist \in Seq(Mutexes) /\ Distinct(mlist) /\ InOrder(mlist, ceiling)
        /\ Members(mlist) = Busy("PC") /\ m \notin Members(mlist)
    BY <1>2 DEF MutexOK, MutexTypeOK, ListOK, Busy
  <2>2. ceiling \in [Mutexes -> Int]
    BY MutexAssumption DEF MutexAssumption
  <2>3. CASE c = "PC"
    BY <2>1, <2>2, <2>3, InsertByKeyProperties, InsertByKeyKeepsOrder DEF PC_insert
  <2>4. CASE c # "PC"
    BY <2>1, <2>4
  <2> QED BY <2>3, <2>4
<1> HIDE DEF l
<1>5. /\ owner'[m] = x /\ \A k \in Mutexes \ {m} : owner'[k] = owner[k]
      /\ depth'[x][m] = 1
      /\ \A y \in Tasks, k \in Mutexes : y # x \/ k # m => depth'[y][k] = depth[y][k]
      /\ phase'[x] = "user"
      /\ \A y \in Tasks \ {x} : phase'[y] = phase[y] /\ arg'[y] = arg[y]
  BY <1>1, <1>2, <1>3 DEF MutexTypeOK
<1>6. \A y \in Tasks \ {x} : depth[y][m] = 0
  BY <1>2, NotOwner
<1>7. /\ nlocked'[c][x] = nlocked[c][x] + 1
      /\ \A d \in {"PI", "PC"}, y \in Tasks :
           d # c \/ y # x => nlocked'[d][y] = nlocked[d][y]
      /\ nlocked' \in [{"PI", "PC"} -> [Tasks -> Nat]]
  BY <1>1, <1>2 DEF MutexTypeOK
<1>8. /\ Busy("NPP")' = Busy("NPP")
      /\ Busy("PC")' = Busy("PC") \cup (IF c = "PC" THEN {m} ELSE {})
  BY <1>1, <1>2, <1>5 DEF Busy
<1>9. \A d \in {"PI", "PC"}, y \in Tasks :
        Own(d, y)' = IF d = c /\ y = x THEN Own(d, y) \cup {m} ELSE Own(d, y)
  <2>1. \A d, y : Own(d, y)' = {k \in Mutexes : class[k] = d /\ owner'[k] = y}
    BY <1>1 DEF Own
  <2>2. \A y \in Tasks : y # NIL
    BY <1>2
  <2> QED BY <1>2, <1>5, <2>1, <2>2 DEF Own
<1>10. MutexTypeOK'
  <2>1. 0 + 1 \in 0 .. MaxDepth
    BY Numbers
  <2>2. /\ depth' \in [Tasks -> [Mutexes -> 0 .. MaxDepth]]
        /\ owner' \in [Mutexes -> Tasks \cup {NIL}]
        /\ phase' \in [Tasks -> {"user", "lock"}]
        /\ arg' \in [Tasks -> Mutexes \cup {NIL}]
    BY <1>1, <1>2, <1>3, <2>1 DEF MutexTypeOK
  <2> QED BY <1>1, <1>2, <1>4, <1>7, <2>2 DEF MutexTypeOK
<1>11. OwnersOK'
  BY <1>1, <1>2, <1>3, <1>5, <1>6, Numbers DEF MutexOK, OwnersOK, Handed, Lent, Waits
<1>12. CountsOK'
  BY <1>1, <1>2, <1>5 DEF MutexOK, CountsOK, Waits
<1>13. RequestsOK'
  BY <1>1, <1>2, <1>5 DEF MutexOK, RequestsOK, Handed, Lent, Queued
<1>14. NestingOK'
  BY <1>1, <1>2, <1>5 DEF MutexOK, NestingOK
<1>15. ListsOK'
  BY <1>1, <1>2, <1>3, <1>5 DEF MutexOK, ListsOK, Handed, Lent, Queued
<1>16. ShadowsOK' /\ ExecOK'
  BY <1>1, <1>3, <1>5 DEF MutexOK, ShadowsOK, ExecOK, Lent, Queued
<1>17. NppOK'
  BY <1>1, <1>2, <1>5 DEF MutexOK, NppOK
<1>18. BooksOK'
  <2>1. ASSUME NEW d \in {"PI", "PC"}, NEW y \in Tasks
        PROVE  nlocked'[d][y] = Cardinality(Own(d, y)')
    <3>1. nlocked[d][y] = Cardinality(Own(d, y))
      BY DEF MutexOK, BooksOK
    <3>2. CASE d = c /\ y = x
      <4>1. m \notin Own(d, y)
        BY <1>2 DEF Own
      <4>2. Cardinality(Own(d, y) \cup {m}) = Cardinality(Own(d, y)) + 1
        BY <4>1, BusyFinite, FS_AddElement
      <4> QED BY <1>7, <1>9, <3>1, <3>2, <4>2
    <3>3. CASE ~(d = c /\ y = x)
      BY <1>7, <1>9, <3>1, <3>3
    <3> QED BY <3>2, <3>3
  <2> QED BY <1>1, <1>8, <2>1 DEF MutexOK, BooksOK
<1>19. ListOK'
  BY <1>1, <1>4, <1>8 DEF ListOK
<1>20. CeilingsOK'
  <2>1. ASSUME NEW k \in Mutexes, NEW y \in Tasks, class[k] = "PC", owner'[k] = y
        PROVE  ceiling[k] <= priority[y]
    BY <1>5, <2>1 DEF MutexOK, CeilingsOK
  <2>2. ASSUME NEW a \in Mutexes, NEW b \in Mutexes, NEW y \in Tasks, NEW z \in Tasks,
               class[a] = "PC", class[b] = "PC",
               owner'[a] = y, owner'[b] = z, y # z
        PROVE  priority[z] < ceiling[a] \/ priority[y] < ceiling[b]
    <3>1. CASE a = m
      <4>1. y = x /\ b # m /\ owner[b] \notin {NIL, x}
        BY <1>2, <1>5, <2>2, <3>1
      <4> QED BY <2>2, <3>1, <4>1, AcceptMeans
    <3>2. CASE b = m
      <4>1. z = x /\ a # m /\ owner[a] \notin {NIL, x}
        BY <1>2, <1>5, <2>2, <3>2
      <4> QED BY <2>2, <3>2, <4>1, AcceptMeans
    <3>3. CASE a # m /\ b # m
      BY <1>5, <2>2, <3>3 DEF MutexOK, CeilingsOK
    <3> QED BY <3>1, <3>2, <3>3
  <2> QED BY <1>1, <2>1, <2>2 DEF CeilingsOK
<1> QED
  BY <1>1, <1>10, <1>11, <1>12, <1>13, <1>14, <1>15, <1>16, <1>17, <1>18, <1>19, <1>20
  DEF MutexOK

\* If PC_accept refuses, the first of the list has another owner, and the caller
\* may lend its place to it.
LEMMA RefusedMeans ==
  ASSUME MutexOK, NEW x \in Tasks, ~PC_accept(x)
  PROVE  /\ mlist[1] \in Mutexes /\ class[mlist[1]] = "PC"
         /\ owner[mlist[1]] \notin {NIL, x}
         /\ ceiling[mlist[1]] <= priority[x]
<1> DEFINE a == mlist[1]
<1>1. PICK i \in DOMAIN mlist : owner[mlist[i]] # x /\ ~(priority[x] < ceiling[mlist[i]])
  BY DEF PC_accept
<1> DEFINE b == mlist[i]
<1>2. /\ mlist \in Seq(Mutexes) /\ InOrder(mlist, ceiling)
      /\ Members(mlist) = Busy("PC") /\ owner \in [Mutexes -> Tasks \cup {NIL}]
  BY DEF MutexOK, MutexTypeOK, ListOK
<1>3. i \in Nat /\ i >= 1 /\ 1 \in DOMAIN mlist
  BY <1>2
<1>4. a \in Busy("PC") /\ b \in Busy("PC")
  BY <1>2, <1>3 DEF Members
<1>5. /\ a \in Mutexes /\ class[a] = "PC" /\ owner[a] # NIL
      /\ b \in Mutexes /\ class[b] = "PC" /\ owner[b] \notin {NIL, x}
  BY <1>1, <1>4 DEF Busy
<1>6. i = 1 \/ ceiling[a] <= ceiling[b]
  BY <1>2, <1>3 DEF InOrder
<1>7. ~(priority[x] < ceiling[b]) /\ (a = b \/ ceiling[a] <= ceiling[b])
  BY <1>1, <1>6
<1> HIDE DEF a, b
<1>8. ceiling[a] \in Nat /\ ceiling[b] \in Nat /\ priority[x] \in Nat
  BY <1>5, MutexAssumption DEF MutexAssumption
<1>9. ASSUME owner[a] = x PROVE FALSE
  <2>1. owner[b] \in Tasks
    BY <1>2, <1>5
  <2>2. /\ ceiling[b] <= priority[owner[b]]
        /\ priority[owner[b]] < ceiling[a] \/ priority[x] < ceiling[b]
    BY <1>5, <1>9, <2>1 DEF MutexOK, CeilingsOK
  <2>3. priority[owner[b]] \in Nat
    BY <2>1, MutexAssumption DEF MutexAssumption
  <2> QED BY <1>7, <1>8, <2>2, <2>3
<1>10. ceiling[a] <= priority[x]
  BY <1>7, <1>8
<1> QED BY <1>5, <1>9, <1>10 DEF a

\* The caller of a lock of w joins the list of m, and lends its place to the
\* owner of m.
LEMMA InheritKeeps ==
  ASSUME SafeNesting, MutexOK, NEW x \in Tasks, NEW m \in Mutexes, NEW w \in Mutexes,
         exec_shadow = x, Lent(m), class[w] = class[m],
         owner[m] \notin {NIL, x}, owner[w] # x, ~nopreempt[x],
         phase[x] = "lock" => arg[x] = w,
         class[m] = "PI" => w = m,
         class[m] = "PC" => ceiling[m] <= priority[x] /\ ceiling[w] <= priority[x],
         \A k \in Mutexes : depth[x][k] > 0 =>
           /\ <<class[k], class[w]>> \in Nestable
           /\ k < w \/ (class[k] = "PC" /\ class[w] = "PC"),
         Inherit(x, m, w)
  PROVE  MutexOK'
<1> DEFINE b == InsertFirst(x, blocked[m])
<1>1. /\ shadow' = [shadow EXCEPT ![x] = owner[m]]
      /\ blocked' = [blocked EXCEPT ![m] = b]
      /\ exec_shadow' = NIL
      /\ phase' = [phase EXCEPT ![x] = "lock"]
      /\ arg' = [arg EXCEPT ![x] = w]
      /\ depth' = depth /\ class' = class /\ owner' = owner /\ counter' = counter
      /\ nlocked' = nlocked /\ nppLocked' = nppLocked /\ mlist' = mlist
      /\ status' = status /\ nopreempt' = nopreempt /\ raised' = raised
  BY DEF Inherit, WaitFor
<1>2. /\ MutexTypeOK /\ x # NIL /\ NIL \notin Tasks /\ owner[m] \in Tasks
      /\ class[m] \in {"PI", "PC"}
  BY MutexAssumption DEF MutexOK, MutexAssumption, MutexTypeOK, Lent
<1>3. /\ status[x] = "READY" /\ shadow[x] = x /\ depth[x][w] = 0
      /\ \A k \in Mutexes : ~Queued(x, k)
  BY <1>2, NotOwner, RunsFree
<1>4. b \in Seq(Tasks) /\ Distinct(b) /\ Members(b) = Members(blocked[m]) \cup {x}
  <2>1. blocked[m] \in Seq(Tasks) /\ Distinct(blocked[m]) /\ x \notin Members(blocked[m])
    BY <1>2, <1>3 DEF MutexOK, ListsOK, MutexTypeOK, Queued
  <2> QED BY <2>1, InsertFirstProperties
<1> HIDE DEF b
<1>5. /\ blocked'[m] = b /\ \A k \in Mutexes \ {m} : blocked'[k] = blocked[k]
      /\ phase'[x] = "lock" /\ arg'[x] = w /\ shadow'[x] = owner[m]
      /\ \A y \in Tasks \ {x} :
           shadow'[y] = shadow[y] /\ phase'[y] = phase[y] /\ arg'[y] = arg[y]
  BY <1>1, <1>2 DEF MutexTypeOK
<1>6. \A y \in Tasks, k \in Mutexes : Queued(y, k)' <=> Queued(y, k) \/ (y = x /\ k = m)
  BY <1>4, <1>5 DEF Queued
<1>7. MutexTypeOK'
  <2>1. blocked' \in [Mutexes -> Seq(Tasks)] /\ shadow' \in [Tasks -> Tasks]
    BY <1>1, <1>2, <1>4 DEF MutexTypeOK
  <2>2. phase' \in [Tasks -> {"user", "lock"}] /\ arg' \in [Tasks -> Mutexes \cup {NIL}]
    BY <1>1, <1>2 DEF MutexTypeOK
  <2> QED BY <1>1, <1>2, <2>1, <2>2 DEF MutexTypeOK
<1>8. OwnersOK'
  BY <1>1, <1>2, <1>3, <1>5 DEF MutexOK, OwnersOK, Handed, Lent, Waits
<1>9. CountsOK'
  BY <1>1, <1>2, <1>5 DEF MutexOK, CountsOK, Waits
<1>10. RequestsOK'
  BY <1>1, <1>2, <1>3, <1>5, <1>6 DEF MutexOK, RequestsOK, Handed, Lent
<1>11. NestingOK'
  BY <1>1, <1>2, <1>5 DEF MutexOK, NestingOK
<1>12. ListsOK'
  <2>1. \A k \in Mutexes : Distinct(blocked'[k])
    BY <1>4, <1>5 DEF MutexOK, ListsOK
  <2>2. \A y \in Tasks, k, j \in Mutexes : Queued(y, k)' /\ Queued(y, j)' => k = j
    BY <1>3, <1>6 DEF MutexOK, ListsOK
  <2>3. ASSUME NEW y \in Tasks, NEW k \in Mutexes, Queued(y, k)'
        PROVE  /\ phase'[y] = "lock"
               /\ owner'[k] \notin {NIL, y}
               /\ class'[k] # "NPP"
               /\ Handed(k)' => arg'[y] = k /\ status'[y] = "NOP_WAIT"
               /\ Lent(k)' => shadow'[y] = owner'[k] /\ class'[arg'[y]] = class'[k]
               /\ class'[k] = "PI" => arg'[y] = k
               /\ class'[k] = "PC" => ceiling[k] <= priority[y]
    <3>1. CASE y = x
      BY <1>1, <1>2, <1>3, <1>5, <1>6, <2>3, <3>1 DEF Handed, Lent
    <3>2. CASE y # x
      <4>1. Queued(y, k)
        BY <1>6, <2>3, <3>2
      <4> QED BY <1>1, <1>5, <3>2, <4>1 DEF MutexOK, ListsOK, Handed, Lent
    <3> QED BY <3>1, <3>2
  <2> QED BY <2>1, <2>2, <2>3 DEF ListsOK
<1>13. ShadowsOK'
  BY <1>1, <1>2, <1>3, <1>5, <1>6 DEF MutexOK, ShadowsOK, Lent
<1>14. ExecOK' /\ NppOK'
  BY <1>1, <1>2 DEF MutexOK, ExecOK, NppOK
<1>15. BooksOK' /\ ListOK' /\ CeilingsOK'
  BY <1>1 DEF MutexOK, BooksOK, ListOK, CeilingsOK, Busy, Own
<1> QED
  BY <1>1, <1>7, <1>8, <1>9, <1>10, <1>11, <1>12, <1>13, <1>14, <1>15 DEF MutexOK

\* The unlock: all that wait in the list take their place back.  l is the list
\* of busy PC mutexes afterwards.
LEMMA ReleaseAllKeeps ==
  ASSUME SafeNesting, MutexOK, NEW x \in Tasks, NEW m \in Mutexes,
         Running(x, "user"), Holds(x, m), Lent(m), owner[m] = x,
         ReleaseAll(x, m), Lose(x, m),
         mlist' = IF class[m] = "PC" THEN PC_extract(m) ELSE mlist,
         UNCHANGED <<class, counter, nppLocked, status, nopreempt,
                     exec_shadow, phase, arg, raised>>
  PROVE  MutexOK'
<1> DEFINE c == class[m]
           woken == Members(blocked[m])
<1>1. /\ owner' = [owner EXCEPT ![m] = NIL]
      /\ nlocked' = [nlocked EXCEPT ![c][x] = @ - 1]
      /\ shadow' = [p \in Tasks |-> IF p \in woken THEN p ELSE shadow[p]]
      /\ blocked' = [blocked EXCEPT ![m] = <<>>]
      /\ depth' = [depth EXCEPT ![x][m] = @ - 1]
      /\ class' = class /\ counter' = counter /\ nppLocked' = nppLocked
      /\ status' = status /\ nopreempt' = nopreempt /\ exec_shadow' = exec_shadow
      /\ phase' = phase /\ arg' = arg /\ raised' = raised
  BY DEF ReleaseAll, Lose
<1>2. /\ MutexTypeOK /\ x # NIL /\ phase[x] = "user" /\ exec_shadow = x /\ NIL \notin Tasks
      /\ c \in {"PI", "PC"}
  BY MutexAssumption DEF MutexOK, MutexAssumption, Running, Lent
<1>3. depth[x][m] = 1 /\ status[x] = "READY" /\ shadow[x] = x /\ x \notin woken
  <2>1. depth[x][m] > 0 /\ depth[x][m] <= 1
    BY <1>2 DEF MutexOK, OwnersOK, Holds
  <2> QED BY <1>2, <2>1, Numbers, RunsFree DEF Queued
<1>4. mlist' \in Seq(Mutexes) /\ Distinct(mlist') /\ InOrder(mlist', ceiling)
      /\ Members(mlist') = Busy("PC") \ {m}
  <2>1. /\ mlist \in Seq(Mutexes) /\ Distinct(mlist) /\ InOrder(mlist, ceiling)
        /\ Members(mlist) = Busy("PC") /\ (c = "PC" <=> m \in Members(mlist))
    BY <1>2 DEF MutexOK, MutexTypeOK, ListOK, Busy
  <2>2. CASE c = "PC"
    BY <2>1, <2>2, ExtractProperties, ExtractKeepsOrder DEF PC_extract
  <2>3. CASE c # "PC"
    BY <2>1, <2>3
  <2> QED BY <2>2, <2>3
<1>5. /\ owner'[m] = NIL /\ \A k \in Mutexes \ {m} : owner'[k] = owner[k]
      /\ depth'[x][m] = 0
      /\ \A y \in Tasks, k \in Mutexes : y # x \/ k # m => depth'[y][k] = depth[y][k]
      /\ blocked'[m] = <<>> /\ \A k \in Mutexes \ {m} : blocked'[k] = blocked[k]
      /\ \A y \in Tasks : shadow'[y] = IF y \in woken THEN y ELSE shadow[y]
  BY <1>1, <1>2, <1>3 DEF MutexTypeOK
<1>6. \A y \in Tasks : depth'[y][m] = 0
  BY <1>3, <1>5, NotOwner
<1>7. /\ \A y \in Tasks, k \in Mutexes : Queued(y, k)' <=> Queued(y, k) /\ k # m
      /\ \A y \in Tasks, k \in Mutexes : Queued(y, k)' => y \notin woken
  <2>1. \A y \in Tasks, k \in Mutexes : Queued(y, k)' <=> Queued(y, k) /\ k # m
    BY <1>5 DEF Queued, Members
  <2> QED BY <2>1 DEF MutexOK, ListsOK, Queued
<1>8. \A d \in {"PI", "PC"}, y \in Tasks :
        Own(d, y)' = IF d = c /\ y = x THEN Own(d, y) \ {m} ELSE Own(d, y)
  <2>1. \A d, y : Own(d, y)' = {k \in Mutexes : class[k] = d /\ owner'[k] = y}
    BY <1>1 DEF Own
  <2>2. \A y \in Tasks : y # NIL
    BY <1>2
  <2> QED BY <1>2, <1>5, <2>1, <2>2 DEF Own
<1>9. /\ Busy("NPP")' = Busy("NPP") /\ Busy("PC")' = Busy("PC") \ {m}
  BY <1>1, <1>2, <1>5 DEF Busy
<1>10. /\ m \in Own(c, x) /\ nlocked[c][x] = Cardinality(Own(c, x))
       /\ Cardinality(Own(c, x) \ {m}) = nlocked[c][x] - 1
       /\ nlocked[c][x] - 1 \in Nat
  <2>1. m \in Own(c, x) /\ nlocked[c][x] = Cardinality(Own(c, x))
    BY <1>2 DEF MutexOK, BooksOK, Own
  <2>2. /\ IsFiniteSet(Own(c, x) \ {m})
        /\ Cardinality(Own(c, x) \ {m}) = Cardinality(Own(c, x)) - 1
    BY <2>1, BusyFinite, FS_RemoveElement
  <2>3. Cardinality(Own(c, x) \ {m}) \in Nat
    BY <2>2, FS_CardinalityType
  <2> QED BY <2>1, <2>2, <2>3
<1>11. /\ nlocked' \in [{"PI", "PC"} -> [Tasks -> Nat]]
       /\ nlocked'[c][x] = nlocked[c][x] - 1
       /\ \A d \in {"PI", "PC"}, y \in Tasks :
            d # c \/ y # x => nlocked'[d][y] = nlocked[d][y]
  BY <1>1, <1>2, <1>10 DEF MutexTypeOK
<1>12. MutexTypeOK'
  <2>1. 1 - 1 \in 0 .. MaxDepth /\ <<>> \in Seq(Tasks)
    BY Numbers
  <2>2. /\ depth' \in [Tasks -> [Mutexes -> 0 .. MaxDepth]]
        /\ owner' \in [Mutexes -> Tasks \cup {NIL}]
        /\ blocked' \in [Mutexes -> Seq(Tasks)]
        /\ shadow' \in [Tasks -> Tasks]
    BY <1>1, <1>2, <1>3, <2>1 DEF MutexTypeOK
  <2> QED BY <1>1, <1>2, <1>4, <1>11, <2>2 DEF MutexTypeOK
<1>13. OwnersOK'
  BY <1>1, <1>2, <1>5, <1>6, Numbers DEF MutexOK, OwnersOK, Handed, Waits
<1>14. CountsOK'
  BY <1>1, <1>2, <1>5 DEF MutexOK, CountsOK, Waits
<1>15. RequestsOK'
  BY <1>1, <1>2, <1>5, <1>7 DEF MutexOK, RequestsOK, Handed, Lent
<1>16. NestingOK'
  BY <1>1, <1>2, <1>5 DEF MutexOK, NestingOK
<1>17. ListsOK'
  <2>1. \A k \in Mutexes : Distinct(blocked'[k])
    BY <1>5 DEF MutexOK, ListsOK, Distinct
  <2>2. \A y \in Tasks, k, j \in Mutexes : Queued(y, k)' /\ Queued(y, j)' => k = j
    BY <1>7 DEF MutexOK, ListsOK
  <2>3. ASSUME NEW y \in Tasks, NEW k \in Mutexes, Queued(y, k)'
        PROVE  /\ phase'[y] = "lock"
               /\ owner'[k] \notin {NIL, y}
               /\ class'[k] # "NPP"
               /\ Handed(k)' => arg'[y] = k /\ status'[y] = "NOP_WAIT"
               /\ Lent(k)' => shadow'[y] = owner'[k] /\ class'[arg'[y]] = class'[k]
               /\ class'[k] = "PI" => arg'[y] = k
               /\ class'[k] = "PC" => ceiling[k] <= priority[y]
    <3>1. Queued(y, k) /\ k # m /\ y \notin woken
      BY <1>7, <2>3
    <3>2. owner'[k] = owner[k] /\ shadow'[y] = shadow[y]
      BY <1>5, <3>1
    <3> QED BY <1>1, <3>1, <3>2 DEF MutexOK, ListsOK, Handed, Lent
  <2> QED BY <2>1, <2>2, <2>3 DEF ListsOK
<1>18. ShadowsOK'
  <2>1. ASSUME NEW y \in Tasks, shadow'[y] # y
        PROVE  status'[y] = "READY" /\ \E k \in Mutexes : Queued(y, k)' /\ Lent(k)'
    <3>1. shadow[y] # y /\ ~Queued(y, m)
      BY <1>5, <2>1 DEF Queued
    <3>2. PICK k \in Mutexes : status[y] = "READY" /\ Queued(y, k) /\ Lent(k)
      BY <3>1 DEF MutexOK, ShadowsOK
    <3> QED BY <1>1, <1>7, <3>1, <3>2 DEF Lent
  <2> QED BY <1>1, <2>1 DEF MutexOK, ShadowsOK
<1>19. ExecOK'
  BY <1>1, <1>2, <1>3, <1>5 DEF ExecOK
<1>20. NppOK'
  BY <1>1, <1>2, <1>5 DEF MutexOK, NppOK
<1>21. BooksOK'
  <2>1. ASSUME NEW d \in {"PI", "PC"}, NEW y \in Tasks
        PROVE  nlocked'[d][y] = Cardinality(Own(d, y)')
    <3>1. nlocked[d][y] = Cardinality(Own(d, y))
      BY DEF MutexOK, BooksOK
    <3>2. CASE d = c /\ y = x
      BY <1>8, <1>10, <1>11, <3>2
    <3>3. CASE ~(d = c /\ y = x)
      BY <1>8, <1>11, <3>1, <3>3
    <3> QED BY <3>2, <3>3
  <2> QED BY <1>1, <1>9, <2>1 DEF MutexOK, BooksOK
<1>22. ListOK'
  BY <1>4, <1>9 DEF ListOK
<1>23. CeilingsOK'
  BY <1>1, <1>2, <1>5 DEF MutexOK, CeilingsOK
<1> QED
  BY <1>1, <1>12, <1>13, <1>14, <1>15, <1>16, <1>17, <1>18, <1>19, <1>20, <1>21,
     <1>22, <1>23 DEF MutexOK

\* One turn of the loops of PI_lock and PC_lock, the first or a later one.
LEMMA PITurnKeeps ==
  ASSUME SafeNesting, MutexOK, NEW x \in Tasks, NEW m \in Mutexes,
         exec_shadow = x, class[m] = "PI", owner[m] # x, ~nopreempt[x],
         phase[x] = "lock" => arg[x] = m,
         \A k \in Mutexes : depth[x][k] > 0 =>
           <<class[k], class[m]>> \in Nestable /\ k < m,
         PI_turn(x, m)
  PROVE  MutexOK'
<1>1. CASE owner[m] = NIL /\ TakeCounted(x, m)
  BY <1>1, TakeCountedKeeps DEF Lent
<1>2. CASE owner[m] # NIL /\ Inherit(x, m, m)
  BY <1>2, InheritKeeps DEF Lent
<1> QED BY <1>1, <1>2 DEF PI_turn

LEMMA PCTurnKeeps ==
  ASSUME SafeNesting, MutexOK, NEW x \in Tasks, NEW m \in Mutexes,
         exec_shadow = x, class[m] = "PC", owner[m] # x, ~nopreempt[x],
         ceiling[m] <= priority[x],
         phase[x] = "lock" => arg[x] = m,
         \A k \in Mutexes : depth[x][k] > 0 =>
           <<class[k], class[m]>> \in Nestable /\ (k < m \/ class[k] = "PC"),
         PC_turn(x, m)
  PROVE  MutexOK'
<1>1. CASE PC_accept(x) /\ TakeCounted(x, m)
  <2>1. priority[x] \in Nat /\ ceiling[m] \in Nat
    BY MutexAssumption DEF MutexAssumption
  <2>2. owner[m] = NIL
    BY <1>1, <2>1, AcceptMeans
  <2> QED BY <1>1, <2>2, TakeCountedKeeps DEF Lent
<1>2. CASE ~PC_accept(x) /\ Inherit(x, mlist[1], m)
  <2> DEFINE a == mlist[1]
  <2>1. /\ a \in Mutexes /\ class[a] = "PC" /\ owner[a] \notin {NIL, x}
        /\ ceiling[a] <= priority[x] /\ Inherit(x, a, m)
    BY <1>2, RefusedMeans
  <2> HIDE DEF a
  <2> QED BY <2>1, InheritKeeps DEF Lent
<1> QED BY <1>1, <1>2 DEF PC_turn

-----------------------------------------------------------------------------
(* The operations *)

LEMMA LockKeeps ==
  ASSUME SafeNesting, MutexOK, NEW x \in Tasks, NEW m \in Mutexes, mutex_lock(x, m)
  PROVE  MutexOK'
<1>1. Running(x, "user") /\ MayLock(x, m) /\ exec_shadow = x /\ phase[x] = "user"
  BY DEF mutex_lock, Running
<1>2. class[m] \in Classes
  BY DEF MutexOK, MutexTypeOK
<1>3. ASSUME Handed(m), NOP_lock(x, m) PROVE MutexOK'
  BY <1>1, <1>3, TakeNOPKeeps, BlockKeeps DEF NOP_lock
<1>4. CASE class[m] = "NOP"
  BY <1>3, <1>4 DEF mutex_lock, Handed
<1>5. CASE class[m] = "NOPM"
  <2>1. NOPM_lock(x, m) /\ Handed(m)
    BY <1>5 DEF mutex_lock, Handed
  <2> QED BY <1>1, <1>3, <1>5, <2>1, TakeNOPKeeps DEF NOPM_lock
<1>6. CASE class[m] = "NPP"
  BY <1>1, <1>6, NppLockKeeps DEF mutex_lock
<1>7. CASE class[m] = "PI"
  <2>1. PI_turn(x, m) /\ owner[m] # x
    BY <1>7 DEF mutex_lock, PI_lock
  <2>2. /\ ~nopreempt[x]
        /\ \A k \in Mutexes : depth[x][k] > 0 =>
             <<class[k], class[m]>> \in Nestable /\ k < m
    BY <1>1, <1>7, <2>1, MayAsk
  <2> QED BY <1>1, <1>7, <2>1, <2>2, PITurnKeeps
<1>8. CASE class[m] = "PC"
  <2>1. PC_turn(x, m) /\ owner[m] # x /\ ceiling[m] <= priority[x]
    BY <1>8 DEF mutex_lock, PC_lock
  <2>2. /\ ~nopreempt[x]
        /\ \A k \in Mutexes : depth[x][k] > 0 =>
             <<class[k], class[m]>> \in Nestable /\ (k < m \/ class[k] = "PC")
    BY <1>1, <1>8, <2>1, MayAsk
  <2> QED BY <1>1, <1>8, <2>1, <2>2, PCTurnKeeps
<1> QED BY <1>2, <1>4, <1>5, <1>6, <1>7, <1>8 DEF Classes

LEMMA TrylockKeeps ==
  ASSUME SafeNesting, MutexOK, NEW x \in Tasks, NEW m \in Mutexes, mutex_trylock(x, m)
  PROVE  MutexOK'
<1>1. Running(x, "user") /\ MayLock(x, m) /\ exec_shadow = x /\ phase[x] = "user"
  BY DEF mutex_trylock, Running
<1>2. class[m] \in Classes
  BY DEF MutexOK, MutexTypeOK
<1>3. CASE class[m] \in {"NOP", "NOPM"}
  <2>1. owner[m] = NIL /\ TakeNOP(x, m) /\ Handed(m)
    BY <1>3 DEF mutex_trylock, NOP_trylock, NOPM_trylock, Handed
  <2> QED BY <1>1, <2>1, TakeNOPKeeps
<1>4. CASE class[m] = "NPP"
  BY <1>1, <1>4, NppLockKeeps DEF mutex_trylock
<1>5. CASE class[m] = "PI"
  <2>1. owner[m] = NIL /\ TakeCounted(x, m) /\ Lent(m)
    BY <1>5 DEF mutex_trylock, PI_trylock, Lent
  <2> QED BY <1>1, <1>5, <2>1, TakeCountedKeeps
<1>6. CASE class[m] = "PC"
  <2>1. /\ owner[m] # x /\ PC_accept(x) /\ ceiling[m] <= priority[x]
        /\ TakeCounted(x, m) /\ Lent(m)
    BY <1>6 DEF mutex_trylock, PC_trylock, Lent
  <2>2. priority[x] \in Nat /\ ceiling[m] \in Nat
    BY MutexAssumption DEF MutexAssumption
  <2>3. owner[m] = NIL
    BY <1>6, <2>1, <2>2, AcceptMeans
  <2> QED BY <1>1, <2>1, <2>3, TakeCountedKeeps
<1> QED BY <1>2, <1>3, <1>4, <1>5, <1>6 DEF Classes

LEMMA LockResumeKeeps ==
  ASSUME SafeNesting, MutexOK, NEW x \in Tasks, lock_resume(x)
  PROVE  MutexOK'
<1> DEFINE m == arg[x]
<1>1. /\ Running(x, "lock") /\ exec_shadow = x /\ phase[x] = "lock"
  BY DEF lock_resume, Running
<1>2. m \in Mutexes /\ class[m] \in Classes \ {"NPP"}
  BY <1>1 DEF MutexOK, MutexTypeOK, RequestsOK
<1>3. ~nopreempt[x]
  BY <1>1, NonPreemptive
<1>4. \A k \in Mutexes : depth[x][k] > 0 =>
        /\ <<class[k], class[m]>> \in Nestable
        /\ k < m \/ (class[k] = "PC" /\ class[m] = "PC")
  BY <1>1 DEF MutexOK, NestingOK
<1>5. CASE class[m] = "PI"
  <2>1. PI_turn(x, m) /\ owner[m] # x
    BY <1>1, <1>5 DEF lock_resume, MutexOK, RequestsOK, Lent
  <2>2. \A k \in Mutexes : depth[x][k] > 0 =>
          <<class[k], class[m]>> \in Nestable /\ k < m
    BY <1>4, <1>5
  <2> QED BY <1>1, <1>2, <1>3, <1>5, <2>1, <2>2, PITurnKeeps
<1>6. CASE class[m] = "PC"
  <2>1. PC_turn(x, m) /\ owner[m] # x /\ ceiling[m] <= priority[x]
    BY <1>1, <1>6 DEF lock_resume, MutexOK, RequestsOK, Lent
  <2>2. \A k \in Mutexes : depth[x][k] > 0 =>
          <<class[k], class[m]>> \in Nestable /\ (k < m \/ class[k] = "PC")
    BY <1>4
  <2> QED BY <1>1, <1>2, <1>3, <1>6, <2>1, <2>2, PCTurnKeeps
<1>7. CASE class[m] \in {"NOP", "NOPM"}
  <2>1. /\ Gain(x, arg[x]) /\ Return(x) /\ Handed(arg[x])
        /\ UNCHANGED <<class, levelVars, taskVars, exec_shadow, raised>>
    BY <1>7 DEF lock_resume, Handed
  <2> QED BY <1>1, <2>1, ResumeKeeps
<1> QED BY <1>2, <1>5, <1>6, <1>7 DEF Classes

LEMMA UnlockKeeps ==
  ASSUME SafeNesting, MutexOK, NEW x \in Tasks, NEW m \in Mutexes, mutex_unlock(x, m)
  PROVE  MutexOK'
<1>1. /\ Running(x, "user") /\ Holds(x, m) /\ Lose(x, m)
      /\ class' = class /\ exec_shadow' = exec_shadow /\ phase' = phase
      /\ arg' = arg /\ raised' = raised
  BY DEF mutex_unlock, Unlock
<1>2. class[m] \in Classes
  BY DEF MutexOK, MutexTypeOK
<1>3. CASE class[m] = "NOP"
  <2>1. NOP_unlock(x, m) /\ Handed(m) /\ class[m] # "NOPM"
    BY <1>3 DEF mutex_unlock, Unlock, Handed
  <2> QED BY <1>1, <2>1, HandOffKeeps DEF NOP_unlock
<1>4. CASE class[m] = "NOPM"
  <2>1. NOPM_unlock(x, m) /\ Handed(m) /\ owner[m] = x
    BY <1>4 DEF mutex_unlock, Unlock, Handed, NOPM_unlock
  <2>2. CASE counter[m] > 1
    BY <1>1, <1>4, <2>1, <2>2, CountDownKeeps DEF NOPM_unlock
  <2>3. CASE ~(counter[m] > 1)
    BY <1>1, <2>1, <2>3, HandOffKeeps DEF NOPM_unlock
  <2> QED BY <2>2, <2>3
<1>5. CASE class[m] = "NPP"
  BY <1>1, <1>5, NppUnlockKeeps DEF mutex_unlock, Unlock
<1>6. CASE class[m] = "PI"
  <2>1. PI_unlock(x, m) /\ Lent(m) /\ class[m] # "PC"
    BY <1>6 DEF mutex_unlock, Unlock, Lent
  <2> QED BY <1>1, <2>1, ReleaseAllKeeps DEF PI_unlock
<1>7. CASE class[m] = "PC"
  <2>1. PC_unlock(x, m) /\ Lent(m)
    BY <1>7 DEF mutex_unlock, Unlock, Lent
  <2> QED BY <1>1, <1>7, <2>1, ReleaseAllKeeps DEF PC_unlock
<1> QED BY <1>2, <1>3, <1>4, <1>5, <1>6, <1>7 DEF Classes

\* A task that ends holds nothing, so no level and no shadow knows it.
LEMMA TaskEndKeeps ==
  ASSUME SafeNesting, MutexOK, NEW x \in Tasks, task_end(x)
  PROVE  MutexOK'
<1>1. /\ phase[x] = "user" /\ exec_shadow = x /\ x # NIL /\ NIL \notin Tasks
      /\ status' = [status EXCEPT ![x] = "FREE"] /\ exec_shadow' = NIL
      /\ class' = class /\ owner' = owner /\ counter' = counter /\ blocked' = blocked
      /\ nlocked' = nlocked /\ nppLocked' = nppLocked /\ mlist' = mlist
      /\ shadow' = shadow /\ nopreempt' = nopreempt /\ phase' = phase
      /\ arg' = arg /\ depth' = depth
  BY MutexAssumption DEF MutexAssumption, task_end, Running, levelVars, callVars
<1>2. MutexTypeOK /\ status[x] = "READY" /\ shadow[x] = x /\ \A k \in Mutexes : ~Queued(x, k)
  BY <1>1, RunsFree DEF MutexOK
<1>3. \A m \in Mutexes : owner[m] # x
  BY <1>1 DEF MutexOK, OwnersOK, Waits, task_end, Holds
<1>4. \A p \in Tasks \ {x} : shadow[p] # x
  BY <1>3 DEF MutexOK, ShadowsOK, ListsOK
<1>5. \A c \in {"PI", "PC"} : nlocked[c][x] = 0
  <2>1. \A c : Own(c, x) = {}
    BY <1>3 DEF Own
  <2> QED BY <2>1, FS_EmptySet DEF MutexOK, BooksOK
<1>6. nppLocked = 0
  <2>1. Busy("NPP") = {}
    BY <1>1, <1>3, NppOwner DEF Busy
  <2> QED BY <2>1, FS_EmptySet DEF MutexOK, BooksOK
<1>7. raised' = FALSE
  BY <1>4, <1>5, <1>6 DEF task_end
<1>8. status'[x] = "FREE" /\ \A y \in Tasks \ {x} : status'[y] = status[y]
  BY <1>1, <1>2 DEF MutexTypeOK
<1>9. MutexTypeOK'
  BY <1>1, <1>2, <1>7 DEF MutexTypeOK
<1>10. OwnersOK' /\ CountsOK'
  BY <1>1, <1>3, <1>8 DEF MutexOK, OwnersOK, CountsOK, Handed, Waits
<1>11. RequestsOK' /\ NestingOK'
  BY <1>1, <1>8 DEF MutexOK, RequestsOK, NestingOK, Handed, Lent, Queued
<1>12. ListsOK'
  BY <1>1, <1>2, <1>8 DEF MutexOK, ListsOK, Handed, Lent, Queued
<1>13. ShadowsOK' /\ ExecOK'
  BY <1>1, <1>2, <1>8 DEF MutexOK, ShadowsOK, ExecOK, Lent, Queued
<1>14. NppOK'
  BY <1>1, <1>3 DEF MutexOK, NppOK
<1>15. BooksOK' /\ ListOK' /\ CeilingsOK'
  BY <1>1 DEF MutexOK, BooksOK, ListOK, CeilingsOK, Busy, Own
<1> QED
  BY <1>7, <1>9, <1>10, <1>11, <1>12, <1>13, <1>14, <1>15 DEF MutexOK

\* The end of the shadow chain of a ready task is ready: it is that task, or the
\* owner of a mutex that lends.
LEMMA ChainEndIsReady ==
  ASSUME SafeNesting, MutexOK, NEW p \in Tasks, status[p] = "READY", NEW e \in ChainEnds(p)
  PROVE  e \in Tasks /\ status[e] = "READY" /\ shadow[e] = e
<1>1. e \in Tasks /\ shadow[e] = e
  BY DEF ChainEnds, ChainFrom
<1>2. CASE e = p
  BY <1>1, <1>2
<1>3. CASE e # p
  <2> DEFINE C == Tasks \ {e}
  <2>1. C \in SUBSET Tasks /\ p \in C /\ e \notin C
    BY <1>3
  <2>2. ~(\A q \in C : shadow[q] \in C)
    BY <2>1 DEF ChainEnds, ChainFrom
  <2>3. PICK q \in C : shadow[q] \notin C
    BY <2>2
  <2>4. q \in Tasks /\ q # e /\ shadow[q] = e
    BY <2>3 DEF MutexOK, MutexTypeOK
  <2>5. PICK m \in Mutexes : Queued(q, m) /\ Lent(m)
    BY <2>4 DEF MutexOK, ShadowsOK
  <2>6. owner[m] = e
    BY <2>4, <2>5 DEF MutexOK, ListsOK
  <2>7. ~Handed(m)
    BY <2>5 DEF Handed, Lent
  <2> QED BY <1>1, <2>6, <2>7, OwnerIsReady
<1> QED BY <1>2, <1>3

LEMMA SchedulerKeeps ==
  ASSUME SafeNesting, MutexOK, NEW p \in Tasks, scheduler(p)
  PROVE  MutexOK'
<1>1. /\ class' = class /\ owner' = owner /\ counter' = counter /\ blocked' = blocked
      /\ nlocked' = nlocked /\ nppLocked' = nppLocked /\ mlist' = mlist
      /\ shadow' = shadow /\ status' = status /\ nopreempt' = nopreempt
      /\ phase' = phase /\ arg' = arg /\ depth' = depth /\ raised' = raised
      /\ status[p] = "READY" /\ exec_shadow' \in ChainEnds(p)
  BY DEF scheduler, levelVars, taskVars, callVars
<1>2. exec_shadow' \in Tasks /\ status[exec_shadow'] = "READY"
      /\ shadow[exec_shadow'] = exec_shadow'
  BY <1>1, ChainEndIsReady
<1>3. \A x \in Tasks : ~nopreempt[x]
  BY MutexAssumption DEF scheduler, MutexOK, NppOK, MutexAssumption
<1>4. MutexTypeOK'
  BY <1>1, <1>2 DEF MutexOK, MutexTypeOK
<1>5. ExecOK' /\ NppOK'
  BY <1>1, <1>2, <1>3 DEF MutexOK, ExecOK, NppOK
<1>6. /\ OwnersOK' /\ CountsOK' /\ RequestsOK' /\ NestingOK' /\ ListsOK' /\ ShadowsOK'
      /\ BooksOK' /\ ListOK' /\ CeilingsOK'
  BY <1>1 DEF MutexOK, OwnersOK, CountsOK, RequestsOK, NestingOK, ListsOK, ShadowsOK,
              BooksOK, ListOK, CeilingsOK, Handed, Lent, Queued, Waits, Busy, Own
<1> QED BY <1>1, <1>4, <1>5, <1>6 DEF MutexOK

-----------------------------------------------------------------------------
(* The invariant of the specification *)

LEMMA MutexStarts ==
  ASSUME MutexInit
  PROVE  MutexOK
<1>1. /\ class \in [Mutexes -> Classes] /\ owner = [m \in Mutexes |-> NIL]
      /\ counter = [m \in Mutexes |-> 0] /\ blocked = [m \in Mutexes |-> <<>>]
      /\ nlocked = [c \in {"PI", "PC"} |-> [x \in Tasks |-> 0]] /\ nppLocked = 0
      /\ mlist = <<>> /\ shadow = [x \in Tasks |-> x]
      /\ status = [x \in Tasks |-> "READY"] /\ nopreempt = [x \in Tasks |-> FALSE]
      /\ exec_shadow = NIL /\ phase = [x \in Tasks |-> "user"]
      /\ arg = [x \in Tasks |-> NIL]
      /\ depth = [x \in Tasks |-> [m \in Mutexes |-> 0]] /\ raised = FALSE
  BY MutexAssumption DEF MutexInit, MutexAssumption
<1>2. NIL \notin Tasks /\ MaxDepth \in Nat \ {0}
  BY MutexAssumption DEF MutexAssumption
<1>3. 0 \in 0 .. MaxDepth /\ 0 \in Nat
  BY <1>2
<1>4. MutexTypeOK
  <2>1. /\ nlocked \in [{"PI", "PC"} -> [Tasks -> Nat]]
        /\ depth \in [Tasks -> [Mutexes -> 0 .. MaxDepth]]
        /\ counter \in [Mutexes -> 0 .. MaxDepth]
    BY <1>1, <1>3
  <2>2. /\ blocked \in [Mutexes -> Seq(Tasks)] /\ mlist \in Seq(Mutexes)
        /\ owner \in [Mutexes -> Tasks \cup {NIL}]
    BY <1>1
  <2>3. /\ status \in [Tasks -> {"READY", "NOP_WAIT", "FREE"}]
        /\ phase \in [Tasks -> {"user", "lock"}]
        /\ arg \in [Tasks -> Mutexes \cup {NIL}]
        /\ nopreempt \in [Tasks -> BOOLEAN] /\ shadow \in [Tasks -> Tasks]
    BY <1>1
  <2> QED BY <1>1, <2>1, <2>2, <2>3 DEF MutexTypeOK
<1>5. \A x \in Tasks, m \in Mutexes : ~Queued(x, m)
  BY <1>1 DEF Queued, Members
<1>6. \A x \in Tasks, m \in Mutexes :
        owner[m] # x /\ depth[x][m] = 0 /\ phase[x] = "user" /\ owner[m] = NIL
  BY <1>1, <1>2
<1>7. OwnersOK /\ CountsOK
  BY <1>1, <1>6 DEF OwnersOK, CountsOK
<1>8. RequestsOK /\ NestingOK
  BY <1>1 DEF RequestsOK, NestingOK
<1>9. ListsOK
  <2>1. \A m \in Mutexes : Distinct(blocked[m])
    BY <1>1 DEF Distinct
  <2> QED BY <1>5, <2>1 DEF ListsOK
<1>10. ShadowsOK /\ ExecOK /\ NppOK
  BY <1>1, <1>6 DEF ShadowsOK, ExecOK, NppOK
<1>11. \A c : Busy(c) = {}
  BY <1>1 DEF Busy
<1>12. \A c : \A x \in Tasks : Own(c, x) = {}
  BY <1>6 DEF Own
<1>13. BooksOK
  <2>1. Cardinality({}) = 0
    BY FS_EmptySet
  <2>2. \A c \in {"PI", "PC"}, x \in Tasks : nlocked[c][x] = 0
    BY <1>1
  <2> QED BY <1>1, <1>11, <1>12, <2>1, <2>2 DEF BooksOK
<1>14. ListOK
  BY <1>1, <1>11 DEF ListOK, Distinct, InOrder, Members
<1>15. CeilingsOK
  BY <1>6 DEF CeilingsOK
<1> QED
  BY <1>1, <1>4, <1>7, <1>8, <1>9, <1>10, <1>13, <1>14, <1>15 DEF MutexOK

LEMMA MutexOKIsInductive ==
  ASSUME SafeNesting, MutexOK, [MutexStep]_mutexVars
  PROVE  MutexOK'
<1>1. CASE UNCHANGED mutexVars
  BY <1>1 DEF mutexVars, levelVars, taskVars, callVars, MutexOK, MutexTypeOK, OwnersOK,
       CountsOK, RequestsOK, NestingOK, ListsOK, ShadowsOK, ExecOK, NppOK, BooksOK,
       ListOK, CeilingsOK, Handed, Lent, Queued, Waits, Busy, Own
<1>2. CASE MutexStep
  <2>1. PICK x \in Tasks :
          \/ scheduler(x)
          \/ \E m \in Mutexes :
               mutex_lock(x, m) \/ mutex_trylock(x, m) \/ mutex_unlock(x, m)
          \/ lock_resume(x)
          \/ task_end(x)
    BY <1>2 DEF MutexStep
  <2> QED
    BY <2>1, SchedulerKeeps, LockKeeps, TrylockKeeps, UnlockKeeps, LockResumeKeeps,
       TaskEndKeeps
<1> QED BY <1>1, <1>2

LEMMA MutexInvariant ==
  ASSUME SafeNesting
  PROVE  MutexSpec => []MutexOK
<1>1. MutexInit => MutexOK
  BY MutexStarts
<1>2. MutexOK /\ [MutexStep]_mutexVars => MutexOK'
  BY MutexOKIsInductive
<1> QED BY <1>1, <1>2, PTL DEF MutexSpec

\* Mutual exclusion, whatever the classes and whatever the tasks do in between:
\* only the owner of a mutex has locked it.
THEOREM MutexesExclude ==
  ASSUME SafeNesting
  PROVE  MutexSpec => []MutualExclusion
<1>1. MutexOK => MutualExclusion
  BY DEF MutexOK, OwnersOK, MutualExclusion, Holds
<1> QED BY <1>1, MutexInvariant, PTL

\* The lists of waiting tasks are exact: no wake-up is lost.
THEOREM WaitersAreLinked ==
  ASSUME SafeNesting
  PROVE  MutexSpec => []WaitersLinked
<1>1. ASSUME MutexOK PROVE WaitersLinked
  <2>1. MutexTypeOK /\ \A m \in Mutexes : class[m] \in Classes /\ Distinct(blocked[m])
    BY <1>1 DEF MutexOK, MutexTypeOK, ListsOK
  <2>2. ASSUME NEW x \in Tasks
        PROVE  LET lists == {m \in Mutexes : x \in Members(blocked[m])}
               IN  /\ shadow[x] # x \/ status[x] = "NOP_WAIT" => Cardinality(lists) = 1
                   /\ shadow[x] = x /\ status[x] # "NOP_WAIT" => lists = {}
                   /\ \A m \in lists :
                        /\ Distinct(blocked[m])
                        /\ owner[m] \notin {NIL, x}
                        /\ class[m] \in {"PI", "PC"} => shadow[x] = owner[m]
    <3> DEFINE lists == {m \in Mutexes : x \in Members(blocked[m])}
    <3>1. \A m \in lists :
            /\ owner[m] \notin {NIL, x}
            /\ class[m] \in {"PI", "PC"} => shadow[x] = owner[m]
            /\ class[m] \notin {"PI", "PC"} => status[x] = "NOP_WAIT"
      <4>1. ASSUME NEW m \in lists
            PROVE  /\ owner[m] \notin {NIL, x}
                   /\ class[m] \in {"PI", "PC"} => shadow[x] = owner[m]
                   /\ class[m] \notin {"PI", "PC"} => status[x] = "NOP_WAIT"
        <5>1. m \in Mutexes /\ Queued(x, m) /\ class[m] \in Classes
          BY <2>1, <4>1 DEF Queued
        <5> QED BY <1>1, <5>1 DEF MutexOK, ListsOK, Lent, Handed, Classes
      <4> QED BY <4>1
    <3>2. \A m, k \in lists : m = k
      BY <1>1 DEF MutexOK, ListsOK, Queued
    <3>3. ASSUME shadow[x] # x \/ status[x] = "NOP_WAIT" PROVE lists # {}
      <4>1. CASE shadow[x] # x
        BY <1>1, <4>1 DEF MutexOK, ShadowsOK, Queued
      <4>2. CASE status[x] = "NOP_WAIT"
        <5>1. phase[x] = "lock"
          BY <1>1, <4>2 DEF MutexOK, ShadowsOK
        <5>2. arg[x] \in Mutexes /\ Queued(x, arg[x])
          BY <1>1, <2>1, <4>2, <5>1 DEF MutexOK, RequestsOK, Lent, Handed, Classes
        <5> QED BY <5>2 DEF Queued
      <4> QED BY <3>3, <4>1, <4>2
    <3>4. ASSUME lists # {} PROVE Cardinality(lists) = 1
      <4>1. PICK m \in lists : TRUE
        BY <3>4
      <4>2. lists = {m}
        BY <3>2, <4>1
      <4> QED BY <4>2, FS_Singleton
    <3>5. shadow[x] = x /\ status[x] # "NOP_WAIT" => lists = {}
      BY <3>1
    <3>6. \A m \in lists : Distinct(blocked[m])
      BY <2>1
    <3> HIDE DEF lists
    <3>7. /\ shadow[x] # x \/ status[x] = "NOP_WAIT" => Cardinality(lists) = 1
          /\ shadow[x] = x /\ status[x] # "NOP_WAIT" => lists = {}
          /\ \A m \in lists :
               /\ Distinct(blocked[m])
               /\ owner[m] \notin {NIL, x}
               /\ class[m] \in {"PI", "PC"} => shadow[x] = owner[m]
      BY <3>1, <3>3, <3>4, <3>5, <3>6
    <3> QED BY <3>7 DEF lists
  <2> QED BY <2>1, <2>2 DEF WaitersLinked
<1> QED BY <1>1, MutexInvariant, PTL

\* The shadow chain that scheduler() follows never ends at a task out of the
\* ready queues.
THEOREM RunsReadyTasks ==
  ASSUME SafeNesting
  PROVE  MutexSpec => []ExecIsReady
<1>1. MutexOK => ExecIsReady
  BY DEF MutexOK, ExecOK, ExecIsReady
<1> QED BY <1>1, MutexInvariant, PTL

\* The res_detach of the levels and task_makefree find nothing to complain of.
THEOREM BooksAreRight ==
  ASSUME SafeNesting
  PROVE  MutexSpec => []NeverRaised
<1>1. MutexOK => NeverRaised
  BY DEF MutexOK, NeverRaised
<1> QED BY <1>1, MutexInvariant, PTL

-----------------------------------------------------------------------------
(* No deadlock *)

\* If the owner y of the mutex m that x waits for waits too, in the list of k,
\* it had locked m when it asked: the nesting of m and k is allowed, in order.
LEMMA WaitingOwner ==
  ASSUME SafeNesting, CeilingsFirst, MutexOK,
         NEW x \in Tasks, NEW y \in Tasks, NEW m \in Mutexes, NEW k \in Mutexes,
         Queued(x, m), owner[m] = y, Queued(y, k)
  PROVE  /\ class[k] # "PC" => m < k
         /\ class[k] = "PC" => class[m] = "PC"
<1>1. /\ phase[y] = "lock" /\ class[arg[y]] = class[k] /\ class[k] \in Classes
      /\ class[k] # "PC" => arg[y] = k
  <2>1. class[k] \in Classes
    BY DEF MutexOK, MutexTypeOK
  <2> QED BY <2>1 DEF MutexOK, ListsOK, Handed, Lent, Classes
<1>2. depth[y][m] > 0
  <2>1. ASSUME Waits(y, m), Handed(m) PROVE FALSE
    <3>1. Handed(k) /\ status[y] = "NOP_WAIT"
      BY <1>1, <2>1 DEF MutexOK, ListsOK, Waits, Handed
    <3>2. Queued(y, m)
      BY <2>1, <3>1 DEF MutexOK, RequestsOK, Waits
    <3> QED BY <3>2 DEF MutexOK, ListsOK
  <2> QED BY <2>1 DEF MutexOK, OwnersOK
<1>3. /\ <<class[m], class[arg[y]]>> \in Nestable
      /\ m < arg[y] \/ (class[m] = "PC" /\ class[arg[y]] = "PC")
  BY <1>1, <1>2 DEF MutexOK, NestingOK
<1>4. class[k] = "PC" => class[m] = "PC"
  <2> DEFINE n == <<class[m], class[arg[y]]>>
  <2>1. n \in Nestable /\ n[1] = class[m] /\ n[2] = class[k]
    BY <1>1, <1>3
  <2> HIDE DEF n
  <2> QED BY <2>1 DEF CeilingsFirst
<1> QED BY <1>1, <1>3, <1>4

\* No ring of waiting tasks and owners, whatever classes it would go through.  In
\* a ring with a mutex of another class than PC, the numbers of the mutexes would
\* rise all the way round from there; in a ring of PC mutexes, each owner would be
\* more urgent than the one that waits for it.
THEOREM NoDeadlock ==
  ASSUME SafeNesting, CeilingsFirst
  PROVE  MutexSpec => []NoWaitCycle
<1>1. ASSUME MutexOK PROVE NoWaitCycle
  <2>1. SUFFICES ASSUME NEW C \in (SUBSET Tasks) \ {{}},
                        \A x \in C : \E m \in Mutexes :
                          Queued(x, m) /\ owner[m] \in C
                 PROVE  FALSE
    BY DEF NoWaitCycle, Queued
  <2> DEFINE W == {m \in Mutexes : \E x \in C : Queued(x, m) /\ owner[m] \in C}
             U == {m \in W : class[m] # "PC"}
             P == {priority[owner[m]] : m \in W}
  <2>2. \A m \in W : \E k \in W : Queued(owner[m], k) /\ owner[k] \in C
    BY <2>1
  <2>3. U = {}
    <3>1. SUFFICES ASSUME U # {} PROVE FALSE
      OBVIOUS
    <3>2. U \in SUBSET Nat /\ IsFiniteSet(U)
      BY FS_Subset, MutexAssumption DEF MutexAssumption
    <3>3. PICK m \in U : \A k \in U : k <= m
      BY <3>1, <3>2, GreatestElement
    <3>4. PICK x \in C : Queued(x, m) /\ owner[m] \in C
      BY <3>3
    <3>5. PICK k \in W : Queued(owner[m], k)
      BY <2>2, <3>3
    <3>6. /\ class[k] # "PC" => m < k
          /\ class[k] = "PC" => class[m] = "PC"
      <4>1. x \in Tasks /\ owner[m] \in Tasks /\ m \in Mutexes /\ k \in Mutexes
        BY <3>3, <3>4, <3>5
      <4> HIDE DEF U, W
      <4> QED BY <1>1, <3>4, <3>5, <4>1, WaitingOwner
    <3>7. class[k] # "PC" /\ m < k /\ k \in U /\ m \in Nat /\ k \in Nat
      BY <3>2, <3>3, <3>5, <3>6
    <3> QED BY <3>3, <3>7
  <2>4. P \in SUBSET Nat /\ P # {}
    <3>1. W # {}
      BY <2>1
    <3>2. \A m \in W : priority[owner[m]] \in Nat
      BY MutexAssumption DEF MutexAssumption
    <3> QED BY <3>1, <3>2
  <2>5. PICK p \in P : \A q \in P : p <= q
    BY <2>4, LeastElement
  <2>6. PICK m \in W : p = priority[owner[m]]
    BY <2>5
  <2>7. PICK k \in W : Queued(owner[m], k) /\ owner[k] \in C
    BY <2>2, <2>6
  <2>8. /\ m \in Mutexes /\ k \in Mutexes /\ owner[m] \in Tasks /\ owner[k] \in Tasks
        /\ class[m] = "PC" /\ class[k] = "PC" /\ priority[owner[k]] \in P
    BY <2>3, <2>6, <2>7
  <2> DEFINE y == owner[m]
             z == owner[k]
  <2>9. p = priority[y] /\ p <= priority[z]
    BY <2>5, <2>6, <2>8
  <2> HIDE DEF W, U, P
  <2>10. y # z /\ ceiling[k] <= priority[y] /\ ceiling[m] <= priority[y]
    BY <1>1, <2>7, <2>8 DEF MutexOK, ListsOK, CeilingsOK
  <2>11. priority[z] < ceiling[m] \/ priority[y] < ceiling[k]
    BY <1>1, <2>8, <2>10 DEF MutexOK, CeilingsOK
  <2> HIDE DEF y, z
  <2>12. /\ priority[y] \in Nat /\ priority[z] \in Nat
         /\ ceiling[m] \in Nat /\ ceiling[k] \in Nat
    BY <2>8, MutexAssumption DEF MutexAssumption, y, z
  <2> QED BY <2>9, <2>10, <2>11, <2>12
<1> QED BY <1>1, MutexInvariant, PTL
=============================================================================
