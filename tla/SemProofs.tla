----------------------------- MODULE SemProofs -----------------------------
(* Theorems about the semaphores of Sem, for any tasks, semaphores, sizes  *)
(* of requests and initial counters.                                       *)
EXTENDS Sem, IqueueOpsProofs

\* Types and queues are inductive together: that a waiting task is in the
\* queue it is extracted from is what keeps the queue a queue.
Consistent == TypeOK /\ QueueConsistent

-----------------------------------------------------------------------------
(* One lemma for each operator that several actions share *)

LEMMA DieConsistent ==
  ASSUME Consistent, NEW t \in Tasks, status[t] = "READY", Die(t)
  PROVE  Consistent'
BY DEF Consistent, TypeOK, QueueConsistent, Die, cancelVars

LEMMA TakeConsistent ==
  ASSUME Consistent, NEW s \in Sems, NEW n \in Nat \ {0},
         count[s] >= n, Take(s, n),
         UNCHANGED <<blocked, granted, decsem, sem, status, cancelVars>>,
         phase' \in [Tasks -> {"user", "entry", "wait"}],
         \A t \in Tasks : status[t] = "WAIT_SEM" => phase'[t] = phase[t]
  PROVE  Consistent'
<1>1. count[s] \in Nat /\ credit[s] \in Nat
  BY DEF Consistent, TypeOK
<1>2. count[s] - n \in Nat /\ credit[s] + n \in Nat
  BY <1>1
<1>3. count' \in [Sems -> Nat] /\ credit' \in [Sems -> Nat]
  BY <1>2 DEF Consistent, TypeOK, Take
<1>4. UNCHANGED <<blocked, granted, decsem, sem, status, killreq, enabled>>
  BY DEF cancelVars
<1>5. TypeOK'
  BY <1>3, <1>4 DEF Consistent, TypeOK
<1>6. QueueConsistent'
  BY <1>4 DEF Consistent, TypeOK, QueueConsistent
<1> QED
  BY <1>5, <1>6 DEF Consistent

LEMMA TakeOrBlockConsistent ==
  ASSUME Consistent, NEW t \in Tasks, NEW s \in Sems, NEW n \in Nat \ {0},
         status[t] = "READY", TakeOrBlock(t, s, n)
  PROVE  Consistent'
<1>1. CASE Available(s, n)
  <2>1. /\ count[s] >= n
        /\ Take(s, n)
        /\ phase' = [phase EXCEPT ![t] = "user"]
        /\ UNCHANGED <<blocked, granted, decsem, sem, status, cancelVars>>
    BY <1>1 DEF TakeOrBlock, Available
  <2>2. /\ phase' \in [Tasks -> {"user", "entry", "wait"}]
        /\ \A u \in Tasks : status[u] = "WAIT_SEM" => phase'[u] = phase[u]
    BY <2>1 DEF Consistent, TypeOK
  <2> QED
    BY <2>1, <2>2, TakeConsistent
<1>2. CASE ~Available(s, n)
  <2> DEFINE q == blocked[s]
  <2>1. q \in Seq(Tasks) /\ Distinct(q) /\ t \notin Members(q)
    BY DEF Consistent, TypeOK, QueueConsistent
  <2>2. /\ InsertLast(t, q) \in Seq(Tasks)
        /\ Distinct(InsertLast(t, q))
        /\ Members(InsertLast(t, q)) = Members(q) \cup {t}
    BY <2>1, InsertLastProperties
  <2>3. /\ blocked' = [blocked EXCEPT ![s] = InsertLast(t, q)]
        /\ status' = [status EXCEPT ![t] = "WAIT_SEM"]
        /\ decsem' = [decsem EXCEPT ![t] = n]
        /\ sem' = [sem EXCEPT ![t] = s]
        /\ phase' = [phase EXCEPT ![t] = "wait"]
        /\ UNCHANGED <<count, granted, credit, killreq, enabled>>
    BY <1>2 DEF TakeOrBlock, cancelVars
  <2>4. TypeOK'
    BY <2>2, <2>3 DEF Consistent, TypeOK
  <2>5. QueueConsistent'
    BY SMTT(30), <2>2, <2>3 DEF Consistent, TypeOK, QueueConsistent
  <2> QED
    BY <2>4, <2>5 DEF Consistent
<1> QED
  BY <1>1, <1>2

LEMMA WakeConsistent ==
  ASSUME Consistent, NEW s \in Sems, NEW k \in 0 .. Len(blocked[s]),
         NEW left \in Nat, Wake(s, k, left),
         credit' \in [Sems -> Nat], UNCHANGED <<callVars, cancelVars>>
  PROVE  Consistent'
<1> DEFINE q == blocked[s]
           woken == {q[i] : i \in 1 .. k}
<1>1. q \in Seq(Tasks) /\ Distinct(q)
  BY DEF Consistent, TypeOK, QueueConsistent
<1>2. /\ DropFirst(k, q) \in Seq(Tasks)
      /\ Distinct(DropFirst(k, q))
      /\ Members(DropFirst(k, q)) = Members(q) \ woken
  <2>1. k \in 0 .. Len(q)
    OBVIOUS
  <2> HIDE DEF q
  <2> QED BY <1>1, <2>1, DropFirstProperties
<1>3. woken \subseteq Members(q)
  <2>1. Len(q) \in Nat
    BY <1>1
  <2>2. \A i \in 1 .. k : i \in 1 .. Len(q)
    BY <2>1
  <2> HIDE DEF q
  <2> QED BY <2>2 DEF Members
<1>4. /\ count' = [count EXCEPT ![s] = left]
      /\ blocked' = [blocked EXCEPT ![s] = DropFirst(k, q)]
      /\ status' = [t \in Tasks |-> IF t \in woken THEN "READY" ELSE status[t]]
      /\ granted' = [t \in Tasks |->
                       IF t \in woken THEN decsem[t] ELSE granted[t]]
      /\ UNCHANGED <<decsem, sem, phase, killreq, enabled>>
  BY DEF Wake, callVars, cancelVars
<1> HIDE DEF woken
<1>5. TypeOK'
  BY <1>2, <1>4 DEF Consistent, TypeOK
<1>6. QueueConsistent'
  <2>1. \A r \in Sems : Distinct(blocked'[r])
    BY <1>2, <1>4 DEF Consistent, TypeOK, QueueConsistent
  <2>2. ASSUME NEW t \in Tasks, NEW r \in Sems
        PROVE  t \in Members(blocked'[r])
                 <=> status'[t] = "WAIT_SEM" /\ sem'[t] = r
    BY SMTT(30), <1>2, <1>3, <1>4 DEF Consistent, TypeOK, QueueConsistent
  <2>3. \A t \in Tasks : status'[t] = "WAIT_SEM" => phase'[t] = "wait"
    BY <1>4 DEF Consistent, TypeOK, QueueConsistent
  <2> QED
    BY <2>1, <2>2, <2>3 DEF QueueConsistent
<1> QED
  BY <1>5, <1>6 DEF Consistent

LEMMA KillConsistent ==
  ASSUME Consistent, NEW u \in Tasks, NEW t \in Tasks, task_kill(u, t)
  PROVE  Consistent'
<1>1. CASE status[t] = "WAIT_SEM"
  <2> DEFINE s == sem[t]
             q == blocked[s]
  <2>1. s \in Sems /\ q \in Seq(Tasks) /\ Distinct(q) /\ t \in Members(q)
    BY <1>1 DEF Consistent, TypeOK, QueueConsistent
  <2>2. /\ Extract(t, q) \in Seq(Tasks)
        /\ Distinct(Extract(t, q))
        /\ Members(Extract(t, q)) = Members(q) \ {t}
    BY <2>1, ExtractProperties
  <2>3. /\ blocked' = [blocked EXCEPT ![s] = Extract(t, q)]
        /\ status' = [status EXCEPT ![t] = "READY"]
        /\ killreq' = [killreq EXCEPT ![t] = TRUE]
        /\ UNCHANGED <<count, granted, credit, decsem, sem, phase, enabled>>
    BY <1>1 DEF task_kill, callVars
  <2>4. TypeOK'
    BY <2>1, <2>2, <2>3 DEF Consistent, TypeOK
  <2>5. QueueConsistent'
    BY SMTT(30), <2>1, <2>2, <2>3 DEF Consistent, TypeOK, QueueConsistent
  <2> QED
    BY <2>4, <2>5 DEF Consistent
<1>2. CASE status[t] # "WAIT_SEM"
  BY <1>2 DEF Consistent, TypeOK, QueueConsistent, task_kill, callVars
<1> QED
  BY <1>1, <1>2

-----------------------------------------------------------------------------
(* Every step keeps the queues consistent *)

LEMMA TaskStepConsistent ==
  ASSUME Consistent, NEW t \in Tasks, TaskStep(t)
  PROVE  Consistent'
<1>1. ASSUME NEW s \in Sems, sem_wait(t, s) PROVE Consistent'
  <2>1. CASE Cancelled(t)
    BY <1>1, <2>1, DieConsistent DEF sem_wait, Running
  <2>2. CASE ~Cancelled(t)
    <3>1. /\ status[t] = "READY"
          /\ phase' = [phase EXCEPT ![t] = "entry"]
          /\ sem' = [sem EXCEPT ![t] = s]
          /\ UNCHANGED <<count, blocked, granted, credit, decsem, status,
                         killreq, enabled>>
      BY <1>1, <2>2 DEF sem_wait, Running, semVars, cancelVars
    <3>2. TypeOK'
      BY <3>1 DEF Consistent, TypeOK
    <3>3. QueueConsistent'
      BY <3>1 DEF Consistent, TypeOK, QueueConsistent
    <3> QED BY <3>2, <3>3 DEF Consistent
  <2> QED BY <2>1, <2>2
<1>2. ASSUME sem_wait_body(t) PROVE Consistent'
  <2>1. sem[t] \in Sems /\ 1 \in Nat \ {0}
    BY DEF Consistent, TypeOK
  <2>2. status[t] = "READY" /\ TakeOrBlock(t, sem[t], 1)
    BY <1>2 DEF sem_wait_body, Running
  <2> QED
    BY <2>1, <2>2, TakeOrBlockConsistent
<1>3. ASSUME NEW s \in Sems, NEW n \in Units, sem_xwait(t, s, n)
      PROVE  Consistent'
  BY <1>3, DieConsistent, TakeOrBlockConsistent, SemAssumption
     DEF sem_xwait, Running, SemAssumption
<1>4. ASSUME NEW s \in Sems, NEW n \in Units, sem_trywait(t, s, n)
      PROVE  Consistent'
  <2>1. n \in Nat \ {0}
    BY SemAssumption DEF SemAssumption
  <2>2. /\ count[s] >= n
        /\ Take(s, n)
        /\ UNCHANGED <<blocked, granted, decsem, sem, phase, status, cancelVars>>
    BY <1>4 DEF sem_trywait, Available, callVars
  <2>3. phase' \in [Tasks -> {"user", "entry", "wait"}]
    BY <2>2 DEF Consistent, TypeOK
  <2> QED
    BY <2>1, <2>2, <2>3, TakeConsistent
<1>5. ASSUME resume(t) PROVE Consistent'
  <2>1. CASE Cancelled(t)
    BY <1>5, <2>1, DieConsistent DEF resume, Running
  <2>2. CASE ~Cancelled(t)
    <3>1. /\ status[t] = "READY"
          /\ phase' = [phase EXCEPT ![t] = "user"]
          /\ credit' = [credit EXCEPT ![sem[t]] = credit[sem[t]] + granted[t]]
          /\ granted' = [granted EXCEPT ![t] = 0]
          /\ UNCHANGED <<count, blocked, decsem, sem, status, killreq, enabled>>
      BY <1>5, <2>2 DEF resume, Running, cancelVars
    <3>2. credit[sem[t]] + granted[t] \in Nat
      BY DEF Consistent, TypeOK
    <3>3. TypeOK'
      BY <3>1, <3>2 DEF Consistent, TypeOK
    <3>4. QueueConsistent'
      BY <3>1 DEF Consistent, TypeOK, QueueConsistent
    <3> QED BY <3>3, <3>4 DEF Consistent
  <2> QED BY <2>1, <2>2
<1>6. ASSUME NEW state \in CancelStates, task_setcancelstate(t, state)
      PROVE  Consistent'
  BY <1>6, SemAssumption
     DEF SemAssumption, Consistent, TypeOK, QueueConsistent,
         task_setcancelstate, semVars, callVars
<1>7. ASSUME NEW u \in Tasks, task_kill(t, u) PROVE Consistent'
  BY <1>7, KillConsistent
<1>8. ASSUME task_end(t) PROVE Consistent'
  BY <1>8, DieConsistent DEF task_end, Running
<1> QED
  BY <1>1, <1>2, <1>3, <1>4, <1>5, <1>6, <1>7, <1>8 DEF TaskStep

LEMMA PostConsistent ==
  ASSUME Consistent, NEW s \in Sems, Post(s)
  PROVE  Consistent'
<1>1. blocked[s] \in Seq(Tasks) /\ Len(blocked[s]) \in Nat
  BY DEF Consistent, TypeOK
<1>2. CASE sem_post(s)
  <2> DEFINE c == count[s] + 1
             d == decsem[blocked[s][1]]
  <2>1. credit' \in [Sems -> Nat] /\ UNCHANGED <<callVars, cancelVars>>
    BY SMTT(30), <1>2 DEF sem_post, Consistent, TypeOK
  <2>2. CASE blocked[s] # <<>> /\ d <= c
    <3>1. Wake(s, 1, c - d)
      BY <1>2, <2>2 DEF sem_post
    <3>2. 1 \in 0 .. Len(blocked[s]) /\ blocked[s][1] \in Tasks
      BY <1>1, <2>2
    <3>3. c - d \in Nat
      BY SMTT(30), <2>2, <3>2 DEF Consistent, TypeOK
    <3> QED
      BY <2>1, <3>1, <3>2, <3>3, WakeConsistent
  <2>3. CASE ~(blocked[s] # <<>> /\ d <= c)
    <3>1. Wake(s, 0, c)
      BY <1>2, <2>3 DEF sem_post
    <3>2. 0 \in 0 .. Len(blocked[s]) /\ c \in Nat
      BY <1>1 DEF Consistent, TypeOK
    <3> QED
      BY <2>1, <3>1, <3>2, WakeConsistent
  <2> QED
    BY <2>2, <2>3
<1>3. ASSUME NEW n \in Units, sem_xpost(s, n) PROVE Consistent'
  <2>1. n \in Nat
    BY SemAssumption DEF SemAssumption
  <2>2. credit' \in [Sems -> Nat] /\ UNCHANGED <<callVars, cancelVars>>
    BY <1>3, <2>1 DEF sem_xpost, Consistent, TypeOK
  <2>3. PICK k \in 0 .. Len(blocked[s]) :
          \E left \in [0 .. k -> 0 .. count[s] + n] : Wake(s, k, left[k])
    BY <1>3 DEF sem_xpost
  <2>4. PICK left \in [0 .. k -> 0 .. count[s] + n] : Wake(s, k, left[k])
    BY <2>3
  <2>5. left[k] \in Nat
    BY <1>1, <2>1, <2>4 DEF Consistent, TypeOK
  <2> QED
    BY <2>2, <2>4, <2>5, WakeConsistent
<1> QED
  BY <1>2, <1>3 DEF Post

LEMMA InitConsistent == Init => Consistent
<1> SUFFICES ASSUME Init PROVE Consistent
  OBVIOUS
<1>1. Total \in Nat
  BY SemAssumption DEF SemAssumption
<1>2. TypeOK
  BY <1>1 DEF Init, TypeOK
<1>3. QueueConsistent
  BY DEF Init, QueueConsistent, Distinct, Members
<1> QED
  BY <1>2, <1>3 DEF Consistent

LEMMA NextConsistent == Consistent /\ [Next]_vars => Consistent'
<1> SUFFICES ASSUME Consistent, [Next]_vars PROVE Consistent'
  OBVIOUS
<1>1. CASE Next
  BY <1>1, TaskStepConsistent, PostConsistent DEF Next
<1>2. CASE UNCHANGED vars
  BY <1>2 DEF Consistent, TypeOK, QueueConsistent, vars
<1> QED
  BY <1>1, <1>2

LEMMA AlwaysConsistent == Spec => []Consistent
BY InitConsistent, NextConsistent, PTL DEF Spec

\* The state of the semaphores and their tasks is well typed; in particular
\* no counter ever becomes negative.
THEOREM TypeCorrect == Spec => []TypeOK
<1>1. Consistent => TypeOK
  BY DEF Consistent
<1> QED
  BY AlwaysConsistent, <1>1, PTL

\* Whatever waits, posts, kills and ends of tasks are interleaved, a task is
\* in a semaphore queue exactly when it is blocked on that semaphore.
THEOREM QueuesAlwaysConsistent == Spec => []QueueConsistent
<1>1. Consistent => QueueConsistent
  BY DEF Consistent
<1> QED
  BY AlwaysConsistent, <1>1, PTL

-----------------------------------------------------------------------------
(* No lost wake-up *)

NoKill == Killable = {}

LEMMA TakeOrBlockHead ==
  ASSUME Consistent, NoSatisfiableHead, NEW t \in Tasks, NEW s \in Sems,
         NEW n \in Nat \ {0}, status[t] = "READY", TakeOrBlock(t, s, n)
  PROVE  NoSatisfiableHead'
<1>1. CASE Available(s, n)
  BY <1>1 DEF TakeOrBlock, Take, Available, NoSatisfiableHead, Consistent, TypeOK
<1>2. CASE ~Available(s, n)
  <2> DEFINE q == blocked[s]
  <2>1. /\ blocked' = [blocked EXCEPT ![s] = InsertLast(t, q)]
        /\ decsem' = [decsem EXCEPT ![t] = n]
        /\ count' = count
    BY <1>2 DEF TakeOrBlock
  <2>2. q \in Seq(Tasks) /\ count[s] \in Nat
    BY DEF Consistent, TypeOK
  <2>3. ASSUME NEW r \in Sems, blocked'[r] # <<>>
        PROVE  count'[r] < decsem'[blocked'[r][1]]
    <3>1. CASE r # s
      <4>1. blocked'[r] = blocked[r] /\ blocked[r] \in Seq(Tasks)
        BY <2>1, <3>1 DEF Consistent, TypeOK
      <4>2. blocked[r][1] \in Members(blocked[r]) /\ blocked[r][1] \in Tasks
        BY <2>3, <4>1 DEF Members
      <4>3. blocked[r][1] # t
        BY <4>2 DEF Consistent, QueueConsistent
      <4> QED
        BY <2>1, <2>3, <4>1, <4>2, <4>3
           DEF NoSatisfiableHead, Consistent, TypeOK
    <3>2. CASE r = s /\ q # <<>>
      <4>1. q[1] \in Members(q) /\ q[1] \in Tasks
        BY <2>2, <3>2 DEF Members
      <4>2. q[1] # t
        BY <4>1 DEF Consistent, QueueConsistent
      <4>3. blocked'[s][1] = q[1]
        BY <2>1, <2>2, <3>2 DEF InsertLast, Consistent, TypeOK
      <4> QED
        BY <2>1, <3>2, <4>1, <4>2, <4>3
           DEF NoSatisfiableHead, Consistent, TypeOK
    <3>3. CASE r = s /\ q = <<>>
      <4>1. blocked'[s][1] = t
        BY <2>1, <2>2, <3>3 DEF InsertLast, Consistent, TypeOK
      <4>2. count[s] < n
        BY <1>2, <2>2, <3>3 DEF Available
      <4> QED
        BY <2>1, <3>3, <4>1, <4>2 DEF Consistent, TypeOK
    <3> QED
      BY <3>1, <3>2, <3>3
  <2> QED
    BY <2>3 DEF NoSatisfiableHead
<1> QED
  BY <1>1, <1>2

\* After k waiters have been woken, the first one left is queue[k + 1].
LEMMA WakeHead ==
  ASSUME Consistent, NoSatisfiableHead, NEW s \in Sems,
         NEW k \in 0 .. Len(blocked[s]), NEW left \in Nat,
         k < Len(blocked[s]) => left < decsem[blocked[s][k + 1]],
         Wake(s, k, left), decsem' = decsem
  PROVE  NoSatisfiableHead'
<1> DEFINE q == blocked[s]
<1>1. q \in Seq(Tasks) /\ Distinct(q)
  BY DEF Consistent, TypeOK, QueueConsistent
<1>2. /\ Len(DropFirst(k, q)) = Len(q) - k
      /\ k < Len(q) => DropFirst(k, q)[1] = q[k + 1]
      /\ DropFirst(k, q) \in Seq(Tasks)
  BY <1>1, DropFirstProperties
<1>3. /\ blocked' = [blocked EXCEPT ![s] = DropFirst(k, q)]
      /\ count' = [count EXCEPT ![s] = left]
  BY DEF Wake
<1>4. blocked'[s] = DropFirst(k, q) /\ count'[s] = left
  BY <1>3 DEF Consistent, TypeOK
<1>5. blocked'[s] # <<>> => count'[s] < decsem'[blocked'[s][1]]
  <2>1. SUFFICES ASSUME DropFirst(k, q) # <<>>
                 PROVE  left < decsem[DropFirst(k, q)[1]]
    BY <1>4
  <2>2. k < Len(q)
    BY <1>1, <1>2, <2>1
  <2> QED BY <1>2, <2>2
<1>6. ASSUME NEW r \in Sems, r # s
      PROVE  blocked'[r] = blocked[r] /\ count'[r] = count[r]
  BY <1>3, <1>6 DEF Consistent, TypeOK
<1> QED
  BY <1>5, <1>6 DEF NoSatisfiableHead

LEMMA TaskStepHead ==
  ASSUME NoKill, Consistent, NoSatisfiableHead, NEW t \in Tasks, TaskStep(t)
  PROVE  NoSatisfiableHead'
<1>1. ASSUME Die(t) PROVE NoSatisfiableHead'
  BY <1>1 DEF Die, NoSatisfiableHead
<1>2. ASSUME NEW s \in Sems, sem_wait(t, s) PROVE NoSatisfiableHead'
  BY <1>1, <1>2 DEF sem_wait, semVars, NoSatisfiableHead
<1>3. ASSUME sem_wait_body(t) PROVE NoSatisfiableHead'
  <2>1. sem[t] \in Sems /\ 1 \in Nat \ {0}
    BY DEF Consistent, TypeOK
  <2> QED
    BY <1>3, <2>1, TakeOrBlockHead DEF sem_wait_body, Running
<1>4. ASSUME NEW s \in Sems, NEW n \in Units, sem_xwait(t, s, n)
      PROVE  NoSatisfiableHead'
  <2>1. n \in Nat \ {0}
    BY SemAssumption DEF SemAssumption
  <2> QED
    BY <1>1, <1>4, <2>1, TakeOrBlockHead DEF sem_xwait, Running
<1>5. ASSUME NEW s \in Sems, NEW n \in Units, sem_trywait(t, s, n)
      PROVE  NoSatisfiableHead'
  BY <1>5 DEF sem_trywait, Available, Take, callVars, NoSatisfiableHead,
              Consistent, TypeOK
<1>6. ASSUME resume(t) PROVE NoSatisfiableHead'
  BY <1>1, <1>6 DEF resume, NoSatisfiableHead
<1>7. ASSUME NEW state \in CancelStates, task_setcancelstate(t, state)
      PROVE  NoSatisfiableHead'
  BY <1>7 DEF task_setcancelstate, semVars, callVars, NoSatisfiableHead
<1>8. ASSUME NEW u \in Tasks, task_kill(t, u) PROVE NoSatisfiableHead'
  BY <1>8 DEF task_kill, NoKill
<1>9. ASSUME task_end(t) PROVE NoSatisfiableHead'
  BY <1>1, <1>9 DEF task_end
<1> QED
  BY <1>2, <1>3, <1>4, <1>5, <1>6, <1>7, <1>8, <1>9 DEF TaskStep

LEMMA PostHead ==
  ASSUME Consistent, NoSatisfiableHead, NEW s \in Sems, Post(s)
  PROVE  NoSatisfiableHead'
<1> DEFINE q == blocked[s]
<1>1. /\ q \in Seq(Tasks) /\ Len(q) \in Nat /\ count[s] \in Nat
      /\ \A i \in 1 .. Len(q) : q[i] \in Tasks /\ decsem[q[i]] \in Nat \ {0}
  BY SMTT(30) DEF Consistent, TypeOK
<1>2. CASE sem_post(s)
  <2> DEFINE c == count[s] + 1
             d == decsem[q[1]]
  <2>1. decsem' = decsem
    BY <1>2 DEF sem_post, callVars
  <2>2. CASE q # <<>> /\ d <= c
    <3>1. Wake(s, 1, c - d)
      BY <1>2, <2>2 DEF sem_post
    <3>2. count[s] < d
      BY <2>2 DEF NoSatisfiableHead
    <3>3. 1 \in 0 .. Len(q) /\ c - d = 0
      BY <1>1, <2>2, <3>2
    <3>4. 1 < Len(q) => 0 < decsem[q[1 + 1]]
      BY <1>1
    <3> QED
      BY <2>1, <3>1, <3>3, <3>4, WakeHead
  <2>3. CASE ~(q # <<>> /\ d <= c)
    <3>1. Wake(s, 0, c)
      BY <1>2, <2>3 DEF sem_post
    <3>2. 0 \in 0 .. Len(q) /\ c \in Nat
      BY <1>1
    <3>3. 0 < Len(q) => c < decsem[q[0 + 1]]
      BY <1>1, <2>3
    <3> QED
      BY <2>1, <3>1, <3>2, <3>3, WakeHead
  <2> QED
    BY <2>2, <2>3
<1>3. ASSUME NEW n \in Units, sem_xpost(s, n) PROVE NoSatisfiableHead'
  <2>1. n \in Nat
    BY SemAssumption DEF SemAssumption
  <2>2. decsem' = decsem
    BY <1>3 DEF sem_xpost, callVars
  <2>3. PICK k \in 0 .. Len(q) :
          \E left \in [0 .. k -> 0 .. count[s] + n] :
            WakeLoop(s, count[s] + n, k, left) /\ Wake(s, k, left[k])
    BY <1>3 DEF sem_xpost
  <2>4. PICK left \in [0 .. k -> 0 .. count[s] + n] :
            WakeLoop(s, count[s] + n, k, left) /\ Wake(s, k, left[k])
    BY <2>3
  <2>5. left[k] \in Nat
    BY <1>1, <2>1, <2>4
  <2>6. k < Len(q) => left[k] < decsem[q[k + 1]]
    BY <1>1, <2>4, <2>5 DEF WakeLoop
  <2> QED
    BY <2>2, <2>4, <2>5, <2>6, WakeHead
<1> QED
  BY <1>2, <1>3 DEF Post

\* Where tasks cannot be killed, no wake-up is lost: a task stays blocked
\* only while the semaphore holds less than its first waiter asks for.
THEOREM NoLostWakeup == NoKill => (Spec => []NoSatisfiableHead)
<1> SUFFICES ASSUME NoKill PROVE Spec => []NoSatisfiableHead
  OBVIOUS
<1>1. Init => NoSatisfiableHead
  BY DEF Init, NoSatisfiableHead
<1>2. Consistent /\ NoSatisfiableHead /\ [Next]_vars => NoSatisfiableHead'
  <2> SUFFICES ASSUME Consistent, NoSatisfiableHead, [Next]_vars
               PROVE  NoSatisfiableHead'
    OBVIOUS
  <2>1. CASE Next
    BY <2>1, TaskStepHead, PostHead DEF Next
  <2>2. CASE UNCHANGED vars
    BY <2>2 DEF vars, NoSatisfiableHead
  <2> QED
    BY <2>1, <2>2
<1> QED
  BY <1>1, <1>2, AlwaysConsistent, PTL DEF Spec

-----------------------------------------------------------------------------
(* A successful wait was served *)

NeverDisabled == CancelStates \subseteq {TRUE}

\* A task made ready while it waits has been served, or will be found
\* cancelled by the test that follows the wait.
ServedOrDoomed ==
  \A t \in Tasks :
    /\ enabled[t] = TRUE
    /\ phase[t] = "wait" /\ status[t] = "READY"
         => granted[t] = decsem[t] \/ killreq[t] = TRUE

LEMMA TakeOrBlockServed ==
  ASSUME Consistent, ServedOrDoomed, NEW t \in Tasks, NEW s \in Sems,
         NEW n \in Nat \ {0}, TakeOrBlock(t, s, n)
  PROVE  ServedOrDoomed'
BY DEF TakeOrBlock, cancelVars, ServedOrDoomed, Consistent, TypeOK

LEMMA WakeServed ==
  ASSUME Consistent, ServedOrDoomed, NEW s \in Sems,
         NEW k \in 0 .. Len(blocked[s]), NEW left, Wake(s, k, left),
         UNCHANGED <<callVars, cancelVars>>
  PROVE  ServedOrDoomed'
<1> DEFINE woken == {blocked[s][i] : i \in 1 .. k}
<1>1. /\ status' = [t \in Tasks |-> IF t \in woken THEN "READY" ELSE status[t]]
      /\ granted' = [t \in Tasks |->
                       IF t \in woken THEN decsem[t] ELSE granted[t]]
      /\ UNCHANGED <<decsem, sem, phase, killreq, enabled>>
  BY DEF Wake, callVars, cancelVars
<1> HIDE DEF woken
<1> QED
  BY <1>1 DEF ServedOrDoomed

LEMMA TaskStepServed ==
  ASSUME NeverDisabled, Consistent, ServedOrDoomed, NEW t \in Tasks,
         TaskStep(t)
  PROVE  ServedOrDoomed'
<1>1. ASSUME Die(t) PROVE ServedOrDoomed'
  BY <1>1 DEF Die, cancelVars, ServedOrDoomed, Consistent, TypeOK
<1>2. ASSUME NEW s \in Sems, sem_wait(t, s) PROVE ServedOrDoomed'
  BY <1>1, <1>2
     DEF sem_wait, semVars, cancelVars, ServedOrDoomed, Consistent, TypeOK
<1>3. ASSUME sem_wait_body(t) PROVE ServedOrDoomed'
  <2>1. sem[t] \in Sems /\ 1 \in Nat \ {0}
    BY DEF Consistent, TypeOK
  <2> QED
    BY <1>3, <2>1, TakeOrBlockServed DEF sem_wait_body
<1>4. ASSUME NEW s \in Sems, NEW n \in Units, sem_xwait(t, s, n)
      PROVE  ServedOrDoomed'
  <2>1. n \in Nat \ {0}
    BY SemAssumption DEF SemAssumption
  <2> QED
    BY <1>1, <1>4, <2>1, TakeOrBlockServed DEF sem_xwait
<1>5. ASSUME NEW s \in Sems, NEW n \in Units, sem_trywait(t, s, n)
      PROVE  ServedOrDoomed'
  BY <1>5 DEF sem_trywait, callVars, cancelVars, ServedOrDoomed
<1>6. ASSUME resume(t) PROVE ServedOrDoomed'
  BY <1>1, <1>6
     DEF resume, Running, cancelVars, ServedOrDoomed, Consistent, TypeOK
<1>7. ASSUME NEW state \in CancelStates, task_setcancelstate(t, state)
      PROVE  ServedOrDoomed'
  BY <1>7 DEF NeverDisabled, task_setcancelstate, semVars, callVars,
              ServedOrDoomed, Consistent, TypeOK
<1>8. ASSUME NEW u \in Tasks, task_kill(t, u) PROVE ServedOrDoomed'
  BY <1>8 DEF task_kill, callVars, ServedOrDoomed, Consistent, TypeOK
<1>9. ASSUME task_end(t) PROVE ServedOrDoomed'
  BY <1>1, <1>9 DEF task_end
<1> QED
  BY <1>2, <1>3, <1>4, <1>5, <1>6, <1>7, <1>8, <1>9 DEF TaskStep

LEMMA PostServed ==
  ASSUME Consistent, ServedOrDoomed, NEW s \in Sems, Post(s)
  PROVE  ServedOrDoomed'
<1>1. Len(blocked[s]) \in Nat /\ (blocked[s] # <<>> => 1 \in 0 .. Len(blocked[s]))
  BY DEF Consistent, TypeOK
<1>2. CASE sem_post(s)
  <2>1. \E k \in 0 .. Len(blocked[s]), left \in Int : Wake(s, k, left)
    <3> DEFINE c == count[s] + 1
               d == decsem[blocked[s][1]]
    <3>1. CASE blocked[s] # <<>> /\ d <= c
      <4>1. blocked[s][1] \in Tasks /\ c - d \in Int
        BY SMTT(30), <3>1 DEF Consistent, TypeOK
      <4> QED BY <1>1, <1>2, <3>1, <4>1 DEF sem_post
    <3>2. CASE ~(blocked[s] # <<>> /\ d <= c)
      <4>1. c \in Int /\ 0 \in 0 .. Len(blocked[s])
        BY <1>1 DEF Consistent, TypeOK
      <4> QED BY <1>2, <3>2, <4>1 DEF sem_post
    <3> QED BY <3>1, <3>2
  <2> QED
    BY <1>2, <2>1, WakeServed DEF sem_post
<1>3. ASSUME NEW n \in Units, sem_xpost(s, n) PROVE ServedOrDoomed'
  BY <1>3, WakeServed DEF sem_xpost
<1> QED
  BY <1>2, <1>3 DEF Post

\* The step part of SuccessMeansGranted.
Return ==
  \A t \in Tasks :
    phase[t] = "wait" /\ phase'[t] = "user" /\ status'[t] = "READY"
      => granted[t] = decsem[t]

LEMMA TaskStepReturn ==
  ASSUME Consistent, ServedOrDoomed, NEW t \in Tasks, TaskStep(t)
  PROVE  Return
<1>1. ASSUME Die(t) PROVE Return
  BY <1>1 DEF Die, Return, Consistent, TypeOK
<1>2. ASSUME NEW s \in Sems, NEW n, phase[t] # "wait", TakeOrBlock(t, s, n)
      PROVE  Return
  BY <1>2 DEF TakeOrBlock, Return, Consistent, TypeOK
<1>3. ASSUME NEW s \in Sems, sem_wait(t, s) PROVE Return
  BY <1>1, <1>3 DEF sem_wait, Running, Return, Consistent, TypeOK
<1>4. ASSUME sem_wait_body(t) PROVE Return
  <2>1. sem[t] \in Sems
    BY DEF Consistent, TypeOK
  <2> QED
    BY <1>2, <1>4, <2>1 DEF sem_wait_body, Running
<1>5. ASSUME NEW s \in Sems, NEW n \in Units, sem_xwait(t, s, n) PROVE Return
  BY <1>1, <1>2, <1>5 DEF sem_xwait, Running
<1>6. ASSUME NEW s \in Sems, NEW n \in Units, sem_trywait(t, s, n) PROVE Return
  BY <1>6 DEF sem_trywait, callVars, Return
<1>7. ASSUME resume(t) PROVE Return
  BY <1>1, <1>7
     DEF resume, Running, Cancelled, Return, ServedOrDoomed, Consistent, TypeOK
<1>8. ASSUME NEW state \in CancelStates, task_setcancelstate(t, state)
      PROVE  Return
  BY <1>8 DEF task_setcancelstate, callVars, Return
<1>9. ASSUME NEW u \in Tasks, task_kill(t, u) PROVE Return
  BY <1>9 DEF task_kill, callVars, Return
<1>10. ASSUME task_end(t) PROVE Return
  BY <1>1, <1>10 DEF task_end
<1> QED
  BY <1>3, <1>4, <1>5, <1>6, <1>7, <1>8, <1>9, <1>10 DEF TaskStep

\* Where no task disables cancellation, a blocking wait that returns to its
\* caller was served by a post, also when tasks are being killed.
THEOREM SuccessWasGranted == NeverDisabled => (Spec => SuccessMeansGranted)
<1> SUFFICES ASSUME NeverDisabled PROVE Spec => SuccessMeansGranted
  OBVIOUS
<1>1. Init => ServedOrDoomed
  BY DEF Init, ServedOrDoomed
<1>2. Consistent /\ ServedOrDoomed /\ [Next]_vars => ServedOrDoomed'
  <2> SUFFICES ASSUME Consistent, ServedOrDoomed, [Next]_vars
               PROVE  ServedOrDoomed'
    OBVIOUS
  <2>1. CASE Next
    BY <2>1, TaskStepServed, PostServed DEF Next
  <2>2. CASE UNCHANGED vars
    BY <2>2 DEF vars, ServedOrDoomed
  <2> QED
    BY <2>1, <2>2
<1>3. Consistent /\ ServedOrDoomed /\ [Next]_vars => [Return]_vars
  <2> SUFFICES ASSUME Consistent, ServedOrDoomed, Next PROVE Return
    BY DEF vars
  <2>1. ASSUME NEW s \in Sems, Post(s) PROVE Return
    BY <2>1 DEF Post, sem_post, sem_xpost, callVars, Return
  <2> QED
    BY <2>1, TaskStepReturn DEF Next
<1>4. Spec => [][Return]_vars
  BY <1>1, <1>2, <1>3, AlwaysConsistent, PTL DEF Spec
<1> QED
  BY <1>4 DEF SuccessMeansGranted, Return

-----------------------------------------------------------------------------
(* The semaphores implement the pool of units of SemPool, serve in the order *)
(* of arrival, and keep account of every unit.                               *)


\* Only a task behind its wait holds a grant, and a blocked one never does.
GrantsOK ==
  \A t \in Tasks :
    /\ status[t] = "WAIT_SEM" => granted[t] = 0
    /\ phase[t] # "wait" => granted[t] = 0

-----------------------------------------------------------------------------
(* Requests of a set of tasks, f and g being sem and decsem *)

Rq(S, f, g) == {<<t, f[t], g[t]>> : t \in S}

LEMMA RequestsAre == \A S : Requests(S) = Rq(S, sem, decsem)
BY DEF Requests, Request, Rq

LEMMA RqSame ==
  ASSUME NEW S, NEW f, NEW g, NEW f2, NEW g2,
         \A t \in S : f[t] = f2[t] /\ g[t] = g2[t]
  PROVE  Rq(S, f, g) = Rq(S, f2, g2)
BY DEF Rq

LEMMA RqAdd ==
  ASSUME NEW S, NEW S2, NEW f, NEW g, NEW e, S2 = S \cup {e}
  PROVE  Rq(S2, f, g) = Rq(S, f, g) \cup {<<e, f[e], g[e]>>}
BY DEF Rq

LEMMA RqWithout ==
  ASSUME NEW S, NEW S2, NEW f, NEW g, NEW e, S2 = S \ {e}
  PROVE  \A r : r \in Rq(S2, f, g) <=> r \in Rq(S, f, g) /\ r[1] # e
<1>1. ASSUME NEW r \in Rq(S2, f, g)
      PROVE  r \in Rq(S, f, g) /\ r[1] # e
  BY <1>1 DEF Rq
<1>2. ASSUME NEW r \in Rq(S, f, g), r[1] # e
      PROVE  r \in Rq(S2, f, g)
  BY <1>2 DEF Rq
<1> QED BY <1>1, <1>2

LEMMA RqMinus ==
  ASSUME NEW S, NEW W, NEW f, NEW g
  PROVE  Rq(S \ W, f, g) = Rq(S, f, g) \ Rq(W, f, g)
<1>1. ASSUME NEW r \in Rq(S \ W, f, g)
      PROVE  r \in Rq(S, f, g) /\ r \notin Rq(W, f, g)
  <2>1. PICK t \in S \ W : r = <<t, f[t], g[t]>>
    BY <1>1 DEF Rq
  <2>2. ASSUME NEW u \in W, r = <<u, f[u], g[u]>> PROVE FALSE
    BY <2>1, <2>2
  <2> QED BY <2>1, <2>2 DEF Rq
<1>2. ASSUME NEW r \in Rq(S, f, g), r \notin Rq(W, f, g)
      PROVE  r \in Rq(S \ W, f, g)
  BY <1>2 DEF Rq
<1> QED BY <1>1, <1>2

LEMMA RqCup ==
  ASSUME NEW S, NEW W, NEW f, NEW g
  PROVE  Rq(S \cup W, f, g) = Rq(S, f, g) \cup Rq(W, f, g)
BY DEF Rq

\* A task has a request only if it is in the set.
LEMMA RqTask ==
  ASSUME NEW S, NEW f, NEW g, NEW r \in Rq(S, f, g)
  PROVE  r[1] \in S /\ r[2] = f[r[1]] /\ r[3] = g[r[1]]
BY DEF Rq

-----------------------------------------------------------------------------
(* One lemma for each way in which the pool changes *)

LEMMA DieLeaves ==
  ASSUME Consistent, NEW t \in Tasks, Die(t)
  PROVE  Pool!Leave(t)
<1>1. /\ status' = [status EXCEPT ![t] = "FREE"]
      /\ phase' = [phase EXCEPT ![t] = "user"]
      /\ granted' = [granted EXCEPT ![t] = 0]
      /\ count' = count /\ credit' = credit /\ decsem' = decsem /\ sem' = sem
  BY DEF Die
<1>2. Ungranted' = Ungranted \ {t} /\ Granted' = Granted \ {t}
  BY <1>1 DEF Ungranted, Granted, Consistent, TypeOK
<1>3. {u \in Tasks : status'[u] = "FREE"} = {u \in Tasks : status[u] = "FREE"} \cup {t}
  BY <1>1 DEF Consistent, TypeOK
<1>4. /\ Requests(Ungranted)' = {r \in Requests(Ungranted) : r[1] # t}
      /\ Requests(Granted)' = {r \in Requests(Granted) : r[1] # t}
  <2>1. /\ Requests(Ungranted)' = Rq(Ungranted', sem, decsem)
        /\ Requests(Granted)' = Rq(Granted', sem, decsem)
    BY <1>1 DEF Requests, Request, Rq
  <2>2. Requests(Ungranted) = Rq(Ungranted, sem, decsem)
    BY RequestsAre
  <2>3. Requests(Granted) = Rq(Granted, sem, decsem)
    BY RequestsAre
  <2>4. \A r : r \in Rq(Ungranted', sem, decsem)
               <=> r \in Rq(Ungranted, sem, decsem) /\ r[1] # t
    BY <1>2, RqWithout
  <2>5. \A r : r \in Rq(Granted', sem, decsem)
               <=> r \in Rq(Granted, sem, decsem) /\ r[1] # t
    BY <1>2, RqWithout
  <2> QED BY <2>1, <2>2, <2>3, <2>4, <2>5
<1> QED BY <1>1, <1>3, <1>4 DEF Pool!Leave

\* A request that is served at once, or one that has to wait.
LEMMA TakeOrBlockAsks ==
  ASSUME Consistent, GrantsOK, NEW t \in Tasks, NEW s \in Sems, NEW n \in Units,
         status[t] = "READY", phase[t] # "wait", TakeOrBlock(t, s, n)
  PROVE  Pool!Acquire(t, s, n) \/ Pool!Ask(t, s, n)
<1>1. ~Pool!Requesting(t) /\ t \notin {u \in Tasks : status[u] = "FREE"}
  <2>1. t \notin Ungranted /\ t \notin Granted
    BY DEF Ungranted, Granted
  <2> QED BY <2>1, RqTask, RequestsAre DEF Pool!Requesting
<1>2. CASE Available(s, n)
  <2>1. /\ count[s] >= n /\ Take(s, n)
        /\ phase' = [phase EXCEPT ![t] = "user"]
        /\ granted' = granted /\ decsem' = decsem /\ sem' = sem /\ status' = status
    BY <1>2 DEF TakeOrBlock, Available
  <2>2. Ungranted' = Ungranted /\ Granted' = Granted
    BY <2>1 DEF Ungranted, Granted, Consistent, TypeOK
  <2>3. /\ Requests(Ungranted)' = Requests(Ungranted)
        /\ Requests(Granted)' = Requests(Granted)
    BY <2>1, <2>2 DEF Requests, Request
  <2> QED BY <1>1, <2>1, <2>3 DEF Pool!Acquire, Take
<1>3. CASE ~Available(s, n)
  <2>1. /\ status' = [status EXCEPT ![t] = "WAIT_SEM"]
        /\ decsem' = [decsem EXCEPT ![t] = n]
        /\ sem' = [sem EXCEPT ![t] = s]
        /\ phase' = [phase EXCEPT ![t] = "wait"]
        /\ count' = count /\ granted' = granted /\ credit' = credit
    BY <1>3 DEF TakeOrBlock
  <2>2. granted[t] = 0
    BY DEF GrantsOK
  <2>3. Ungranted' = Ungranted \cup {t} /\ Granted' = Granted
        /\ t \notin Ungranted /\ t \notin Granted
    BY <2>1, <2>2 DEF Ungranted, Granted, Consistent, TypeOK
  <2>4. /\ sem'[t] = s /\ decsem'[t] = n
        /\ \A u \in Tasks : u # t => sem'[u] = sem[u] /\ decsem'[u] = decsem[u]
    BY <2>1 DEF Consistent, TypeOK
  <2>5. Ungranted \subseteq Tasks /\ Granted \subseteq Tasks
    BY DEF Ungranted, Granted
  <2>6. Requests(Ungranted)' = Requests(Ungranted) \cup {<<t, s, n>>}
    <3>1. Requests(Ungranted)' = Rq(Ungranted', sem', decsem')
      BY DEF Requests, Request, Rq
    <3>2. Rq(Ungranted, sem', decsem') = Rq(Ungranted, sem, decsem)
      BY <2>3, <2>4, <2>5, RqSame
    <3>3. Rq(Ungranted', sem', decsem')
            = Rq(Ungranted, sem', decsem') \cup {<<t, sem'[t], decsem'[t]>>}
      BY SMTT(30), <2>3, RqAdd
    <3>4. Requests(Ungranted) = Rq(Ungranted, sem, decsem)
      BY RequestsAre
    <3> QED BY <2>4, <3>1, <3>2, <3>3, <3>4
  <2>7. Requests(Granted)' = Requests(Granted)
    <3>1. Requests(Granted)' = Rq(Granted, sem', decsem')
      BY <2>3 DEF Requests, Request, Rq
    <3>2. Rq(Granted, sem', decsem') = Rq(Granted, sem, decsem)
      BY <2>3, <2>4, <2>5, RqSame
    <3> QED BY <3>1, <3>2, RequestsAre
  <2>8. {u \in Tasks : status'[u] = "FREE"} = {u \in Tasks : status[u] = "FREE"}
    BY <2>1 DEF Consistent, TypeOK
  <2> QED BY <1>1, <2>1, <2>6, <2>7, <2>8 DEF Pool!Ask
<1> QED BY <1>2, <1>3

\* A wait that was served returns its request.
LEMMA ResumeReturns ==
  ASSUME Consistent, ServedOrDoomed, NEW t \in Tasks, resume(t), ~Cancelled(t)
  PROVE  \E r \in Requests(Granted) : Pool!Return(r)
<1>1. /\ phase[t] = "wait" /\ status[t] = "READY"
      /\ phase' = [phase EXCEPT ![t] = "user"]
      /\ credit' = [credit EXCEPT ![sem[t]] = @ + granted[t]]
      /\ granted' = [granted EXCEPT ![t] = 0]
      /\ count' = count /\ decsem' = decsem /\ sem' = sem /\ status' = status
  BY DEF resume, Running
<1>2. granted[t] = decsem[t] /\ granted[t] > 0
  <2>1. killreq[t] = FALSE
    BY DEF Cancelled, ServedOrDoomed, Consistent, TypeOK
  <2>2. granted[t] = decsem[t]
    BY <1>1, <2>1 DEF ServedOrDoomed
  <2> QED BY <2>2 DEF Consistent, TypeOK
<1>3. t \in Granted /\ Granted' = Granted \ {t} /\ Ungranted' = Ungranted
  BY <1>1, <1>2 DEF Granted, Ungranted, Consistent, TypeOK
<1>4. Request(t) \in Requests(Granted)
  BY <1>3 DEF Requests
<1>5. Requests(Granted)' = Requests(Granted) \ {Request(t)}
  <2>1. Requests(Granted)' = Rq(Granted', sem, decsem)
    BY <1>1 DEF Requests, Request, Rq
  <2>2. \A r : r \in Rq(Granted', sem, decsem)
                 <=> r \in Rq(Granted, sem, decsem) /\ r[1] # t
    BY <1>3, RqWithout
  <2>3. Requests(Granted) = Rq(Granted, sem, decsem)
    BY RequestsAre
  <2>4. \A r \in Requests(Granted) : r = Request(t) <=> r[1] = t
    BY DEF Requests, Request
  <2> QED BY <2>1, <2>2, <2>3, <2>4
<1>6. Requests(Ungranted)' = Requests(Ungranted)
  BY <1>1, <1>3 DEF Requests, Request
<1>7. Request(t)[2] = sem[t] /\ Request(t)[3] = granted[t]
  BY <1>2 DEF Request
<1> WITNESS Request(t) \in Requests(Granted)
<1> QED BY <1>1, <1>5, <1>6, <1>7 DEF Pool!Return, Pool!Need

\* As every request takes a unit at least, a release serves no more requests
\* than there are units.
LEMMA ServesFew ==
  ASSUME NEW c \in Nat, NEW k \in Nat, NEW left \in [0 .. k -> 0 .. c],
         NEW need \in [1 .. k -> Nat \ {0}],
         left[0] = c,
         \A i \in 1 .. k : left[i] = left[i - 1] - need[i]
  PROVE  k <= c
<1> DEFINE Bad == {i \in 0 .. k : left[i] > c - i}
<1>1. Bad = {}
  <2>1. SUFFICES ASSUME Bad # {} PROVE FALSE
    OBVIOUS
  <2>2. Bad \subseteq Nat
    OBVIOUS
  <2>3. PICK m \in Bad : \A i \in Bad : m <= i
    BY <2>1, <2>2, LeastElement
  <2>4. m \in 1 .. k
    BY <2>3
  <2>5. m - 1 \in 0 .. k /\ m - 1 \notin Bad
    BY <2>3, <2>4
  <2>6. left[m - 1] <= c - (m - 1) /\ left[m - 1] \in Int /\ left[m] \in Int
    BY <2>4, <2>5
  <2>7. left[m] = left[m - 1] - need[m] /\ need[m] \in Nat \ {0}
    BY <2>4
  <2>8. left[m] > c - m
    BY <2>3
  <2> QED BY <2>4, <2>6, <2>7, <2>8
<1>2. k \in 0 .. k /\ left[k] >= 0 /\ left[k] \in Int
  OBVIOUS
<1>3. ~(left[k] > c - k)
  BY <1>1, <1>2
<1> QED BY <1>2, <1>3

\* The waiters a post wakes are requests that the units suffice for.
LEMMA WakeReleases ==
  ASSUME Consistent, GrantsOK, NEW s \in Sems, NEW n \in Nat,
         NEW k \in 0 .. Len(blocked[s]),
         NEW left \in [0 .. k -> 0 .. count[s] + n],
         left[0] = count[s] + n,
         \A i \in 1 .. k : left[i] = left[i - 1] - decsem[blocked[s][i]],
         credit[s] >= n, credit' = [credit EXCEPT ![s] = @ - n],
         Wake(s, k, left[k]), UNCHANGED callVars
  PROVE  Pool!Release(s, n)
<1> DEFINE q == blocked[s]
           woken == {q[i] : i \in 1 .. k}
           order == [i \in 1 .. k |-> Request(q[i])]
<1>1. /\ q \in Seq(Tasks) /\ Distinct(q) /\ Len(q) \in Nat
      /\ count[s] \in Nat /\ k \in Nat
  BY DEF Consistent, TypeOK, QueueConsistent
<1>2. \A i \in 1 .. k : /\ q[i] \in Tasks /\ q[i] \in Members(q)
                        /\ i \in 1 .. Len(q)
  BY <1>1 DEF Members
<1>3. \A t \in woken : /\ t \in Tasks /\ status[t] = "WAIT_SEM" /\ sem[t] = s
                       /\ phase[t] = "wait" /\ granted[t] = 0
                       /\ decsem[t] \in Nat \ {0}
  <2>1. ASSUME NEW t \in Tasks, t \in Members(q)
        PROVE  /\ status[t] = "WAIT_SEM" /\ sem[t] = s
               /\ phase[t] = "wait" /\ granted[t] = 0
               /\ decsem[t] \in Nat \ {0}
    BY <2>1 DEF GrantsOK, Consistent, TypeOK, QueueConsistent
  <2>2. \A t \in woken : t \in Tasks /\ t \in Members(q)
    BY <1>2
  <2> HIDE DEF woken, q
  <2> QED BY <2>1, <2>2
<1>4. /\ count' = [count EXCEPT ![s] = left[k]]
      /\ status' = [t \in Tasks |-> IF t \in woken THEN "READY" ELSE status[t]]
      /\ granted' = [t \in Tasks |->
                       IF t \in woken THEN decsem[t] ELSE granted[t]]
      /\ decsem' = decsem /\ sem' = sem /\ phase' = phase
  BY DEF Wake, callVars
<1>5. Rq(woken, sem, decsem) = {order[i] : i \in 1 .. k}
  BY DEF Rq, Request
<1>6. \A i \in 1 .. k : /\ order[i][1] = q[i] /\ order[i][2] = s
                        /\ order[i][3] = decsem[q[i]]
                        /\ order[i] = <<q[i], sem[q[i]], decsem[q[i]]>>
  BY <1>3 DEF Request
<1>7. \A i, j \in 1 .. k : order[i] = order[j] => i = j
  <2>1. ASSUME NEW i \in 1 .. k, NEW j \in 1 .. k, order[i] = order[j]
        PROVE  i = j
    <3>1. order[i][1] = q[i] /\ order[j][1] = q[j]
      BY <1>6
    <3>2. order[i][1] = order[j][1]
      BY <2>1
    <3>3. q[i] = q[j]
      BY <3>1, <3>2
    <3>4. i \in DOMAIN q /\ j \in DOMAIN q
      BY <1>1, <1>2
    <3>5. Distinct(q)
      BY <1>1
    <3> HIDE DEF q, woken, order
    <3> QED BY <3>3, <3>4, <3>5 DEF Distinct
  <2> HIDE DEF order
  <2> QED BY <2>1
<1>8. \A i \in 1 .. k : decsem[q[i]] \in Nat \ {0}
  BY <1>3
<1> HIDE DEF woken
<1>9. /\ Ungranted' = Ungranted \ woken /\ Granted' = Granted \cup woken
      /\ woken \subseteq Ungranted
  BY <1>3, <1>4 DEF Ungranted, Granted
<1>10. /\ Requests(Ungranted)' = Requests(Ungranted) \ {order[i] : i \in 1 .. k}
       /\ Requests(Granted)' = Requests(Granted) \cup {order[i] : i \in 1 .. k}
       /\ {order[i] : i \in 1 .. k} \subseteq Requests(Ungranted)
  <2>1. /\ Requests(Ungranted)' = Rq(Ungranted \ woken, sem, decsem)
        /\ Requests(Granted)' = Rq(Granted \cup woken, sem, decsem)
    BY <1>4, <1>9 DEF Requests, Request, Rq
  <2>2. Requests(Ungranted) = Rq(Ungranted, sem, decsem)
    BY RequestsAre
  <2>3. Requests(Granted) = Rq(Granted, sem, decsem)
    BY RequestsAre
  <2>4. Rq(Ungranted \ woken, sem, decsem)
          = Rq(Ungranted, sem, decsem) \ Rq(woken, sem, decsem)
    BY RqMinus
  <2>5. Rq(Granted \cup woken, sem, decsem)
          = Rq(Granted, sem, decsem) \cup Rq(woken, sem, decsem)
    BY SMTT(30), RqCup
  <2>6. Rq(woken, sem, decsem) \subseteq Rq(Ungranted, sem, decsem)
    BY <1>9 DEF Rq
  <2> HIDE DEF order
  <2> QED BY <1>5, <2>1, <2>2, <2>3, <2>4, <2>5, <2>6
<1>11. k <= count[s] + n
  <2> DEFINE need == [i \in 1 .. k |-> decsem[q[i]]]
             c == count[s] + n
  <2>1. /\ need \in [1 .. k -> Nat \ {0}]
        /\ c \in Nat /\ left[0] = c
    BY <1>1, <1>8
  <2>5. \A i \in 1 .. k : left[i] = left[i - 1] - need[i]
    OBVIOUS
  <2>2. left \in [0 .. k -> 0 .. c]
    OBVIOUS
  <2>3. k \in Nat
    BY <1>1
  <2>4. k <= c
    <3> HIDE DEF need, c
    <3> QED BY <2>1, <2>2, <2>3, <2>5, ServesFew
  <2> QED BY <2>4
<1>12. \A i \in 1 .. k : left[i] = left[i - 1] - Pool!Need(order[i])
  BY <1>6 DEF Pool!Need
<1>13. {t \in Tasks : status'[t] = "FREE"} = {t \in Tasks : status[t] = "FREE"}
  BY <1>3, <1>4
<1>14. order \in [1 .. k -> {r \in Requests(Ungranted) : r[2] = s}]
  <2>1. \A i \in 1 .. k : order[i] \in Requests(Ungranted) /\ order[i][2] = s
    BY <1>6, <1>10
  <2> QED BY <2>1
<1> HIDE DEF order
<1>15. k \in 0 .. count[s] + n
  BY <1>1, <1>11
<1> QED
  BY <1>4, <1>7, <1>10, <1>12, <1>13, <1>14, <1>15 DEF Pool!Release

\* Both kinds of post, as one statement about the loop that wakes.
LEMMA PostWakes ==
  ASSUME Consistent, NEW s \in Sems, Post(s)
  PROVE  \E n \in Units, k \in 0 .. Len(blocked[s]) :
           \E left \in [0 .. k -> 0 .. count[s] + n] :
             /\ left[0] = count[s] + n
             /\ \A i \in 1 .. k : left[i] = left[i - 1] - decsem[blocked[s][i]]
             /\ credit[s] >= n /\ credit' = [credit EXCEPT ![s] = @ - n]
             /\ Wake(s, k, left[k])
             /\ UNCHANGED <<callVars, cancelVars>>
<1>1. blocked[s] \in Seq(Tasks) /\ Len(blocked[s]) \in Nat /\ count[s] \in Nat
  BY DEF Consistent, TypeOK
<1>2. CASE sem_post(s)
  <2> DEFINE c == count[s] + 1
             d == decsem[blocked[s][1]]
  <2>1. /\ credit[s] >= 1 /\ credit' = [credit EXCEPT ![s] = @ - 1]
        /\ UNCHANGED <<callVars, cancelVars>>
    BY <1>2 DEF sem_post
  <2>2. 1 \in Units
    BY SemAssumption DEF SemAssumption
  <2>3. CASE blocked[s] # <<>> /\ d <= c
    <3> DEFINE left == [i \in 0 .. 1 |-> IF i = 0 THEN c ELSE c - d]
    <3>1. blocked[s][1] \in Tasks /\ 1 \in 0 .. Len(blocked[s])
      BY <1>1, <2>3
    <3>2. d \in Nat \ {0}
      BY <3>1 DEF Consistent, TypeOK
    <3>3. Wake(s, 1, c - d)
      BY <1>2, <2>3 DEF sem_post
    <3>4. left \in [0 .. 1 -> 0 .. count[s] + 1] /\ left[1] = c - d
      <4>1. count[s] \in Nat /\ d \in Nat /\ d <= c
        BY <1>1, <2>3, <3>2
      <4> HIDE DEF d
      <4>3. c \in 0 .. count[s] + 1 /\ c - d \in 0 .. count[s] + 1
        BY <4>1
      <4> HIDE DEF c
      <4>2. \A i \in 0 .. 1 : left[i] \in 0 .. count[s] + 1
        BY <4>3
      <4> QED BY <4>2
    <3>5. \A i \in 1 .. 1 : left[i] = left[i - 1] - decsem[blocked[s][i]]
      <4>1. SUFFICES ASSUME NEW i \in 1 .. 1
                     PROVE  left[i] = left[i - 1] - decsem[blocked[s][i]]
        OBVIOUS
      <4>2. i = 1
        BY <4>1
      <4> QED BY <4>2
    <3>6. left[0] = count[s] + 1
      OBVIOUS
    <3> HIDE DEF left
    <3>7. Wake(s, 1, left[1])
      BY <3>3, <3>4
    <3> QED BY <2>1, <2>2, <3>1, <3>4, <3>5, <3>6, <3>7
  <2>4. CASE ~(blocked[s] # <<>> /\ d <= c)
    <3> DEFINE left == [i \in 0 .. 0 |-> c]
    <3>1. Wake(s, 0, c)
      BY <1>2, <2>4 DEF sem_post
    <3>2. left \in [0 .. 0 -> 0 .. count[s] + 1] /\ left[0] = count[s] + 1
      BY <1>1
    <3>3. 0 \in 0 .. Len(blocked[s]) /\ Wake(s, 0, left[0])
      BY <1>1, <3>1
    <3> HIDE DEF left
    <3>4. \A i \in 1 .. 0 : left[i] = left[i - 1] - decsem[blocked[s][i]]
      OBVIOUS
    <3> QED BY <2>1, <2>2, <3>2, <3>3, <3>4
  <2> QED BY <2>3, <2>4
<1>3. ASSUME NEW n \in Units, sem_xpost(s, n)
      PROVE  \E k \in 0 .. Len(blocked[s]) :
               \E left \in [0 .. k -> 0 .. count[s] + n] :
                 /\ left[0] = count[s] + n
                 /\ \A i \in 1 .. k :
                      left[i] = left[i - 1] - decsem[blocked[s][i]]
                 /\ credit[s] >= n /\ credit' = [credit EXCEPT ![s] = @ - n]
                 /\ Wake(s, k, left[k])
                 /\ UNCHANGED <<callVars, cancelVars>>
  BY <1>3 DEF sem_xpost, WakeLoop
<1> QED BY <1>2, <1>3 DEF Post

LEMMA PostReleases ==
  ASSUME Consistent, GrantsOK, NEW s \in Sems, Post(s)
  PROVE  \E n \in Units : Pool!Release(s, n)
<1>1. PICK n \in Units, k \in 0 .. Len(blocked[s]) :
        \E left \in [0 .. k -> 0 .. count[s] + n] :
          /\ left[0] = count[s] + n
          /\ \A i \in 1 .. k : left[i] = left[i - 1] - decsem[blocked[s][i]]
          /\ credit[s] >= n /\ credit' = [credit EXCEPT ![s] = @ - n]
          /\ Wake(s, k, left[k])
          /\ UNCHANGED <<callVars, cancelVars>>
  BY PostWakes
<1>2. n \in Nat
  BY SemAssumption DEF SemAssumption
<1> QED BY <1>1, <1>2, WakeReleases

LEMMA TaskStepMaps ==
  ASSUME Consistent, GrantsOK, ServedOrDoomed, NEW t \in Tasks, TaskStep(t)
  PROVE  Pool!Next \/ UNCHANGED Pool!vars
<1>1. ASSUME Die(t) PROVE Pool!Next
  BY <1>1, DieLeaves DEF Pool!Next
<1>2. ASSUME NEW s \in Sems, NEW n \in Units, status[t] = "READY",
             phase[t] # "wait", TakeOrBlock(t, s, n)
      PROVE  Pool!Next
  BY <1>2, TakeOrBlockAsks DEF Pool!Next
<1>3. ASSUME NEW s \in Sems, sem_wait(t, s)
      PROVE  Pool!Next \/ UNCHANGED Pool!vars
  <2>1. CASE Cancelled(t)
    BY <1>1, <1>3, <2>1 DEF sem_wait
  <2>2. CASE ~Cancelled(t)
    <3>1. /\ phase[t] = "user"
          /\ phase' = [phase EXCEPT ![t] = "entry"]
          /\ sem' = [sem EXCEPT ![t] = s]
          /\ count' = count /\ credit' = credit /\ granted' = granted
          /\ decsem' = decsem /\ status' = status
      BY <1>3, <2>2 DEF sem_wait, Running, semVars
    <3>2. Ungranted' = Ungranted /\ Granted' = Granted
      BY <3>1 DEF Ungranted, Granted, Consistent, TypeOK
    <3>3. \A u \in Ungranted \cup Granted : sem'[u] = sem[u]
      BY <3>1 DEF Ungranted, Granted, Consistent, TypeOK
    <3>4. /\ Requests(Ungranted)' = Requests(Ungranted)
          /\ Requests(Granted)' = Requests(Granted)
      BY <3>1, <3>2, <3>3 DEF Requests, Request
    <3> QED BY <3>1, <3>4 DEF Pool!vars
  <2> QED BY <2>1, <2>2
<1>4. ASSUME sem_wait_body(t) PROVE Pool!Next
  <2>1. sem[t] \in Sems /\ 1 \in Units
    BY SemAssumption DEF SemAssumption, Consistent, TypeOK
  <2> QED BY <1>2, <1>4, <2>1 DEF sem_wait_body, Running
<1>5. ASSUME NEW s \in Sems, NEW n \in Units, sem_xwait(t, s, n)
      PROVE  Pool!Next
  BY <1>1, <1>2, <1>5 DEF sem_xwait, Running
<1>6. ASSUME NEW s \in Sems, NEW n \in Units, sem_trywait(t, s, n)
      PROVE  Pool!Next
  <2>1. /\ status[t] = "READY" /\ phase[t] = "user" /\ Available(s, n)
        /\ Take(s, n) /\ blocked' = blocked /\ granted' = granted
        /\ decsem' = decsem /\ sem' = sem /\ phase' = phase
        /\ status' = status /\ UNCHANGED cancelVars
    BY <1>6 DEF sem_trywait, Running, callVars
  <2>2. phase' = [phase EXCEPT ![t] = "user"]
    BY <2>1 DEF Consistent, TypeOK
  <2>3. TakeOrBlock(t, s, n)
    BY <2>1, <2>2 DEF TakeOrBlock
  <2> QED BY <1>2, <2>1, <2>3
<1>7. ASSUME resume(t) PROVE Pool!Next
  <2>1. CASE Cancelled(t)
    BY <1>1, <1>7, <2>1 DEF resume
  <2>2. CASE ~Cancelled(t)
    BY <1>7, <2>2, ResumeReturns DEF Pool!Next
  <2> QED BY <2>1, <2>2
<1>8. ASSUME NEW state \in CancelStates, task_setcancelstate(t, state)
      PROVE  UNCHANGED Pool!vars
  BY <1>8 DEF task_setcancelstate, semVars, callVars, Pool!vars, Requests,
              Request, Ungranted, Granted
<1>9. ASSUME NEW u \in Tasks, task_kill(t, u) PROVE UNCHANGED Pool!vars
  <2>1. /\ count' = count /\ credit' = credit /\ granted' = granted
        /\ decsem' = decsem /\ sem' = sem /\ phase' = phase
        /\ \A v \in Tasks : status'[v] = "FREE" <=> status[v] = "FREE"
    BY <1>9 DEF task_kill, callVars, Consistent, TypeOK
  <2> QED BY <2>1 DEF Pool!vars, Requests, Request, Ungranted, Granted
<1>10. ASSUME task_end(t) PROVE Pool!Next
  BY <1>1, <1>10 DEF task_end
<1> QED
  BY <1>3, <1>4, <1>5, <1>6, <1>7, <1>8, <1>9, <1>10 DEF TaskStep

-----------------------------------------------------------------------------
(* The grants, the refinement and the order of service *)

LEMMA TaskStepGrants ==
  ASSUME Consistent, GrantsOK, NEW t \in Tasks, TaskStep(t)
  PROVE  /\ GrantsOK'
         /\ \A u \in Tasks : granted'[u] = granted[u] \/ granted'[u] = 0
         /\ \A s \in Sems : blocked[s] # <<>> => count'[s] = count[s]
<1> DEFINE Goal == /\ GrantsOK'
                   /\ \A u \in Tasks : granted'[u] = granted[u] \/ granted'[u] = 0
                   /\ \A s \in Sems : blocked[s] # <<>> => count'[s] = count[s]
<1>1. ASSUME Die(t) PROVE Goal
  BY <1>1 DEF Die, GrantsOK, Consistent, TypeOK
<1>2. ASSUME NEW s \in Sems, NEW n, phase[t] # "wait", TakeOrBlock(t, s, n)
      PROVE  Goal
  BY <1>2 DEF TakeOrBlock, Take, Available, GrantsOK, Consistent, TypeOK
<1>3. ASSUME NEW s \in Sems, sem_wait(t, s) PROVE Goal
  BY <1>1, <1>3 DEF sem_wait, Running, semVars, GrantsOK, Consistent, TypeOK
<1>4. ASSUME sem_wait_body(t) PROVE Goal
  <2>1. sem[t] \in Sems
    BY DEF Consistent, TypeOK
  <2> QED BY <1>2, <1>4, <2>1 DEF sem_wait_body, Running
<1>5. ASSUME NEW s \in Sems, NEW n \in Units, sem_xwait(t, s, n) PROVE Goal
  BY <1>1, <1>2, <1>5 DEF sem_xwait, Running
<1>6. ASSUME NEW s \in Sems, NEW n \in Units, sem_trywait(t, s, n) PROVE Goal
  BY <1>6 DEF sem_trywait, Take, Available, callVars, GrantsOK, Consistent, TypeOK
<1>7. ASSUME resume(t) PROVE Goal
  BY <1>1, <1>7 DEF resume, Running, GrantsOK, Consistent, TypeOK
<1>8. ASSUME NEW state \in CancelStates, task_setcancelstate(t, state)
      PROVE  Goal
  BY <1>8 DEF task_setcancelstate, semVars, callVars, GrantsOK
<1>9. ASSUME NEW u \in Tasks, task_kill(t, u) PROVE Goal
  BY <1>9 DEF task_kill, callVars, GrantsOK, Consistent, TypeOK
<1>10. ASSUME task_end(t) PROVE Goal
  BY <1>1, <1>10 DEF task_end
<1> HIDE DEF Goal
<1>11. Goal
  BY <1>3, <1>4, <1>5, <1>6, <1>7, <1>8, <1>9, <1>10 DEF TaskStep
<1> QED BY <1>11 DEF Goal

LEMMA PostGrants ==
  ASSUME Consistent, GrantsOK, NEW s \in Sems, Post(s)
  PROVE  GrantsOK'
<1>1. PICK k \in 0 .. Len(blocked[s]) :
        UNCHANGED callVars /\ \E left : Wake(s, k, left)
  BY PostWakes
<1> DEFINE woken == {blocked[s][i] : i \in 1 .. k}
<1>2. /\ status' = [t \in Tasks |-> IF t \in woken THEN "READY" ELSE status[t]]
      /\ granted' = [t \in Tasks |->
                       IF t \in woken THEN decsem[t] ELSE granted[t]]
      /\ phase' = phase
  BY <1>1 DEF Wake, callVars
<1>3. \A t \in woken : phase[t] = "wait"
  <2>1. \A i \in 1 .. k : /\ blocked[s][i] \in Members(blocked[s])
                          /\ blocked[s][i] \in Tasks
    <3>1. blocked[s] \in Seq(Tasks) /\ Len(blocked[s]) \in Nat
      BY DEF Consistent, TypeOK
    <3>2. \A i \in 1 .. k : i \in 1 .. Len(blocked[s])
      BY <3>1
    <3> QED BY <3>1, <3>2 DEF Members
  <2> QED BY <2>1 DEF Consistent, QueueConsistent
<1> HIDE DEF woken
<1> QED BY <1>2, <1>3 DEF GrantsOK

LEMMA InitGrants == Init => GrantsOK
BY DEF Init, GrantsOK

LEMMA NextGrants == Consistent /\ GrantsOK /\ [Next]_vars => GrantsOK'
<1>1. ASSUME Consistent, GrantsOK, Next PROVE GrantsOK'
  BY <1>1, TaskStepGrants, PostGrants DEF Next
<1>2. ASSUME GrantsOK, UNCHANGED vars PROVE GrantsOK'
  BY <1>2 DEF vars, GrantsOK
<1> QED BY <1>1, <1>2

LEMMA InitMaps == Init => Pool!Init
<1> SUFFICES ASSUME Init PROVE Pool!Init
  OBVIOUS
<1>1. Ungranted = {} /\ Granted = {}
  BY DEF Init, Ungranted, Granted
<1>2. Requests(Ungranted) = {} /\ Requests(Granted) = {}
  BY <1>1 DEF Requests
<1>3. {t \in Tasks : status[t] = "FREE"} = {}
  BY DEF Init
<1>4. count \in [Sems -> 0 .. Total]
      /\ credit = [s \in Sems |-> Total - count[s]]
  BY DEF Init
<1> QED BY <1>2, <1>3, <1>4 DEF Pool!Init

\* Where no task disables cancellation, the semaphores implement the pool of
\* units, whatever waits, posts, kills and ends of tasks are interleaved.
THEOREM PoolIsImplemented == NeverDisabled => (Spec => ImplementsPool)
<1> SUFFICES ASSUME NeverDisabled PROVE Spec => ImplementsPool
  OBVIOUS
<1>1. Init => ServedOrDoomed
  BY DEF Init, ServedOrDoomed
<1>2. Consistent /\ ServedOrDoomed /\ [Next]_vars => ServedOrDoomed'
  <2>1. ASSUME Consistent, ServedOrDoomed, Next PROVE ServedOrDoomed'
    BY <2>1, TaskStepServed, PostServed DEF Next
  <2>2. ASSUME ServedOrDoomed, UNCHANGED vars PROVE ServedOrDoomed'
    BY <2>2 DEF vars, ServedOrDoomed
  <2> QED BY <2>1, <2>2
<1>3. Consistent /\ GrantsOK /\ ServedOrDoomed /\ [Next]_vars
        => [Pool!Next]_Pool!vars
  <2>1. ASSUME Consistent, GrantsOK, NEW s \in Sems, Post(s) PROVE Pool!Next
    BY <2>1, PostReleases DEF Pool!Next
  <2>2. ASSUME Consistent, GrantsOK, ServedOrDoomed, Next
        PROVE  Pool!Next \/ UNCHANGED Pool!vars
    BY <2>1, <2>2, TaskStepMaps DEF Next
  <2>3. ASSUME UNCHANGED vars PROVE UNCHANGED Pool!vars
    BY <2>3 DEF vars, Pool!vars, Requests, Request, Ungranted, Granted
  <2> QED BY <2>2, <2>3
<1>4. Spec => Pool!Init /\ [][Pool!Next]_Pool!vars
  BY <1>1, <1>2, <1>3, InitMaps, InitGrants, NextGrants, AlwaysConsistent,
     PTL DEF Spec
<1> QED BY <1>4 DEF ImplementsPool, Pool!Spec

\* The step part of NoOvertaking.
InOrderOfArrival ==
  \A s \in Sems :
    /\ \A i, j \in DOMAIN blocked[s] :
         i < j /\ granted'[blocked[s][j]] > 0
           => granted'[blocked[s][i]] > 0
    /\ blocked[s] # <<>> /\ blocked'[s] = blocked[s]
         => count'[s] >= count[s]

\* A blocked task has no grant before the step.
LEMMA QueuedUngranted ==
  ASSUME Consistent, GrantsOK, NEW s \in Sems, NEW i \in DOMAIN blocked[s]
  PROVE  /\ blocked[s][i] \in Tasks /\ granted[blocked[s][i]] = 0
         /\ sem[blocked[s][i]] = s /\ decsem[blocked[s][i]] > 0
<1>1. blocked[s][i] \in Tasks /\ blocked[s][i] \in Members(blocked[s])
  BY DEF Members, Consistent, TypeOK
<1> QED BY <1>1 DEF GrantsOK, Consistent, TypeOK, QueueConsistent

LEMMA PostInOrder ==
  ASSUME Consistent, GrantsOK, NEW r \in Sems, Post(r)
  PROVE  InOrderOfArrival
<1>1. PICK n \in Units, k \in 0 .. Len(blocked[r]) :
        \E left \in [0 .. k -> 0 .. count[r] + n] :
          left[0] = count[r] + n /\ Wake(r, k, left[k])
  BY PostWakes
<1>2. PICK left \in [0 .. k -> 0 .. count[r] + n] :
        left[0] = count[r] + n /\ Wake(r, k, left[k])
  BY <1>1
<1> DEFINE q == blocked[r]
           woken == {q[i] : i \in 1 .. k}
<1>3. /\ q \in Seq(Tasks) /\ Distinct(q) /\ Len(q) \in Nat /\ n \in Nat
      /\ k \in Nat /\ k <= Len(q) /\ count \in [Sems -> Nat]
      /\ blocked \in [Sems -> Seq(Tasks)]
  BY SemAssumption DEF SemAssumption, Consistent, TypeOK, QueueConsistent
<1>4. /\ count' = [count EXCEPT ![r] = left[k]]
      /\ blocked' = [blocked EXCEPT ![r] = DropFirst(k, q)]
      /\ granted' = [t \in Tasks |->
                       IF t \in woken THEN decsem[t] ELSE granted[t]]
  BY <1>2 DEF Wake
<1>5. Len(DropFirst(k, q)) = Len(q) - k
  BY <1>3, DropFirstProperties
<1>6. \A t \in woken : sem[t] = r
  <2>1. \A i \in 1 .. k : i \in DOMAIN q
    BY <1>3
  <2> QED BY <2>1, QueuedUngranted
<1>7. ASSUME NEW s \in Sems, NEW i \in DOMAIN blocked[s],
             NEW j \in DOMAIN blocked[s],
             i < j, granted'[blocked[s][j]] > 0
      PROVE  granted'[blocked[s][i]] > 0
  <2>1. /\ blocked[s][j] \in Tasks /\ granted[blocked[s][j]] = 0
        /\ sem[blocked[s][j]] = s
    BY QueuedUngranted
  <2>2. blocked[s][j] \in woken
    <3> HIDE DEF woken
    <3> QED BY <1>4, <1>7, <2>1
  <2>3. s = r
    BY <1>6, <2>1, <2>2
  <2>4. PICK m \in 1 .. k : q[j] = q[m]
    BY <2>2, <2>3
  <2>5. m = j
    BY <1>3, <1>7, <2>3, <2>4 DEF Distinct
  <2>6. i \in 1 .. k
    BY <1>3, <1>7, <2>3, <2>4, <2>5
  <2>7. q[i] \in woken
    BY <2>6
  <2>8. q[i] \in Tasks /\ decsem[q[i]] > 0
    BY <2>3, QueuedUngranted
  <2> HIDE DEF woken
  <2> QED BY <1>4, <2>3, <2>7, <2>8
<1>8. ASSUME NEW s \in Sems, blocked'[s] = blocked[s]
      PROVE  count'[s] >= count[s]
  <2>1. CASE s = r
    <3>1. blocked'[s] = DropFirst(k, q)
      BY <1>3, <1>4, <2>1
    <3>2. k = 0
      BY <1>3, <1>5, <1>8, <2>1, <3>1
    <3>3. count'[r] = count[r] + n
      BY <1>2, <1>3, <1>4, <3>2
    <3> QED BY <1>3, <2>1, <3>3
  <2>2. CASE s # r
    BY <1>3, <1>4, <2>2
  <2> QED BY <2>1, <2>2
<1> QED BY <1>7, <1>8 DEF InOrderOfArrival

LEMMA TaskStepInOrder ==
  ASSUME Consistent, GrantsOK, NEW t \in Tasks, TaskStep(t)
  PROVE  InOrderOfArrival
<1>1. \A s \in Sems : \A i \in DOMAIN blocked[s] :
        blocked[s][i] \in Tasks /\ granted[blocked[s][i]] = 0
  BY QueuedUngranted
<1>2. /\ \A u \in Tasks : granted'[u] = granted[u] \/ granted'[u] = 0
      /\ \A s \in Sems : blocked[s] # <<>> => count'[s] = count[s]
  BY TaskStepGrants
<1>3. \A s \in Sems : count[s] \in Nat
  BY DEF Consistent, TypeOK
<1> QED BY <1>1, <1>2, <1>3 DEF InOrderOfArrival

\* The queue of a semaphore is FIFO: a waiter is served only with, or after,
\* all that precede it, and no wait takes units past a waiting task.
THEOREM ServedInOrder == Spec => NoOvertaking
<1>1. Consistent /\ GrantsOK /\ [Next]_vars => [InOrderOfArrival]_vars
  <2>1. ASSUME Consistent, GrantsOK, Next PROVE InOrderOfArrival
    BY <2>1, TaskStepInOrder, PostInOrder DEF Next
  <2> QED BY <2>1 DEF vars
<1>2. Spec => [][InOrderOfArrival]_vars
  BY <1>1, InitGrants, NextGrants, AlwaysConsistent, PTL DEF Spec
<1> QED BY <1>2 DEF NoOvertaking, InOrderOfArrival

-----------------------------------------------------------------------------
(* The units in flight *)

LEMMA InFlightIs == \A s : InFlight(s) = Bundle(Pending(s), granted)
BY DEF InFlight

\* Only the tasks with some units count.
SameUnits(A, S, g, S2, g2) ==
  /\ S \subseteq A /\ S2 \subseteq A
  /\ \A t \in A : g[t] \in Nat /\ g2[t] = g[t]
  /\ \A t \in A : g[t] # 0 => (t \in S <=> t \in S2)

LEMMA BundleSame ==
  ASSUME NEW A, NEW S, NEW g, NEW S2, NEW g2, SameUnits(A, S, g, S2, g2)
  PROVE  Bundle(S2, g2) = Bundle(S, g)
<1> USE DEF SameUnits
<1>1. \A t \in A : \A i \in 1 .. g[t] : t \in S <=> t \in S2
  OBVIOUS
<1>2. \A x : (\E t \in S : \E i \in 1 .. g[t] : x = <<t, i>>)
               <=> (\E t \in S2 : \E i \in 1 .. g2[t] : x = <<t, i>>)
  BY <1>1
<1>3. \A x : x \in Bundle(S, g) <=> \E t \in S : \E i \in 1 .. g[t] : x = <<t, i>>
  BY BundleHolds
<1>4. \A x : x \in Bundle(S2, g2)
               <=> \E t \in S2 : \E i \in 1 .. g2[t] : x = <<t, i>>
  BY BundleHolds
<1>5. \A x : x \in Bundle(S, g) <=> x \in Bundle(S2, g2)
  BY <1>2, <1>3, <1>4
<1> QED BY <1>5

-----------------------------------------------------------------------------
(* What a step does to the units of a semaphore *)

FlightFinite == \A s \in Sems : IsFiniteSet(InFlight(s))

\* The units of s stay what they are, those in flight being a finite set ...
Kept(s) == IsFiniteSet(InFlight(s)') /\ Units_of(s)' = Units_of(s)
\* ... or t, about to be killed, takes some with it.
KeptOrLost(t, s) ==
  /\ IsFiniteSet(InFlight(s)')
  /\ Units_of(s)' <= Units_of(s)
  /\ Units_of(s)' = Units_of(s) \/ killreq[t]

LEMMA PendingTasks ==
  ASSUME Consistent, NEW s
  PROVE  Pending(s) \subseteq Tasks /\ \A t \in Tasks : granted[t] \in Nat
BY DEF Pending, Consistent, TypeOK

LEMMA UnitsType ==
  ASSUME Consistent, FlightFinite, NEW s \in Sems
  PROVE  /\ count[s] \in Nat /\ credit[s] \in Nat
         /\ Cardinality(InFlight(s)) \in Nat /\ Units_of(s) \in Nat
<1>1. count[s] \in Nat /\ credit[s] \in Nat
  BY DEF Consistent, TypeOK
<1>2. Cardinality(InFlight(s)) \in Nat
  BY FS_CardinalityType DEF FlightFinite
<1> QED BY <1>1, <1>2 DEF Units_of

\* A step of a task without a grant moves nothing that is in flight.
LEMMA SameFlight ==
  ASSUME Consistent, NEW s, granted' = granted,
         \A u \in Tasks :
           granted[u] # 0 => phase'[u] = phase[u] /\ sem'[u] = sem[u]
  PROVE  InFlight(s)' = InFlight(s)
<1> DEFINE S2 == {t \in Tasks : phase'[t] = "wait" /\ sem'[t] = s}
<1>1. InFlight(s) = Bundle(Pending(s), granted)
  BY InFlightIs
<1>2. InFlight(s)' = Bundle(S2, granted')
  BY DEF InFlight, Pending
<1>3. \A t \in Tasks : granted[t] # 0 => (t \in Pending(s) <=> t \in S2)
  BY DEF Pending
<1>4. S2 \subseteq Tasks
  OBVIOUS
<1> HIDE DEF S2
<1>5. Bundle(S2, granted') = Bundle(Pending(s), granted)
  <2>1. Pending(s) \subseteq Tasks
    BY PendingTasks
  <2>2. \A t \in Tasks : granted[t] \in Nat /\ granted'[t] = granted[t]
    BY PendingTasks
  <2>3. SameUnits(Tasks, Pending(s), granted, S2, granted')
    BY <1>3, <1>4, <2>1, <2>2 DEF SameUnits
  <2> QED BY <2>3, BundleSame
<1> QED BY <1>1, <1>2, <1>5

\* The end of a wait, as a success or as a death.
LEMMA VacateFlight ==
  ASSUME Consistent, NEW t \in Tasks, NEW s,
         phase' = [phase EXCEPT ![t] = "user"],
         granted' = [granted EXCEPT ![t] = 0], sem' = sem,
         IsFiniteSet(InFlight(s))
  PROVE  /\ IsFiniteSet(InFlight(s)')
         /\ t \in Pending(s) =>
              Cardinality(InFlight(s)') = Cardinality(InFlight(s)) - granted[t]
         /\ t \notin Pending(s) =>
              Cardinality(InFlight(s)') = Cardinality(InFlight(s))
<1> DEFINE S2 == {u \in Tasks : phase'[u] = "wait" /\ sem'[u] = s}
<1>1. InFlight(s) = Bundle(Pending(s), granted)
  BY InFlightIs
<1>2. InFlight(s)' = Bundle(S2, granted')
  BY DEF InFlight, Pending
<1>3. S2 = Pending(s) \ {t}
  BY DEF Pending, Consistent, TypeOK
<1>4. \A u \in Pending(s) \ {t} : granted[u] \in Nat /\ granted'[u] = granted[u]
  BY DEF Pending, Consistent, TypeOK
<1>5. InFlight(s)' = Bundle(Pending(s) \ {t}, granted)
  <2> HIDE DEF S2
  <2> DEFINE A == Pending(s) \ {t}
  <2>1. Bundle(A, granted') = Bundle(A, granted)
    <3> HIDE DEF A
    <3>1. \A u \in A : granted[u] \in Nat /\ granted'[u] = granted[u]
      BY <1>4 DEF A
    <3>2. SameUnits(A, A, granted, A, granted')
      BY <3>1 DEF SameUnits
    <3> QED BY <3>2, BundleSame
  <2> QED BY <1>2, <1>3, <2>1
<1>6. granted[t] \in Nat
  BY PendingTasks
<1> HIDE DEF S2
<1>7. CASE t \in Pending(s)
  BY <1>1, <1>5, <1>6, <1>7, BundleDrop
<1>8. CASE t \notin Pending(s)
  <2>1. Pending(s) \ {t} = Pending(s)
    BY <1>8
  <2> QED BY <1>1, <1>5, <1>8, <2>1
<1> QED BY <1>7, <1>8

LEMMA DieUnits ==
  ASSUME Consistent, GrantsOK, FlightFinite, NEW t \in Tasks, NEW s \in Sems,
         Die(t), phase[t] # "wait" \/ killreq[t]
  PROVE  KeptOrLost(t, s)
<1>1. /\ phase' = [phase EXCEPT ![t] = "user"]
      /\ granted' = [granted EXCEPT ![t] = 0] /\ sem' = sem
      /\ count' = count /\ credit' = credit
  BY DEF Die
<1>2. /\ IsFiniteSet(InFlight(s)')
      /\ t \in Pending(s) =>
           Cardinality(InFlight(s)') = Cardinality(InFlight(s)) - granted[t]
      /\ t \notin Pending(s) =>
           Cardinality(InFlight(s)') = Cardinality(InFlight(s))
  BY <1>1, VacateFlight DEF FlightFinite
<1>3. Units_of(s)' = count[s] + credit[s] + Cardinality(InFlight(s)')
  BY <1>1 DEF Units_of
<1>4. granted[t] \in Nat /\ (t \in Pending(s) => phase[t] = "wait")
  BY PendingTasks DEF Pending
<1>5. /\ count[s] \in Nat /\ credit[s] \in Nat
      /\ Cardinality(InFlight(s)) \in Nat
      /\ Units_of(s) = count[s] + credit[s] + Cardinality(InFlight(s))
  BY UnitsType DEF Units_of
<1>6. CASE t \in Pending(s)
  <2>1. Cardinality(InFlight(s)') = Cardinality(InFlight(s)) - granted[t]
    BY <1>2, <1>6
  <2>2. killreq[t]
    BY <1>4, <1>6
  <2>3. Units_of(s)' <= Units_of(s)
    BY <1>3, <1>4, <1>5, <2>1
  <2> QED BY <1>2, <2>2, <2>3 DEF KeptOrLost
<1>7. CASE t \notin Pending(s)
  <2>1. Units_of(s)' = Units_of(s)
    BY <1>2, <1>3, <1>5, <1>7
  <2> QED BY <1>2, <1>5, <2>1 DEF KeptOrLost
<1> QED BY <1>6, <1>7

\* A step that leaves the counter and the callers' units as a sum, and what
\* is in flight.
LEMMA SameUnitsKept ==
  ASSUME Consistent, FlightFinite, NEW s \in Sems,
         InFlight(s)' = InFlight(s),
         count'[s] + credit'[s] = count[s] + credit[s]
  PROVE  Kept(s)
<1>1. IsFiniteSet(InFlight(s)')
  BY DEF FlightFinite
<1>2. Units_of(s)' = count'[s] + credit'[s] + Cardinality(InFlight(s)')
  BY DEF Units_of
<1>3. Units_of(s) = count[s] + credit[s] + Cardinality(InFlight(s))
  BY DEF Units_of
<1> QED BY <1>1, <1>2, <1>3 DEF Kept

LEMMA TakeOrBlockUnits ==
  ASSUME Consistent, GrantsOK, FlightFinite, NEW t \in Tasks, NEW s \in Sems,
         NEW r \in Sems, NEW n \in Units, phase[t] # "wait",
         TakeOrBlock(t, r, n)
  PROVE  Kept(s)
<1>1. /\ granted' = granted
      /\ \A u \in Tasks :
           granted[u] # 0 => phase'[u] = phase[u] /\ sem'[u] = sem[u]
  BY DEF TakeOrBlock, GrantsOK, Consistent, TypeOK
<1>2. InFlight(s)' = InFlight(s)
  BY <1>1, SameFlight
<1>3. count'[s] + credit'[s] = count[s] + credit[s]
  <2>1. n \in Nat
    BY SemAssumption DEF SemAssumption
  <2>2. /\ count \in [Sems -> Nat] /\ credit \in [Sems -> Nat]
    BY DEF Consistent, TypeOK
  <2>3. CASE Available(r, n)
    <3>1. /\ count' = [count EXCEPT ![r] = @ - n]
          /\ credit' = [credit EXCEPT ![r] = @ + n]
      BY <2>3 DEF TakeOrBlock, Take
    <3>2. CASE s = r
      BY <2>1, <2>2, <3>1, <3>2
    <3>3. CASE s # r
      BY <2>2, <3>1, <3>3
    <3> QED BY <3>2, <3>3
  <2>4. CASE ~Available(r, n)
    BY <2>4 DEF TakeOrBlock
  <2> QED BY <2>3, <2>4
<1> QED BY <1>2, <1>3, SameUnitsKept

LEMMA ResumeUnits ==
  ASSUME Consistent, FlightFinite, NEW t \in Tasks, NEW s \in Sems,
         resume(t), ~Cancelled(t)
  PROVE  Kept(s)
<1>1. /\ phase[t] = "wait"
      /\ phase' = [phase EXCEPT ![t] = "user"]
      /\ credit' = [credit EXCEPT ![sem[t]] = @ + granted[t]]
      /\ granted' = [granted EXCEPT ![t] = 0] /\ sem' = sem /\ count' = count
  BY DEF resume, Running
<1>2. /\ IsFiniteSet(InFlight(s)')
      /\ t \in Pending(s) =>
           Cardinality(InFlight(s)') = Cardinality(InFlight(s)) - granted[t]
      /\ t \notin Pending(s) =>
           Cardinality(InFlight(s)') = Cardinality(InFlight(s))
  BY <1>1, VacateFlight DEF FlightFinite
<1>3. t \in Pending(s) <=> sem[t] = s
  BY <1>1 DEF Pending
<1>4. Units_of(s)' = count[s] + credit'[s] + Cardinality(InFlight(s)')
  BY <1>1 DEF Units_of
<1>5. /\ count[s] \in Nat /\ credit[s] \in Nat
      /\ Cardinality(InFlight(s)) \in Nat /\ granted[t] \in Nat
      /\ Units_of(s) = count[s] + credit[s] + Cardinality(InFlight(s))
  BY UnitsType, PendingTasks DEF Units_of
<1>6. credit \in [Sems -> Nat] /\ sem[t] \in Sems
  BY DEF Consistent, TypeOK
<1>7. CASE sem[t] = s
  <2>1. credit'[s] = credit[s] + granted[t]
    BY <1>1, <1>6, <1>7
  <2>2. Cardinality(InFlight(s)') = Cardinality(InFlight(s)) - granted[t]
    BY <1>2, <1>3, <1>7
  <2>3. Units_of(s)' = Units_of(s)
    BY <1>4, <1>5, <2>1, <2>2
  <2> QED BY <1>2, <2>3 DEF Kept
<1>8. CASE sem[t] # s
  <2>1. credit'[s] = credit[s]
    BY <1>1, <1>6, <1>8
  <2>2. Cardinality(InFlight(s)') = Cardinality(InFlight(s))
    BY <1>2, <1>3, <1>8
  <2>3. Units_of(s)' = Units_of(s)
    BY <1>4, <1>5, <2>1, <2>2
  <2> QED BY <1>2, <2>3 DEF Kept
<1> QED BY <1>7, <1>8

LEMMA TaskStepUnits ==
  ASSUME Consistent, GrantsOK, FlightFinite, NEW t \in Tasks, NEW s \in Sems,
         TaskStep(t)
  PROVE  KeptOrLost(t, s)
<1>1. ASSUME Kept(s) PROVE KeptOrLost(t, s)
  <2>1. Units_of(s)' <= Units_of(s)
    BY <1>1, UnitsType DEF Kept
  <2> QED BY <1>1, <2>1 DEF Kept, KeptOrLost
<1>2. ASSUME NEW r \in Sems, sem_wait(t, r) PROVE KeptOrLost(t, s)
  <2>1. phase[t] = "user"
    BY <1>2 DEF sem_wait, Running
  <2>2. CASE Cancelled(t)
    BY <1>2, <2>1, <2>2, DieUnits DEF sem_wait
  <2>3. CASE ~Cancelled(t)
    <3>1. /\ phase' = [phase EXCEPT ![t] = "entry"]
          /\ sem' = [sem EXCEPT ![t] = r]
          /\ count' = count /\ credit' = credit /\ granted' = granted
      BY <1>2, <2>3 DEF sem_wait, semVars
    <3>2. \A u \in Tasks :
            granted[u] # 0 => phase'[u] = phase[u] /\ sem'[u] = sem[u]
      BY <2>1, <3>1 DEF GrantsOK, Consistent, TypeOK
    <3> QED BY <1>1, <3>1, <3>2, SameFlight, SameUnitsKept
  <2> QED BY <2>2, <2>3
<1>3. ASSUME sem_wait_body(t) PROVE KeptOrLost(t, s)
  <2>1. sem[t] \in Sems /\ 1 \in Units
    BY SemAssumption DEF SemAssumption, Consistent, TypeOK
  <2> QED BY <1>1, <1>3, <2>1, TakeOrBlockUnits DEF sem_wait_body, Running
<1>4. ASSUME NEW r \in Sems, NEW n \in Units, sem_xwait(t, r, n)
      PROVE  KeptOrLost(t, s)
  BY <1>1, <1>4, DieUnits, TakeOrBlockUnits DEF sem_xwait, Running
<1>5. ASSUME NEW r \in Sems, NEW n \in Units, sem_trywait(t, r, n)
      PROVE  KeptOrLost(t, s)
  <2>1. /\ phase[t] = "user" /\ Available(r, n) /\ Take(r, n)
        /\ blocked' = blocked /\ granted' = granted
        /\ decsem' = decsem /\ sem' = sem /\ phase' = phase
        /\ status' = status /\ UNCHANGED cancelVars
    BY <1>5 DEF sem_trywait, Running, callVars
  <2>2. phase' = [phase EXCEPT ![t] = "user"]
    BY <2>1 DEF Consistent, TypeOK
  <2>3. TakeOrBlock(t, r, n)
    BY <2>1, <2>2 DEF TakeOrBlock
  <2> QED BY <1>1, <2>1, <2>3, TakeOrBlockUnits
<1>6. ASSUME resume(t) PROVE KeptOrLost(t, s)
  <2>1. CASE Cancelled(t)
    BY <1>6, <2>1, DieUnits DEF resume, Cancelled
  <2>2. CASE ~Cancelled(t)
    BY <1>1, <1>6, <2>2, ResumeUnits
  <2> QED BY <2>1, <2>2
<1>7. ASSUME UNCHANGED <<count, granted, credit, callVars>>
      PROVE  KeptOrLost(t, s)
  <2>1. /\ count' = count /\ credit' = credit /\ granted' = granted
        /\ phase' = phase /\ sem' = sem
    BY <1>7 DEF callVars
  <2> QED BY <1>1, <2>1, SameFlight, SameUnitsKept
<1>8. ASSUME NEW state \in CancelStates, task_setcancelstate(t, state)
      PROVE  KeptOrLost(t, s)
  BY <1>7, <1>8 DEF task_setcancelstate, semVars
<1>9. ASSUME NEW u \in Tasks, task_kill(t, u) PROVE KeptOrLost(t, s)
  BY <1>7, <1>9 DEF task_kill
<1>10. ASSUME task_end(t) PROVE KeptOrLost(t, s)
  BY <1>10, DieUnits DEF task_end, Running
<1> QED
  BY <1>2, <1>3, <1>4, <1>5, <1>6, <1>8, <1>9, <1>10 DEF TaskStep

\* The turns of the loop of a post hand out what they take from the counter.
LoopSpends(c, k, left, q, g) ==
  /\ c \in Nat /\ k \in Nat /\ left \in [0 .. k -> 0 .. c] /\ left[0] = c
  /\ \A i, j \in 1 .. k : q[i] = q[j] => i = j
  /\ \A i \in 1 .. k : g[q[i]] \in Nat /\ left[i] = left[i - 1] - g[q[i]]

FirstOf(q, k) == {q[i] : i \in 1 .. k}

LEMMA LoopBundle ==
  ASSUME NEW c, NEW k, NEW left, NEW q, NEW g, LoopSpends(c, k, left, q, g)
  PROVE  /\ IsFiniteSet(Bundle(FirstOf(q, k), g))
         /\ Cardinality(Bundle(FirstOf(q, k), g)) = c - left[k]
<1>0. /\ c \in Nat /\ k \in Nat /\ left \in [0 .. k -> 0 .. c] /\ left[0] = c
      /\ \A i, j \in 1 .. k : q[i] = q[j] => i = j
      /\ \A i \in 1 .. k : g[q[i]] \in Nat /\ left[i] = left[i - 1] - g[q[i]]
  BY DEF LoopSpends
<1> DEFINE First(m) == {q[i] : i \in 1 .. m}
           Good(m) == /\ IsFiniteSet(Bundle(First(m), g))
                      /\ Cardinality(Bundle(First(m), g)) = c - left[m]
           Bad == {m \in 0 .. k : ~Good(m)}
<1>1. Good(0)
  <2>1. First(0) = {}
    OBVIOUS
  <2>2. Bundle(First(0), g) = {}
    BY <2>1 DEF Bundle
  <2>3. IsFiniteSet(Bundle(First(0), g)) /\ Cardinality(Bundle(First(0), g)) = 0
    BY <2>2, FS_EmptySet
  <2> QED BY <1>0, <2>3
<1>2. ASSUME NEW m \in 1 .. k, Good(m - 1) PROVE Good(m)
  <2>1. First(m) = First(m - 1) \cup {q[m]} /\ q[m] \notin First(m - 1)
    <3>1. 1 .. m = (1 .. (m - 1)) \cup {m}
      BY <1>0
    <3>2. \A i \in 1 .. (m - 1) : i \in 1 .. k /\ i # m
      BY <1>0
    <3>3. First(m) = First(m - 1) \cup {q[m]}
      <4>1. \A A, B : A = B \cup {m}
              => {q[i] : i \in A} = {q[i] : i \in B} \cup {q[m]}
        OBVIOUS
      <4> QED BY <3>1, <4>1
    <3>4. q[m] \notin First(m - 1)
      BY <1>0, <3>2
    <3> QED BY <3>3, <3>4
  <2>2. g[q[m]] \in Nat /\ left[m] = left[m - 1] - g[q[m]]
    BY <1>0
  <2>3. left[m] \in Int /\ left[m - 1] \in Int
    BY <1>0
  <2> HIDE DEF First
  <2>4. /\ IsFiniteSet(Bundle(First(m - 1), g))
        /\ Cardinality(Bundle(First(m - 1), g)) = c - left[m - 1]
    BY <1>2
  <2>5. /\ IsFiniteSet(Bundle(First(m), g))
        /\ Cardinality(Bundle(First(m), g))
             = Cardinality(Bundle(First(m - 1), g)) + g[q[m]]
    <3> DEFINE F == First(m - 1)
               e == q[m]
    <3>1. e \notin F /\ g[e] \in Nat /\ IsFiniteSet(Bundle(F, g))
      BY <2>1, <2>2, <2>4
    <3>2. First(m) = F \cup {e}
      BY <2>1
    <3> HIDE DEF F, e
    <3>3. /\ IsFiniteSet(Bundle(F \cup {e}, g))
          /\ Cardinality(Bundle(F \cup {e}, g)) = Cardinality(Bundle(F, g)) + g[e]
      BY <3>1, BundleAdd
    <3> QED BY <3>2, <3>3 DEF F, e
  <2> QED BY <1>0, <2>2, <2>3, <2>4, <2>5
<1> HIDE DEF Good
<1>3. Bad = {}
  <2>1. SUFFICES ASSUME Bad # {} PROVE FALSE
    OBVIOUS
  <2>2. Bad \subseteq Nat
    BY <1>0
  <2>3. PICK m \in Bad : \A i \in Bad : m <= i
    BY <2>1, <2>2, LeastElement
  <2>4. m \in 1 .. k
    BY <1>0, <1>1, <2>3
  <2>5. m - 1 \in 0 .. k /\ m - 1 \notin Bad
    BY <1>0, <2>3, <2>4
  <2> QED BY <1>0, <1>2, <2>3, <2>4, <2>5
<1>4. k \in 0 .. k
  BY <1>0
<1>5. Good(k)
  BY <1>3, <1>4
<1> QED BY <1>5 DEF Good, FirstOf

\* What a post hands out comes from the caller and the counter.
LEMMA PostUnits ==
  ASSUME Consistent, GrantsOK, FlightFinite, NEW r \in Sems, NEW s \in Sems,
         Post(r)
  PROVE  Kept(s)
<1>1. PICK n \in Units, k \in 0 .. Len(blocked[r]) :
        \E left \in [0 .. k -> 0 .. count[r] + n] :
          /\ left[0] = count[r] + n
          /\ \A i \in 1 .. k : left[i] = left[i - 1] - decsem[blocked[r][i]]
          /\ credit[r] >= n /\ credit' = [credit EXCEPT ![r] = @ - n]
          /\ Wake(r, k, left[k])
          /\ UNCHANGED <<callVars, cancelVars>>
  BY PostWakes
<1>2. PICK left \in [0 .. k -> 0 .. count[r] + n] :
          /\ left[0] = count[r] + n
          /\ \A i \in 1 .. k : left[i] = left[i - 1] - decsem[blocked[r][i]]
          /\ credit[r] >= n /\ credit' = [credit EXCEPT ![r] = @ - n]
          /\ Wake(r, k, left[k])
          /\ UNCHANGED <<callVars, cancelVars>>
  BY <1>1
<1> DEFINE q == blocked[r]
           woken == {q[i] : i \in 1 .. k}
<1>3. /\ q \in Seq(Tasks) /\ Distinct(q) /\ Len(q) \in Nat /\ n \in Nat
      /\ k \in Nat /\ k <= Len(q) /\ count \in [Sems -> Nat]
      /\ credit \in [Sems -> Nat]
  BY SemAssumption DEF SemAssumption, Consistent, TypeOK, QueueConsistent
<1>4. /\ count' = [count EXCEPT ![r] = left[k]]
      /\ granted' = [t \in Tasks |->
                       IF t \in woken THEN decsem[t] ELSE granted[t]]
      /\ phase' = phase /\ sem' = sem
  BY <1>2 DEF Wake, callVars
<1>5. \A i \in 1 .. k : /\ q[i] \in Tasks /\ q[i] \in Members(q)
                        /\ granted[q[i]] = 0 /\ sem[q[i]] = r
                        /\ decsem[q[i]] \in Nat
  <2>1. \A i \in 1 .. k : i \in DOMAIN q
    BY <1>3
  <2> QED BY <2>1, QueuedUngranted DEF Members, Consistent, TypeOK
<1>6. \A t \in woken : t \in Pending(r) /\ granted[t] = 0 /\ sem[t] = r
  <2>1. \A i \in 1 .. k : phase[q[i]] = "wait"
    BY <1>5 DEF Consistent, QueueConsistent
  <2> QED BY <1>5, <2>1 DEF Pending
<1>7. /\ IsFiniteSet(Bundle(woken, decsem))
      /\ Cardinality(Bundle(woken, decsem)) = (count[r] + n) - left[k]
  <2> DEFINE c == count[r] + n
  <2>1. c \in Nat /\ left \in [0 .. k -> 0 .. c] /\ left[0] = c /\ k \in Nat
    BY <1>2, <1>3
  <2>2. \A i, j \in 1 .. k : q[i] = q[j] => i = j
    BY <1>3 DEF Distinct
  <2>3. \A i \in 1 .. k : /\ decsem[q[i]] \in Nat
                          /\ left[i] = left[i - 1] - decsem[q[i]]
    BY <1>2, <1>5
  <2> HIDE DEF c, q
  <2>5. LoopSpends(c, k, left, q, decsem)
    BY <2>1, <2>2, <2>3 DEF LoopSpends
  <2>4. /\ IsFiniteSet(Bundle(FirstOf(q, k), decsem))
        /\ Cardinality(Bundle(FirstOf(q, k), decsem)) = c - left[k]
    BY <2>5, LoopBundle
  <2>6. FirstOf(q, k) = woken
    BY DEF FirstOf
  <2> HIDE DEF woken
  <2> QED BY <2>4, <2>6 DEF c
<1>8. \A x : InFlight(x)' = Bundle(Pending(x), granted')
  BY <1>4 DEF InFlight, Pending
<1>9. Units_of(s)' = count'[s] + credit'[s] + Cardinality(InFlight(s)')
  BY DEF Units_of
<1> HIDE DEF woken, q
<1>10. CASE s # r
  <2>1. count'[s] = count[s] /\ credit'[s] = credit[s]
    BY <1>2, <1>3, <1>4, <1>10
  <2>2. SameUnits(Pending(s), Pending(s), granted, Pending(s), granted')
    <3>1. \A t \in Pending(s) : t \in Tasks /\ sem[t] = s
      BY DEF Pending
    <3>2. \A t \in Pending(s) : granted[t] \in Nat
      BY <3>1, PendingTasks
    <3>3. \A t \in Pending(s) : t \notin woken
      BY <1>6, <1>10, <3>1
    <3>4. \A t \in Pending(s) : granted'[t] = granted[t]
      BY <1>4, <3>1, <3>3
    <3> QED BY <3>2, <3>4 DEF SameUnits
  <2>3. Bundle(Pending(s), granted') = Bundle(Pending(s), granted)
    BY <2>2, BundleSame
  <2>4. InFlight(s)' = InFlight(s)
    BY <1>8, <2>3, InFlightIs
  <2> QED BY <2>1, <2>4, SameUnitsKept
<1>11. CASE s = r
  <2> DEFINE P == Pending(r)
             B == Bundle(P, granted)
             W == Bundle(woken, decsem)
  <2>1. Bundle(P, granted') = B \cup W
    <3>1. \A t \in P : t \in Tasks
      BY DEF Pending
    <3>2. \A t \in P : granted'[t] = IF t \in woken THEN decsem[t] ELSE granted[t]
      BY <1>4, <3>1
    <3>3. \A t \in P : t \in woken => granted[t] = 0
      BY <1>6
    <3>4. \A t \in woken : t \in P
      BY <1>6
    <3> HIDE DEF P
    <3>5. \A x : (\E t \in P : \E i \in 1 .. granted'[t] : x = <<t, i>>)
                   <=> \/ \E t \in P : \E i \in 1 .. granted[t] : x = <<t, i>>
                       \/ \E t \in woken : \E i \in 1 .. decsem[t] : x = <<t, i>>
      <4>1. \A t \in P : t \in woken => 1 .. granted[t] = {}
        BY <3>3
      <4> QED BY <3>2, <3>4, <4>1
    <3>6. \A x : x \in Bundle(P, granted')
                   <=> \E t \in P : \E i \in 1 .. granted'[t] : x = <<t, i>>
      BY BundleHolds
    <3>7. \A x : x \in B <=> \E t \in P : \E i \in 1 .. granted[t] : x = <<t, i>>
      BY BundleHolds
    <3>8. \A x : x \in W <=> \E t \in woken : \E i \in 1 .. decsem[t] : x = <<t, i>>
      BY BundleHolds
    <3> HIDE DEF B, W
    <3>9. \A x : x \in Bundle(P, granted') <=> x \in B \cup W
      BY <3>5, <3>6, <3>7, <3>8
    <3> QED BY <3>9
  <2>2. B \cap W = {}
    <3>1. \A t \in woken : 1 .. granted[t] = {}
      BY <1>6
    <3>2. \A x : x \in B => \E t \in P : \E i \in 1 .. granted[t] : x = <<t, i>>
      BY BundleHolds
    <3>3. \A x : x \in W => \E t \in woken : \E i \in 1 .. decsem[t] : x = <<t, i>>
      BY BundleHolds
    <3> HIDE DEF B, W
    <3> QED BY <3>1, <3>2, <3>3
  <2>3. IsFiniteSet(B) /\ B = InFlight(r)
    BY InFlightIs DEF FlightFinite
  <2>4. InFlight(r)' = B \cup W
    BY <1>8, <2>1
  <2>5. IsFiniteSet(W) /\ Cardinality(W) = (count[r] + n) - left[k]
    BY <1>7
  <2> HIDE DEF B, W
  <2>6. /\ IsFiniteSet(B \cup W)
        /\ Cardinality(B \cup W)
             = Cardinality(B) + Cardinality(W) - Cardinality(B \cap W)
    BY <2>3, <2>5, FS_Union
  <2>7. Cardinality(B \cap W) = 0 /\ Cardinality(B) \in Nat
    BY <2>2, <2>3, FS_EmptySet, FS_CardinalityType
  <2>8. left[k] \in Int
    BY <1>2, <1>3
  <2>9. Cardinality(B \cup W) = Cardinality(B) + ((count[r] + n) - left[k])
    BY <1>3, <2>5, <2>6, <2>7, <2>8
  <2>10. count'[r] = left[k] /\ credit'[r] = credit[r] - n
    BY <1>2, <1>3, <1>4
  <2>11. /\ Units_of(r)' = left[k] + (credit[r] - n) + Cardinality(B \cup W)
         /\ Units_of(r) = count[r] + credit[r] + Cardinality(B)
    BY <1>9, <1>11, <2>3, <2>4, <2>10 DEF Units_of
  <2>12. count[r] \in Nat /\ credit[r] \in Nat
    BY <1>3
  <2>13. Units_of(r)' = Units_of(r)
    BY <1>3, <2>7, <2>8, <2>9, <2>11, <2>12
  <2> QED BY <1>11, <2>4, <2>6, <2>13 DEF Kept
<1> QED BY <1>10, <1>11

\* Units are never created, and lost only to the killing of a task.
UnitsSafe ==
  /\ FlightFinite
  /\ \A s \in Sems :
       /\ Units_of(s) <= Total
       /\ Units_of(s) = Total \/ \E t \in Tasks : killreq[t]

\* Only tasks that may be killed are asked to end, and for good.
KillsAllowed == \A t \in Tasks : killreq[t] => t \in Killable

LEMMA InitUnits == Init => UnitsSafe /\ KillsAllowed
<1> SUFFICES ASSUME Init PROVE UnitsSafe /\ KillsAllowed
  OBVIOUS
<1>1. \A s : InFlight(s) = {}
  BY DEF Init, InFlight, Pending, Bundle
<1>2. \A s \in Sems : IsFiniteSet(InFlight(s)) /\ Cardinality(InFlight(s)) = 0
  BY <1>1, FS_EmptySet
<1>3. \A s \in Sems : count[s] + credit[s] = Total
  BY SemAssumption DEF SemAssumption, Init
<1>4. \A s \in Sems : count[s] + credit[s] + Cardinality(InFlight(s)) = Total
  BY SemAssumption, <1>2, <1>3 DEF SemAssumption
<1>5. Total <= Total
  BY SemAssumption DEF SemAssumption
<1>6. \A s \in Sems : Units_of(s) = Total
  BY <1>4 DEF Units_of
<1>7. KillsAllowed
  BY DEF Init, KillsAllowed
<1> QED BY <1>2, <1>5, <1>6, <1>7 DEF UnitsSafe, FlightFinite

LEMMA NextKills ==
  ASSUME Consistent, KillsAllowed, [Next]_vars
  PROVE  KillsAllowed' /\ \A t \in Tasks : killreq[t] => killreq'[t]
<1>1. ASSUME killreq' = killreq
      PROVE  KillsAllowed' /\ \A t \in Tasks : killreq[t] => killreq'[t]
  BY <1>1 DEF KillsAllowed
<1>2. ASSUME NEW u \in Tasks, NEW t \in Tasks, task_kill(u, t)
      PROVE  KillsAllowed' /\ \A v \in Tasks : killreq[v] => killreq'[v]
  <2>1. t \in Killable /\ killreq' = [killreq EXCEPT ![t] = TRUE]
    BY <1>2 DEF task_kill
  <2>2. killreq \in [Tasks -> BOOLEAN]
    BY DEF Consistent, TypeOK
  <2> QED BY <2>1, <2>2 DEF KillsAllowed
<1>3. ASSUME NEW u \in Tasks, TaskStep(u)
      PROVE  killreq' = killreq \/ \E t \in Tasks : task_kill(u, t)
  BY <1>3 DEF TaskStep, sem_wait, sem_wait_body, sem_xwait, sem_trywait, resume,
              task_setcancelstate, task_end, Die, TakeOrBlock, cancelVars
<1>4. ASSUME NEW s \in Sems, Post(s) PROVE killreq' = killreq
  BY <1>4 DEF Post, sem_post, sem_xpost, cancelVars
<1> QED BY <1>1, <1>2, <1>3, <1>4 DEF Next, vars

LEMMA NextUnits ==
  ASSUME Consistent, GrantsOK, KillsAllowed, UnitsSafe, [Next]_vars
  PROVE  UnitsSafe'
<1> SUFFICES ASSUME NEW s \in Sems
             PROVE  /\ IsFiniteSet(InFlight(s)')
                    /\ Units_of(s)' <= Total
                    /\ Units_of(s)' = Total \/ \E t \in Tasks : killreq'[t]
  BY DEF UnitsSafe, FlightFinite
<1>1. /\ FlightFinite /\ Units_of(s) <= Total
      /\ Units_of(s) = Total \/ \E t \in Tasks : killreq[t]
  BY DEF UnitsSafe
<1>2. \A t \in Tasks : killreq[t] => killreq'[t]
  BY NextKills
<1>3. ASSUME Kept(s)
      PROVE  /\ IsFiniteSet(InFlight(s)')
             /\ Units_of(s)' <= Total
             /\ Units_of(s)' = Total \/ \E t \in Tasks : killreq'[t]
  BY <1>1, <1>2, <1>3 DEF Kept
<1>4. ASSUME NEW t \in Tasks, KeptOrLost(t, s)
      PROVE  /\ IsFiniteSet(InFlight(s)')
             /\ Units_of(s)' <= Total
             /\ Units_of(s)' = Total \/ \E u \in Tasks : killreq'[u]
  <2>1. Units_of(s) \in Nat /\ Total \in Nat
    BY <1>1, UnitsType, SemAssumption DEF SemAssumption
  <2>2. CASE Units_of(s)' = Units_of(s)
    BY <1>1, <1>2, <1>4, <2>2 DEF KeptOrLost
  <2>3. CASE Units_of(s)' # Units_of(s)
    <3>1. killreq'[t] /\ IsFiniteSet(InFlight(s)') /\ Units_of(s)' <= Units_of(s)
      BY <1>2, <1>4, <2>3 DEF KeptOrLost
    <3>2. Units_of(s)' \in Int
      <4>1. count'[s] \in Nat /\ credit'[s] \in Nat
        BY NextConsistent DEF Consistent, TypeOK
      <4>2. Cardinality(InFlight(s)') \in Nat
        BY <3>1, FS_CardinalityType
      <4>3. Units_of(s)' = count'[s] + credit'[s] + Cardinality(InFlight(s)')
        BY DEF Units_of
      <4> QED BY <4>1, <4>2, <4>3
    <3>3. Units_of(s)' <= Total
      BY <1>1, <2>1, <3>1, <3>2
    <3> QED BY <3>1, <3>3
  <2> QED BY <2>2, <2>3
<1>5. ASSUME NEW t \in Tasks, TaskStep(t) PROVE KeptOrLost(t, s)
  BY <1>1, <1>5, TaskStepUnits
<1>6. ASSUME NEW r \in Sems, Post(r) PROVE Kept(s)
  BY <1>1, <1>6, PostUnits
<1>7. ASSUME UNCHANGED vars PROVE Kept(s)
  <2>1. InFlight(s)' = InFlight(s) /\ Units_of(s)' = Units_of(s)
    BY <1>7 DEF vars, Units_of, InFlight, Pending
  <2> QED BY <1>1, <2>1 DEF Kept, FlightFinite
<1> QED BY <1>3, <1>4, <1>5, <1>6, <1>7 DEF Next

LEMMA UnitsAlwaysSafe == Spec => [](UnitsSafe /\ KillsAllowed)
<1>1. Consistent /\ GrantsOK /\ UnitsSafe /\ KillsAllowed /\ [Next]_vars
        => (UnitsSafe /\ KillsAllowed)'
  BY NextUnits, NextKills
<1> QED BY <1>1, InitUnits, InitGrants, NextGrants, AlwaysConsistent, PTL DEF Spec

\* Whatever is waited for, posted and killed, the units in the counter of a
\* semaphore, on their way to a waiter and in the callers' hands are never
\* more than there were at the start, and none is lost unless a task is killed.
THEOREM UnitsNeverDuplicated ==
  Spec => [](\A s \in Sems :
               /\ Units_of(s) <= Total
               /\ Units_of(s) = Total \/ \E t \in Tasks : killreq[t])
<1>1. UnitsSafe => \A s \in Sems :
               /\ Units_of(s) <= Total
               /\ Units_of(s) = Total \/ \E t \in Tasks : killreq[t]
  BY DEF UnitsSafe
<1> QED BY <1>1, UnitsAlwaysSafe, PTL

\* Where every task has NO_KILL, no unit is lost either: the loop of sem_xpost
\* hands out exactly what it takes from the counter.
THEOREM UnitsAreConserved ==
  ASSUME NoKill
  PROVE  Spec => []UnitsConserved
<1>1. UnitsSafe /\ KillsAllowed => UnitsConserved
  BY DEF UnitsSafe, KillsAllowed, UnitsConserved, NoKill
<1> QED BY <1>1, UnitsAlwaysSafe, PTL
=============================================================================
