------------------------------ MODULE SemPool ------------------------------
(***************************************************************************)
(* What the semaphores of modules/sem/sem.c promise to their callers: each *)
(* is a pool of units; a request is served at once or left waiting, units  *)
(* that come back serve any waiting requests they suffice for, and a       *)
(* request returns only when it has been served.                           *)
(***************************************************************************)
EXTENDS Integers

CONSTANTS Tasks, Sems, Units, Total

VARIABLES
  avail,    \* units in the pool
  hands,    \* units in the hands of the callers
  waiting,  \* the requests <<t, s, n>> that have to wait
  served,   \* those of them that have been served and not returned yet
  gone      \* the tasks that have ended

vars == <<avail, hands, waiting, served, gone>>

Need(r) == r[3]
Requesting(t) == \E r \in waiting \cup served : r[1] = t

Init ==
  /\ avail \in [Sems -> 0 .. Total]
  /\ hands = [s \in Sems |-> Total - avail[s]]
  /\ waiting = {} /\ served = {} /\ gone = {}

Acquire(t, s, n) ==
  /\ t \notin gone /\ ~Requesting(t)
  /\ avail[s] >= n
  /\ avail' = [avail EXCEPT ![s] = @ - n]
  /\ hands' = [hands EXCEPT ![s] = @ + n]
  /\ UNCHANGED <<waiting, served, gone>>

Ask(t, s, n) ==
  /\ t \notin gone /\ ~Requesting(t)
  /\ waiting' = waiting \cup {<<t, s, n>>}
  /\ UNCHANGED <<avail, hands, served, gone>>

\* Units come back; some requests are served, one after the other in any order,
\* as long as the units suffice: left[i] of them after the first i requests.
Release(s, n) ==
  /\ hands[s] >= n
  /\ hands' = [hands EXCEPT ![s] = @ - n]
  /\ \E k \in 0 .. avail[s] + n :
       \E order \in [1 .. k -> {r \in waiting : r[2] = s}] :
         /\ \A i, j \in 1 .. k : order[i] = order[j] => i = j
         /\ \E left \in [0 .. k -> 0 .. avail[s] + n] :
              /\ left[0] = avail[s] + n
              /\ \A i \in 1 .. k : left[i] = left[i - 1] - Need(order[i])
              /\ avail' = [avail EXCEPT ![s] = left[k]]
         /\ waiting' = waiting \ {order[i] : i \in 1 .. k}
         /\ served' = served \cup {order[i] : i \in 1 .. k}
  /\ UNCHANGED gone

Return(r) ==
  /\ served' = served \ {r}
  /\ hands' = [hands EXCEPT ![r[2]] = @ + Need(r)]
  /\ UNCHANGED <<avail, waiting, gone>>

\* A task may end at any time; what was served to it is lost.
Leave(t) ==
  /\ gone' = gone \cup {t}
  /\ waiting' = {r \in waiting : r[1] # t}
  /\ served' = {r \in served : r[1] # t}
  /\ UNCHANGED <<avail, hands>>

Next ==
  \/ \E t \in Tasks, s \in Sems, n \in Units : Acquire(t, s, n) \/ Ask(t, s, n)
  \/ \E s \in Sems, n \in Units : Release(s, n)
  \/ \E r \in served : Return(r)
  \/ \E t \in Tasks : Leave(t)

Spec == Init /\ [][Next]_vars
=============================================================================
