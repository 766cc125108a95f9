---------------------------- MODULE SignalsProofs ----------------------------
(* Theorems about signals, for any number of tasks, signals, descriptors and *)
(* timers: exact waiters, a pool that loses nothing, signals in their order, *)
(* and no pending signal that a waiter sleeps over.                          *)
EXTENDS Signals, IqueueOpsProofs

-----------------------------------------------------------------------------
(* The invariants *)

Frames == [sig : Signals, mask : SUBSET Signals, loop : {"pending", "mask"}]
Pools == [pending : SUBSET Signals, queued : [Signals -> Seq(Entries)],
          free : Seq(Entries), reserved : SUBSET Entries, posted : SUBSET Entries,
          info : [Entries -> Nat]]
TimerRecords == [used : BOOLEAN, signal : Entries \cup {NIL},
                 event : {"none", "posted", "deleted"}, periodic : BOOLEAN]

DataTypesOK ==
  /\ sq \in Pools
  /\ sigpending \in [Tasks -> SUBSET Signals]
  /\ sigmask \in [Tasks -> SUBSET Signals]
  /\ frames \in [Tasks -> Seq(Frames)]
  /\ last \in [Signals -> Nat]
TaskTypesOK ==
  /\ exec \in Tasks \cup {NIL}
  /\ status \in [Tasks -> {"READY", "WAIT_SIG", "WAIT_SIGSUSPEND", "FREE"}]
  /\ step \in [Tasks -> {"none", "sigwait", "sigsuspend"}]
  /\ sigwaiting \in [Tasks -> SUBSET Signals]
  /\ delay \subseteq Tasks /\ expired \subseteq Tasks /\ killed \subseteq Tasks
TableTypesOK ==
  /\ action \in [Signals -> {"handler", "siginfo", "ignore"}]
  /\ \A s \in Signals : action[s] \in Actions[s]
  /\ timer \in [Timers -> TimerRecords]
  /\ \A x \in Timers : timer[x].used => timer[x].signal \in Entries
  /\ \A x \in Timers : timer[x].event # "none" => timer[x].used
  /\ sent \in Nat
TypesOK == DataTypesOK /\ TaskTypesOK /\ TableTypesOK

\* The queue of the waiters, and where the running task is.
WaitOK ==
  /\ sigwaiters \in Seq(Tasks) /\ Distinct(sigwaiters)
  /\ \A t \in Tasks :
       t \in Members(sigwaiters) <=> status[t] \in {"WAIT_SIG", "WAIT_SIGSUSPEND"}
  /\ \A t \in delay : status[t] = "WAIT_SIG"
  /\ \A t \in Tasks :
       /\ status[t] = "WAIT_SIG" => step[t] = "sigwait"
       /\ status[t] = "WAIT_SIGSUSPEND" => step[t] = "sigsuspend"
       /\ exec = t => status[t] = "READY" /\ step[t] = "none"

\* A descriptor is in one place; the posted ones are those of the timers that
\* are in the list of a signal.
InQueue(p, e) == \E s \in Signals : e \in Members(p.queued[s])
PoolOK(p) ==
  /\ Distinct(p.free)
  /\ \A s \in Signals : Distinct(p.queued[s])
  /\ \A s \in Signals : p.queued[s] # <<>> => s \in p.pending
  /\ \A s, r \in Signals :
       s # r => Members(p.queued[s]) \cap Members(p.queued[r]) = {}
  /\ \A e \in Entries : ~(e \in Members(p.free) /\ InQueue(p, e))
  /\ \A e \in p.reserved : e \notin Members(p.free)
  /\ \A e \in Entries : e \in p.posted <=> e \in p.reserved /\ InQueue(p, e)
  /\ \A e \in Entries : e \in Members(p.free) \/ e \in p.reserved \/ InQueue(p, e)

\* The reserved descriptors are those of the timers in use, one each.
TimersOK ==
  /\ \A e \in Entries : e \in sq.reserved <=> \E x \in Timers : timer[x].used /\ timer[x].signal = e
  /\ \A x, y \in Timers : timer[x].used /\ timer[y].used /\ timer[x].signal = timer[y].signal => x = y

\* The numbers of the descriptors in the list of a signal increase, and none of
\* them has been received.
OrderOK(p, received, n) ==
  /\ \A e \in Entries : p.info[e] <= n
  /\ \A s \in Signals : received[s] <= n
  /\ \A s \in Signals : \A i \in DOMAIN p.queued[s] : received[s] < p.info[p.queued[s][i]]
  /\ \A s \in Signals : \A i, j \in DOMAIN p.queued[s] :
       i < j => p.info[p.queued[s][i]] < p.info[p.queued[s][j]]

\* A task that will take every pending signal s: it is in a handler behind which
\* s is not blocked, or was woken for s in sigsuspend.
Drains(u, s) ==
  \/ frames[u] # <<>> /\ s \notin frames[u][1].mask
  \/ /\ status[u] = "READY" /\ step[u] = "sigsuspend" /\ u \notin killed
     /\ s \in sigwaiting[u] /\ s \in sigpending[u]
\* The tasks that were woken in sigwait to take one s each.
Takers(s) ==
  {u \in Tasks : /\ status[u] = "READY" /\ step[u] = "sigwait"
                 /\ s \in sigwaiting[u] /\ u \notin expired /\ u \notin killed}
Covered(s) == 1 <= Cardinality(Takers(s)) /\ Len(sq.queued[s]) <= Cardinality(Takers(s))
\* Where the tasks in a wait are, and what they cannot be.
StepsOK ==
  \A t \in Tasks :
    /\ step[t] # "none" => frames[t] = <<>> /\ sigwaiting[t] \in WaitSets
    /\ step[t] = "sigsuspend" => sigwaiting[t] \cap sigmask[t] = {}
    /\ status[t] \in {"WAIT_SIG", "WAIT_SIGSUSPEND"} => t \notin killed
    /\ status[t] = "WAIT_SIG" => t \notin expired
\* While a task sleeps in sigwait for a pending s, somebody takes every s, or as
\* many tasks were woken for s as there are descriptors of s.
Sleeps(t, s) == status[t] = "WAIT_SIG" /\ s \in sigwaiting[t]
CoverAt(s) ==
  s \in sq.pending /\ (\E t \in Tasks : Sleeps(t, s)) =>
    Covered(s) \/ \E u \in Tasks : Drains(u, s)
SigwaitOK == StepsOK /\ \A s \in Signals : CoverAt(s)

-----------------------------------------------------------------------------
(* The operators on the pool *)

LEMMA LowestIsLeast ==
  ASSUME NEW S \in SUBSET Nat, S # {}
  PROVE  Lowest(S) \in S /\ \A r \in S : Lowest(S) <= r
BY LeastElement DEF Lowest

LEMMA SignalsAreNaturals == Signals \subseteq Nat
BY SignalNumbers

\* What Release returns: the descriptor is back in its timer or in the pool.
LEMMA ReleaseFields ==
  ASSUME NEW p \in Pools, NEW e \in Entries
  PROVE  /\ Release(p, e) \in Pools
         /\ Release(p, e).pending = p.pending
         /\ Release(p, e).queued = p.queued
         /\ Release(p, e).reserved = p.reserved
         /\ Release(p, e).info = p.info
         /\ e \in p.reserved => /\ Release(p, e).posted = p.posted \ {e}
                                /\ Release(p, e).free = p.free
         /\ e \notin p.reserved => /\ Release(p, e).posted = p.posted
                                   /\ Release(p, e).free = InsertFirst(e, p.free)
<1>1. InsertFirst(e, p.free) \in Seq(Entries)
  BY DEF InsertFirst, Pools
<1>2. CASE e \in p.reserved
  BY <1>2 DEF Release, Pools
<1>3. CASE e \notin p.reserved
  BY <1>1, <1>3 DEF Release, Pools
<1> QED BY <1>2, <1>3

\* What is left of the list of s when its first descriptor is taken.
Behind(q) == IF q = <<>> THEN <<>> ELSE Tail(q)

LEMMA BehindType ==
  ASSUME NEW S, NEW q \in Seq(S)
  PROVE  /\ Behind(q) \in Seq(S)
         /\ q # <<>> => Head(q) \in S
         /\ Len(q) <= 1 => Behind(q) = <<>>
         /\ Len(q) > 1 => Behind(q) # <<>> /\ q # <<>> /\ Len(Behind(q)) = Len(q) - 1
<1>1. CASE q = <<>>
  BY <1>1 DEF Behind
<1>2. CASE q # <<>>
  <2>1. /\ Head(q) \in S /\ Tail(q) \in Seq(S) /\ Len(Tail(q)) = Len(q) - 1
        /\ Len(q) \in Nat /\ Len(q) >= 1
    BY <1>2, HeadTailProperties, EmptySeq, LenProperties
  <2>2. Len(q) <= 1 => Tail(q) = <<>>
    BY <2>1, EmptySeq
  <2>3. Len(q) > 1 => Tail(q) # <<>>
    <3>1. Tail(q) = <<>> => Len(Tail(q)) = 0
      BY EmptySeq
    <3> QED BY <2>1, <3>1
  <2> QED BY <1>2, <2>1, <2>2, <2>3 DEF Behind
<1> QED BY <1>1, <1>2

Dequeued(p, s, r) ==
  /\ r \in Pools
  /\ r.pending = IF Len(p.queued[s]) <= 1 THEN p.pending \ {s} ELSE p.pending
  /\ r.queued = [p.queued EXCEPT ![s] = Behind(p.queued[s])]
  /\ r.reserved = p.reserved
  /\ r.info = p.info
  /\ p.queued[s] = <<>> => r.free = p.free /\ r.posted = p.posted
  /\ p.queued[s] # <<>> /\ Head(p.queued[s]) \in p.reserved =>
       r.free = p.free /\ r.posted = p.posted \ {Head(p.queued[s])}
  /\ p.queued[s] # <<>> /\ Head(p.queued[s]) \notin p.reserved =>
       r.free = InsertFirst(Head(p.queued[s]), p.free) /\ r.posted = p.posted

LEMMA DequeueFields ==
  ASSUME NEW p \in Pools, NEW s \in Signals
  PROVE  Dequeued(p, s, Dequeue(p, s))
<1> DEFINE q == p.queued[s]
           p1 == IF Len(q) <= 1 THEN [p EXCEPT !.pending = @ \ {s}] ELSE p
           p2 == [p1 EXCEPT !.queued[s] = Tail(q)]
<1>1. q \in Seq(Entries)
  BY DEF Pools
<1>2. /\ p1 \in Pools /\ p1.queued = p.queued /\ p1.reserved = p.reserved
      /\ p1.info = p.info /\ p1.free = p.free /\ p1.posted = p.posted
      /\ p1.pending = IF Len(q) <= 1 THEN p.pending \ {s} ELSE p.pending
  BY DEF Pools
<1>3. CASE q = <<>>
  <2>1. Dequeue(p, s) = p1
    BY <1>3 DEF Dequeue
  <2>2. [p.queued EXCEPT ![s] = Behind(q)] = p.queued
    BY <1>3 DEF Behind, Pools
  <2> HIDE DEF p1
  <2> QED BY <1>2, <1>3, <2>1, <2>2 DEF Dequeued
<1>4. CASE q # <<>>
  <2>1. Dequeue(p, s) = Release(p2, Head(q))
    BY <1>4 DEF Dequeue
  <2> HIDE DEF p1
  <2>2. Head(q) \in Entries /\ Tail(q) \in Seq(Entries) /\ Behind(q) = Tail(q)
    BY <1>1, <1>4, HeadTailProperties DEF Behind
  <2>3. /\ p2 \in Pools /\ p2.queued = [p.queued EXCEPT ![s] = Tail(q)]
        /\ p2.reserved = p.reserved /\ p2.pending = p1.pending
        /\ p2.info = p.info /\ p2.free = p.free /\ p2.posted = p.posted
    BY <1>2, <2>2 DEF Pools
  <2> HIDE DEF p2
  <2> DEFINE r == Dequeue(p, s)
             h == Head(q)
  <2>4. /\ r \in Pools /\ r.pending = p2.pending /\ r.queued = p2.queued
        /\ r.reserved = p2.reserved /\ r.info = p2.info
        /\ h \in p2.reserved => r.posted = p2.posted \ {h} /\ r.free = p2.free
        /\ h \notin p2.reserved => r.posted = p2.posted /\ r.free = InsertFirst(h, p2.free)
    <3>1. r = Release(p2, h) /\ h \in Entries /\ p2 \in Pools
      BY <2>1, <2>2, <2>3
    <3> HIDE DEF r, h
    <3> QED BY <3>1, ReleaseFields
  <2> HIDE DEF r, h
  <2>5. Dequeued(p, s, r)
    BY <1>2, <1>4, <2>2, <2>3, <2>4 DEF Dequeued, h
  <2> QED BY <2>5 DEF r
<1> QED BY <1>3, <1>4

LEMMA BehindProperties ==
  ASSUME NEW S, NEW q \in Seq(S), Distinct(q)
  PROVE  /\ Distinct(Behind(q))
         /\ q = <<>> => Members(q) = {} /\ Members(Behind(q)) = {}
         /\ q # <<>> => /\ Head(q) \in Members(q)
                        /\ Members(Behind(q)) = Members(q) \ {Head(q)}
<1>1. CASE q = <<>>
  BY <1>1 DEF Behind, Distinct, Members
<1>2. CASE q # <<>>
  BY <1>2, FirstLeavesProperties DEF Behind
<1> QED BY <1>1, <1>2

LEMMA BehindIndices ==
  ASSUME NEW S, NEW q \in Seq(S), q # <<>>
  PROVE  /\ 1 \in DOMAIN q /\ Head(q) = q[1]
         /\ \A i \in DOMAIN q : q[i] \in S /\ i \in Nat
         /\ \A i \in DOMAIN Behind(q) :
              i + 1 \in DOMAIN q /\ i \in Nat /\ i >= 1 /\ Behind(q)[i] = q[i + 1]
<1>1. /\ Len(q) \in Nat /\ DOMAIN q = 1 .. Len(q) /\ Len(q) # 0
      /\ \A i \in DOMAIN q : q[i] \in S
  BY LenProperties, EmptySeq
<1>2. Behind(q) = Tail(q)
  BY DEF Behind
<1>3. Tail(q) \in Seq(S) /\ Len(Tail(q)) = Len(q) - 1
  BY HeadTailProperties
<1>4. DOMAIN Tail(q) = 1 .. Len(q) - 1
  BY <1>3, LenProperties
<1>5. \A i \in 1 .. Len(q) - 1 : Tail(q)[i] = q[i + 1]
  BY <1>3, HeadTailProperties
<1>6. Head(q) = q[1]
  OBVIOUS
<1> QED BY <1>1, <1>2, <1>4, <1>5, <1>6

LEMMA DequeueKeepsPool ==
  ASSUME NEW p \in Pools, PoolOK(p), NEW s \in Signals, NEW r, Dequeued(p, s, r)
  PROVE  PoolOK(r)
<1> DEFINE q == p.queued[s]
           Taken(e) == q # <<>> /\ e = Head(q)
<1>1. /\ q \in Seq(Entries) /\ p.free \in Seq(Entries)
      /\ r.queued \in [Signals -> Seq(Entries)]
      /\ \A x \in Signals : r.queued[x] = IF x = s THEN Behind(q) ELSE p.queued[x]
  BY DEF Pools, Dequeued
<1>2. /\ Distinct(q) /\ Distinct(Behind(q))
      /\ q = <<>> => Members(q) = {} /\ Members(Behind(q)) = {}
      /\ q # <<>> => /\ Head(q) \in Members(q) /\ Head(q) \in Entries
                     /\ Members(Behind(q)) = Members(q) \ {Head(q)}
  BY <1>1, BehindProperties, BehindType DEF PoolOK
<1> HIDE DEF q
<1>3. \A e \in Entries : e \in Members(r.queued[s]) <=> e \in Members(q) /\ ~Taken(e)
  BY <1>1, <1>2
<1>4. ASSUME NEW e \in Entries
      PROVE  InQueue(r, e) <=> InQueue(p, e) /\ ~Taken(e)
  <2>1. Taken(e) => \A x \in Signals : e \in Members(p.queued[x]) => x = s
    BY <1>2 DEF PoolOK, q
  <2> QED BY <1>1, <1>3, <2>1 DEF InQueue, q
<1>5. Members(p.free) \subseteq Entries
  BY <1>1 DEF Members
<1>6. \A x \in Signals : Distinct(r.queued[x])
  BY <1>1, <1>2 DEF PoolOK
<1>7. \A x \in Signals : r.queued[x] # <<>> => x \in r.pending
  <2>1. Len(q) <= 1 => Behind(q) = <<>>
    BY <1>1, BehindType
  <2>2. q = <<>> => Behind(q) = <<>>
    BY DEF Behind
  <2> QED BY <1>1, <2>1, <2>2 DEF PoolOK, Dequeued, q
<1>8. \A x, y \in Signals : x # y => Members(r.queued[x]) \cap Members(r.queued[y]) = {}
  <2>1. \A x \in Signals : Members(r.queued[x]) \subseteq Members(p.queued[x])
    BY <1>1, <1>2 DEF q
  <2> QED BY <2>1 DEF PoolOK
<1>9. CASE q = <<>>
  <2>1. r.free = p.free /\ r.posted = p.posted /\ r.reserved = p.reserved
    BY <1>9 DEF Dequeued, q
  <2> QED BY <1>4, <1>6, <1>7, <1>8, <1>9, <2>1 DEF PoolOK
<1>10. CASE q # <<>> /\ Head(q) \in p.reserved
  <2>1. r.free = p.free /\ r.posted = p.posted \ {Head(q)} /\ r.reserved = p.reserved
    BY <1>10 DEF Dequeued, q
  <2> QED BY <1>4, <1>6, <1>7, <1>8, <1>10, <2>1 DEF PoolOK
<1>11. CASE q # <<>> /\ Head(q) \notin p.reserved
  <2>1. /\ r.free = InsertFirst(Head(q), p.free) /\ r.posted = p.posted
        /\ r.reserved = p.reserved
    BY <1>11 DEF Dequeued, q
  <2>2. InQueue(p, Head(q)) /\ Head(q) \notin Members(p.free)
    BY <1>2, <1>11 DEF InQueue, PoolOK, q
  <2>3. Distinct(r.free) /\ Members(r.free) = Members(p.free) \cup {Head(q)}
    BY <1>1, <1>2, <1>11, <2>1, <2>2, InsertFirstProperties DEF PoolOK
  <2> QED BY <1>2, <1>4, <1>6, <1>7, <1>8, <1>11, <2>1, <2>2, <2>3 DEF PoolOK
<1> QED BY <1>9, <1>10, <1>11

\* The number of the first of s is the one received.
Numbered(p, s, received) ==
  IF p.queued[s] = <<>> THEN received
  ELSE [received EXCEPT ![s] = p.info[Head(p.queued[s])]]

LEMMA DequeueKeepsOrder ==
  ASSUME NEW p \in Pools, NEW s \in Signals, NEW r, Dequeued(p, s, r),
         NEW received \in [Signals -> Nat], NEW n \in Nat, OrderOK(p, received, n)
  PROVE  OrderOK(r, Numbered(p, s, received), n)
<1> DEFINE q == p.queued[s]
           got == Numbered(p, s, received)
<1>1. /\ q \in Seq(Entries) /\ r.info = p.info /\ p.info \in [Entries -> Nat]
      /\ \A x \in Signals : r.queued[x] = IF x = s THEN Behind(q) ELSE p.queued[x]
  BY DEF Pools, Dequeued
<1>2. CASE q = <<>>
  <2>1. r.queued = p.queued /\ got = received
    BY <1>2 DEF Dequeued, Behind, Numbered, Pools
  <2> QED BY <1>1, <2>1 DEF OrderOK
<1>3. CASE q # <<>>
  <2>1. /\ 1 \in DOMAIN q /\ Head(q) = q[1] /\ \A i \in DOMAIN q : q[i] \in Entries /\ i \in Nat
        /\ \A i \in DOMAIN Behind(q) : i + 1 \in DOMAIN q /\ i \in Nat /\ i >= 1 /\ Behind(q)[i] = q[i + 1]
    BY <1>1, <1>3, BehindIndices
  <2>2. \A x \in Signals : got[x] = IF x = s THEN p.info[q[1]] ELSE received[x]
    BY <1>3, <2>1 DEF Numbered
  <2>3. p.info[q[1]] <= n
    BY <2>1 DEF OrderOK
  <2>6. \A i, j \in DOMAIN q : i < j => p.info[q[i]] < p.info[q[j]]
    BY DEF OrderOK
  <2> HIDE DEF q
  <2>4. ASSUME NEW i \in DOMAIN Behind(q)
        PROVE  p.info[q[1]] < p.info[Behind(q)[i]]
    <3>1. i + 1 \in DOMAIN q /\ 1 < i + 1
      BY <2>1
    <3> QED BY <2>1, <2>6, <3>1
  <2>5. ASSUME NEW i \in DOMAIN Behind(q), NEW j \in DOMAIN Behind(q), i < j
        PROVE  p.info[Behind(q)[i]] < p.info[Behind(q)[j]]
    <3>1. i + 1 \in DOMAIN q /\ j + 1 \in DOMAIN q /\ i + 1 < j + 1
      BY <2>1, <2>5
    <3> QED BY <2>1, <2>6, <3>1
  <2> HIDE DEF got
  <2> QED BY <1>1, <2>2, <2>3, <2>4, <2>5 DEF OrderOK, got
<1> QED BY <1>2, <1>3

\* r is p with the descriptor e, numbered n, behind the others of s.
Added(p, s, e, n, r) ==
  /\ r \in Pools
  /\ r.pending = p.pending \cup {s}
  /\ r.queued = [p.queued EXCEPT ![s] = InsertLast(e, p.queued[s])]
  /\ r.info = [p.info EXCEPT ![e] = n]
  /\ r.reserved = p.reserved

LEMMA EnqueueFields ==
  ASSUME NEW p \in Pools, NEW s \in Signals, NEW n \in Nat, p.free # <<>>
  PROVE  /\ Head(p.free) \in Entries
         /\ Added(p, s, Head(p.free), n, Enqueue(p, s, n))
         /\ Enqueue(p, s, n).free = Tail(p.free)
         /\ Enqueue(p, s, n).posted = p.posted
<1>1. /\ Head(p.free) \in Entries /\ Tail(p.free) \in Seq(Entries)
      /\ InsertLast(Head(p.free), p.queued[s]) \in Seq(Entries)
  <2>1. p.free \in Seq(Entries) /\ p.queued[s] \in Seq(Entries)
    BY DEF Pools
  <2> QED BY <2>1, HeadTailProperties DEF InsertLast
<1> QED BY <1>1 DEF Enqueue, Added, Pools

\* The free list that a timer lends its descriptor to.
Lent(p, e) == [p EXCEPT !.free = InsertFirst(e, @), !.posted = @ \cup {e}]

LEMMA LendFields ==
  ASSUME NEW p \in Pools, NEW s \in Signals, NEW n \in Nat, NEW e \in Entries
  PROVE  /\ Lent(p, e) \in Pools
         /\ Added(p, s, e, n, Enqueue(Lent(p, e), s, n))
         /\ Enqueue(Lent(p, e), s, n).free = p.free
         /\ Enqueue(Lent(p, e), s, n).posted = p.posted \cup {e}
<1>1. /\ InsertFirst(e, p.free) \in Seq(Entries) /\ InsertFirst(e, p.free) # <<>>
      /\ Head(InsertFirst(e, p.free)) = e /\ Tail(InsertFirst(e, p.free)) = p.free
  <2>1. p.free \in Seq(Entries)
    BY DEF Pools
  <2>2. InsertFirst(e, p.free) \in Seq(Entries) /\ Len(InsertFirst(e, p.free)) = Len(p.free) + 1
    BY <2>1 DEF InsertFirst
  <2>3. Head(InsertFirst(e, p.free)) = e
    BY <2>1 DEF InsertFirst
  <2>4. Tail(InsertFirst(e, p.free)) = p.free
    BY <2>1 DEF InsertFirst
  <2>5. InsertFirst(e, p.free) # <<>>
    BY <2>1, <2>2, EmptySeq, LenProperties
  <2> QED BY <2>2, <2>3, <2>4, <2>5
<1> DEFINE l == Lent(p, e)
<1>2. /\ l \in Pools /\ l.free = InsertFirst(e, p.free) /\ l.posted = p.posted \cup {e}
      /\ l.pending = p.pending /\ l.queued = p.queued /\ l.info = p.info
      /\ l.reserved = p.reserved
  BY <1>1 DEF Lent, Pools
<1> HIDE DEF l
<1>3. /\ Added(l, s, e, n, Enqueue(l, s, n))
      /\ Enqueue(l, s, n).free = p.free /\ Enqueue(l, s, n).posted = p.posted \cup {e}
  BY <1>1, <1>2, EnqueueFields
<1>4. Added(p, s, e, n, Enqueue(l, s, n))
  BY <1>2, <1>3 DEF Added
<1> QED BY <1>2, <1>3, <1>4 DEF l

\* The part of PoolOK that is about the lists of the signals.
ListsOK(p) ==
  /\ \A s \in Signals : Distinct(p.queued[s])
  /\ \A s \in Signals : p.queued[s] # <<>> => s \in p.pending
  /\ \A s, r \in Signals :
       s # r => Members(p.queued[s]) \cap Members(p.queued[r]) = {}

LEMMA AddedLists ==
  ASSUME NEW p \in Pools, PoolOK(p), NEW s \in Signals, NEW e \in Entries, NEW n,
         ~InQueue(p, e), NEW r, Added(p, s, e, n, r)
  PROVE  ListsOK(r) /\ \A f \in Entries : InQueue(r, f) <=> InQueue(p, f) \/ f = e
<1>1. /\ p.queued[s] \in Seq(Entries) /\ e \notin Members(p.queued[s]) /\ Distinct(p.queued[s])
      /\ \A x \in Signals : r.queued[x] = IF x = s THEN InsertLast(e, p.queued[s]) ELSE p.queued[x]
  BY DEF Pools, Added, InQueue, PoolOK
<1>2. /\ Distinct(InsertLast(e, p.queued[s]))
      /\ Members(InsertLast(e, p.queued[s])) = Members(p.queued[s]) \cup {e}
  BY <1>1, InsertLastProperties
<1>3. \A f \in Entries : InQueue(r, f) <=> InQueue(p, f) \/ f = e
  BY <1>1, <1>2 DEF InQueue
<1>4. \A x, y \in Signals : x # y => Members(r.queued[x]) \cap Members(r.queued[y]) = {}
  BY <1>1, <1>2 DEF PoolOK, InQueue
<1> QED BY <1>1, <1>2, <1>3, <1>4 DEF ListsOK, Added, PoolOK

LEMMA AddedKeepsOrder ==
  ASSUME NEW p \in Pools, NEW s \in Signals, NEW e \in Entries, NEW n \in Nat,
         ~InQueue(p, e), NEW r, Added(p, s, e, n + 1, r),
         NEW received \in [Signals -> Nat], OrderOK(p, received, n)
  PROVE  OrderOK(r, received, n + 1)
<1> DEFINE q == p.queued[s]
           l == Len(q)
           a == InsertLast(e, q)
<1>1. /\ q \in Seq(Entries) /\ p.info \in [Entries -> Nat] /\ p.queued \in [Signals -> Seq(Entries)]
      /\ \A x \in Signals : r.queued[x] = IF x = s THEN a ELSE p.queued[x]
      /\ \A f \in Entries : r.info[f] = IF f = e THEN n + 1 ELSE p.info[f]
  BY DEF Pools, Added
<1>2. /\ l \in Nat /\ DOMAIN q = 1 .. l /\ DOMAIN a = 1 .. l + 1 /\ a[l + 1] = e
      /\ \A i \in 1 .. l : a[i] = q[i]
  BY <1>1 DEF InsertLast
<1>3. \A x \in Signals : \A i \in DOMAIN p.queued[x] :
        /\ p.queued[x][i] \in Entries /\ p.queued[x][i] # e
        /\ r.info[p.queued[x][i]] = p.info[p.queued[x][i]]
  BY <1>1, ElementOfSeq, LenProperties DEF InQueue, Members
<1>4. \A i \in DOMAIN q : q[i] \in Entries /\ r.info[q[i]] = p.info[q[i]] /\ p.info[q[i]] <= n
                          /\ p.info[q[i]] \in Nat
  BY <1>1, <1>3 DEF OrderOK
<1>5. \A f \in Entries : r.info[f] <= n + 1
  BY <1>1 DEF OrderOK
<1>6. \A x \in Signals : received[x] <= n + 1 /\ received[x] <= n
  BY DEF OrderOK
<1>7. ASSUME NEW x \in Signals, x # s
      PROVE  /\ \A i \in DOMAIN r.queued[x] : received[x] < r.info[r.queued[x][i]]
             /\ \A i, j \in DOMAIN r.queued[x] :
                  i < j => r.info[r.queued[x][i]] < r.info[r.queued[x][j]]
  <2>1. r.queued[x] = p.queued[x]
    BY <1>1, <1>7
  <2>2. \A i \in DOMAIN p.queued[x] : received[x] < r.info[p.queued[x][i]]
    BY <1>3 DEF OrderOK
  <2>3. \A i, j \in DOMAIN p.queued[x] :
          i < j => r.info[p.queued[x][i]] < r.info[p.queued[x][j]]
    BY <1>3 DEF OrderOK
  <2> QED BY <2>1, <2>2, <2>3
<1>8. /\ \A i \in DOMAIN q : received[s] < p.info[q[i]]
      /\ \A i, j \in DOMAIN q : i < j => p.info[q[i]] < p.info[q[j]]
  BY DEF OrderOK
<1>9. r.queued[s] = a /\ r.info[e] = n + 1
  BY <1>1
<1> HIDE DEF q, l, a
<1>10. \A i \in DOMAIN a : received[s] < r.info[a[i]]
  BY <1>2, <1>4, <1>6, <1>8, <1>9
<1>11. \A i, j \in DOMAIN a : i < j => r.info[a[i]] < r.info[a[j]]
  <2> SUFFICES ASSUME NEW i \in 1 .. l + 1, NEW j \in 1 .. l + 1, i < j
               PROVE  r.info[a[i]] < r.info[a[j]]
    BY <1>2
  <2>1. i \in 1 .. l /\ a[i] = q[i] /\ r.info[a[i]] = p.info[q[i]] /\ p.info[q[i]] <= n
        /\ p.info[q[i]] \in Nat
    <3>1. i \in 1 .. l /\ a[i] = q[i]
      BY <1>2
    <3>2. i \in DOMAIN q
      BY <1>2, <3>1
    <3> QED BY <1>4, <3>1, <3>2
  <2>2. CASE j = l + 1
    BY <1>2, <1>9, <2>1, <2>2
  <2>3. CASE j # l + 1
    <3>1. j \in 1 .. l /\ a[j] = q[j] /\ r.info[a[j]] = p.info[q[j]]
      BY <1>2, <1>4, <2>3
    <3> QED BY <1>2, <1>8, <2>1, <3>1
  <2> QED BY <2>2, <2>3
<1> QED BY <1>5, <1>6, <1>7, <1>9, <1>10, <1>11 DEF OrderOK

LEMMA EnqueueKeepsPool ==
  ASSUME NEW p \in Pools, PoolOK(p), NEW s \in Signals, NEW n \in Nat, p.free # <<>>
  PROVE  PoolOK(Enqueue(p, s, n)) /\ ~InQueue(p, Head(p.free))
<1> DEFINE r == Enqueue(p, s, n)
           e == Head(p.free)
<1>1. /\ e \in Entries /\ Added(p, s, e, n, r) /\ r.free = Tail(p.free)
      /\ r.posted = p.posted /\ r.reserved = p.reserved
  BY EnqueueFields DEF Added
<1>2. /\ e \in Members(p.free) /\ Distinct(r.free)
      /\ Members(r.free) = Members(p.free) \ {e}
  <2>1. p.free \in Seq(Entries) /\ Distinct(p.free)
    BY DEF Pools, PoolOK
  <2> QED BY <1>1, <2>1, FirstLeavesProperties
<1>3. ~InQueue(p, e) /\ e \notin p.reserved
  BY <1>1, <1>2 DEF PoolOK
<1> HIDE DEF r, e
<1>4. ListsOK(r) /\ \A f \in Entries : InQueue(r, f) <=> InQueue(p, f) \/ f = e
  BY <1>1, <1>3, AddedLists
<1>5. PoolOK(r)
  BY <1>1, <1>2, <1>3, <1>4 DEF PoolOK, ListsOK
<1> QED BY <1>3, <1>5 DEF r, e

LEMMA LendKeepsPool ==
  ASSUME NEW p \in Pools, PoolOK(p), NEW s \in Signals, NEW n \in Nat,
         NEW e \in p.reserved, e \notin p.posted
  PROVE  PoolOK(Enqueue(Lent(p, e), s, n)) /\ ~InQueue(p, e)
<1> DEFINE r == Enqueue(Lent(p, e), s, n)
<1>0. e \in Entries
  BY DEF Pools
<1>1. /\ Added(p, s, e, n, r) /\ r.free = p.free
      /\ r.posted = p.posted \cup {e} /\ r.reserved = p.reserved
  BY <1>0, LendFields DEF Added
<1>2. ~InQueue(p, e) /\ e \notin Members(p.free)
  BY <1>0 DEF PoolOK
<1> HIDE DEF r
<1>3. ListsOK(r) /\ \A f \in Entries : InQueue(r, f) <=> InQueue(p, f) \/ f = e
  BY <1>0, <1>1, <1>2, AddedLists
<1>4. PoolOK(r)
  BY <1>0, <1>1, <1>2, <1>3 DEF PoolOK, ListsOK
<1> QED BY <1>2, <1>4 DEF r

\* kill: s is pending without a descriptor.
Marked(p, s) == [p EXCEPT !.pending = @ \cup {s}]

LEMMA MarkKeepsPool ==
  ASSUME NEW p \in Pools, NEW s \in Signals
  PROVE  /\ Marked(p, s) \in Pools
         /\ Marked(p, s).pending = p.pending \cup {s} /\ Marked(p, s).queued = p.queued
         /\ Marked(p, s).reserved = p.reserved
         /\ PoolOK(p) => PoolOK(Marked(p, s))
         /\ \A received, n : OrderOK(p, received, n) => OrderOK(Marked(p, s), received, n)
<1> DEFINE r == Marked(p, s)
<1>1. /\ r \in Pools /\ r.pending = p.pending \cup {s} /\ r.queued = p.queued
      /\ r.free = p.free /\ r.reserved = p.reserved /\ r.posted = p.posted /\ r.info = p.info
  BY DEF Marked, Pools
<1> HIDE DEF r
<1>2. \A e : InQueue(r, e) <=> InQueue(p, e)
  BY <1>1 DEF InQueue
<1>3. PoolOK(p) => PoolOK(r)
  BY <1>1, <1>2 DEF PoolOK
<1>4. \A received, n : OrderOK(p, received, n) => OrderOK(r, received, n)
  BY <1>1 DEF OrderOK
<1> QED BY <1>1, <1>3, <1>4 DEF r

\* sigaction: a list of one descriptor is dropped as if it were received.
LEMMA FlushFields ==
  ASSUME NEW p \in Pools, NEW s \in Signals
  PROVE  /\ Flush(p, s) \in Pools
         /\ Flush(p, s).pending = p.pending \ {s}
         /\ Flush(p, s).queued = [p.queued EXCEPT ![s] = <<>>]
         /\ Len(p.queued[s]) <= 1 => Dequeued(p, s, Flush(p, s))
<1> DEFINE q == p.queued[s]
           p1 == [p EXCEPT !.queued[s] = <<>>, !.pending = @ \ {s}]
           r == Flush(p, s)
<1>1. q \in Seq(Entries) /\ (q # <<>> => Head(q) \in Entries)
  <2>1. q \in Seq(Entries)
    BY DEF Pools
  <2> QED BY <2>1, HeadTailProperties
<1>2. /\ p1 \in Pools /\ p1.queued = [p.queued EXCEPT ![s] = <<>>]
      /\ p1.pending = p.pending \ {s} /\ p1.reserved = p.reserved /\ p1.info = p.info
      /\ p1.free = p.free /\ p1.posted = p.posted
  BY EmptySeq DEF Pools
<1>3. r = IF q = <<>> THEN p1 ELSE Release(p1, Head(q))
  BY DEF Flush
<1> HIDE DEF p1, r
<1>4. Len(q) <= 1 => [p.queued EXCEPT ![s] = <<>>] = [p.queued EXCEPT ![s] = Behind(q)]
  BY <1>1, BehindType
<1> HIDE DEF q
<1>5. /\ r \in Pools /\ r.queued = p1.queued /\ r.pending = p1.pending
      /\ r.reserved = p1.reserved /\ r.info = p1.info
      /\ q = <<>> => r.free = p1.free /\ r.posted = p1.posted
      /\ q # <<>> /\ Head(q) \in p1.reserved =>
           r.free = p1.free /\ r.posted = p1.posted \ {Head(q)}
      /\ q # <<>> /\ Head(q) \notin p1.reserved =>
           r.free = InsertFirst(Head(q), p1.free) /\ r.posted = p1.posted
  BY <1>1, <1>2, <1>3, ReleaseFields
<1>6. Len(q) <= 1 => Dequeued(p, s, r)
  BY <1>2, <1>4, <1>5 DEF Dequeued, q
<1> QED BY <1>2, <1>5, <1>6 DEF r, q

LEMMA FlushKeepsOrder ==
  ASSUME NEW p \in Pools, NEW s \in Signals, NEW received, NEW n,
         OrderOK(p, received, n), NEW r, r.info = p.info,
         r.queued = [p.queued EXCEPT ![s] = <<>>]
  PROVE  OrderOK(r, received, n)
<1>1. \A x \in Signals : r.queued[x] = IF x = s THEN <<>> ELSE p.queued[x]
  BY DEF Pools
<1>2. DOMAIN <<>> = {}
  OBVIOUS
<1> QED BY <1>1, <1>2 DEF OrderOK

\* timer_create and timer_delete.
LEMMA ReserveKeepsPool ==
  ASSUME NEW p \in Pools, p.free # <<>>
  PROVE  /\ Reserve(p) \in Pools /\ Head(p.free) \in Entries
         /\ Reserve(p).reserved = p.reserved \cup {Head(p.free)}
         /\ Reserve(p).pending = p.pending /\ Reserve(p).queued = p.queued
         /\ Reserve(p).info = p.info
         /\ PoolOK(p) => PoolOK(Reserve(p)) /\ Head(p.free) \notin p.reserved
<1> DEFINE r == Reserve(p)
           e == Head(p.free)
<1>1. p.free \in Seq(Entries) /\ e \in Entries /\ Tail(p.free) \in Seq(Entries)
  <2>1. p.free \in Seq(Entries)
    BY DEF Pools
  <2> QED BY <2>1, HeadTailProperties
<1>2. /\ r \in Pools /\ r.reserved = p.reserved \cup {e} /\ r.free = Tail(p.free)
      /\ r.pending = p.pending /\ r.queued = p.queued /\ r.posted = p.posted /\ r.info = p.info
  BY <1>1 DEF Reserve, Pools
<1>3. ASSUME PoolOK(p) PROVE PoolOK(r) /\ e \notin p.reserved
  <2>1. /\ e \in Members(p.free) /\ Distinct(r.free)
        /\ Members(r.free) = Members(p.free) \ {e}
    BY <1>1, <1>2, <1>3, FirstLeavesProperties DEF PoolOK
  <2>2. ~InQueue(p, e) /\ e \notin p.reserved
    BY <1>1, <1>3, <2>1 DEF PoolOK
  <2>3. \A f : InQueue(r, f) <=> InQueue(p, f)
    BY <1>2 DEF InQueue
  <2> HIDE DEF r, e
  <2> QED BY <1>1, <1>2, <1>3, <2>1, <2>2, <2>3 DEF PoolOK
<1> QED BY <1>1, <1>2, <1>3

LEMMA UnreserveKeepsPool ==
  ASSUME NEW p \in Pools, NEW e \in Entries
  PROVE  /\ Unreserve(p, e) \in Pools
         /\ Unreserve(p, e).reserved = p.reserved \ {e}
         /\ Unreserve(p, e).pending = p.pending /\ Unreserve(p, e).queued = p.queued
         /\ Unreserve(p, e).info = p.info
         /\ PoolOK(p) /\ e \in p.reserved => PoolOK(Unreserve(p, e))
<1> DEFINE r == Unreserve(p, e)
           f == IF e \in p.posted THEN p.free ELSE InsertFirst(e, p.free)
<1>1. f \in Seq(Entries)
  BY DEF InsertFirst, Pools
<1>2. /\ r \in Pools /\ r.reserved = p.reserved \ {e} /\ r.free = f
      /\ r.pending = p.pending /\ r.queued = p.queued /\ r.posted = p.posted \ {e}
      /\ r.info = p.info
  BY <1>1 DEF Unreserve, Pools
<1>3. ASSUME PoolOK(p), e \in p.reserved PROVE PoolOK(r)
  <2>1. \A g : InQueue(r, g) <=> InQueue(p, g)
    BY <1>2 DEF InQueue
  <2>2. CASE e \in p.posted
    <3>1. r.free = p.free
      BY <1>2, <2>2
    <3> HIDE DEF r, f
    <3> QED BY <1>2, <1>3, <2>1, <2>2, <3>1 DEF PoolOK
  <2>3. CASE e \notin p.posted
    <3>1. e \notin Members(p.free) /\ ~InQueue(p, e) /\ p.free \in Seq(Entries)
      BY <1>3, <2>3 DEF PoolOK, Pools
    <3>2. Distinct(r.free) /\ Members(r.free) = Members(p.free) \cup {e}
      BY <1>2, <1>3, <2>3, <3>1, InsertFirstProperties DEF PoolOK
    <3> HIDE DEF r, f
    <3> QED BY <1>2, <1>3, <2>1, <2>3, <3>1, <3>2 DEF PoolOK
  <2> QED BY <2>2, <2>3
<1> QED BY <1>2, <1>3

-----------------------------------------------------------------------------
(* Delivery *)

\* From the pool p, at most one signal is received: it was pending.
Serves(p) ==
  \/ sq' = p /\ last' = last
  \/ \E s \in p.pending : sq' = Dequeue(p, s) /\ last' = Numbered(p, s, last)

\* What a turn of the delivery of t, which is in the handlers h and has the mask m,
\* does to its handlers: none is left to call, or one more is called.
Turns(t, p, m, h) ==
  \/ p.pending \subseteq m /\ frames' = [frames EXCEPT ![t] = h]
  \/ \E f \in Frames : f.mask = m /\ frames' = [frames EXCEPT ![t] = Append(h, f)]

\* Delivery leaves the other tasks alone.
Delivered(t, p, sp, m, h) ==
  /\ Serves(p) /\ Turns(t, p, m, h)
  /\ sigpending' \in [Tasks -> SUBSET Signals]
  /\ sigmask' \in [Tasks -> SUBSET Signals]
  /\ \A u \in Tasks : u # t =>
       sigmask'[u] = sigmask[u] /\ sigpending'[u] = sp[u]

LEMMA DeliverEffect ==
  ASSUME NEW t \in Tasks, NEW p \in Pools, NEW sp \in [Tasks -> SUBSET Signals],
         NEW m \in SUBSET Signals, NEW h \in Seq(Frames), NEW loop \in {"pending", "mask"},
         TypesOK, Deliver(t, p, sp, m, h, loop)
  PROVE  Delivered(t, p, sp, m, h)
<1> DEFINE process == p.pending \ m
           own == sp[t] \ m
           handled == {s \in own : action[s] # "ignore"}
           s == Lowest(IF process # {} THEN process ELSE handled)
           dropped == {i \in own : process = {} /\ (handled = {} \/ i < s)}
           f == [sig |-> s, mask |-> m, loop |-> loop]
<1>1. process \subseteq Signals /\ handled \subseteq Signals
  BY DEF Pools
<1>2. CASE process \cup handled = {}
  <2>1. /\ sq' = p /\ last' = last
        /\ sigpending' = [sp EXCEPT ![t] = @ \ dropped]
        /\ sigmask' = [sigmask EXCEPT ![t] = m]
        /\ frames' = [frames EXCEPT ![t] = h]
    BY <1>2 DEF Deliver
  <2>2. p.pending \subseteq m
    BY <1>2
  <2> HIDE DEF dropped
  <2> QED BY <2>1, <2>2 DEF Serves, Turns, TypesOK, DataTypesOK, Delivered
<1>3. CASE process \cup handled # {}
  <2>1. /\ sigpending' = [sp EXCEPT ![t] = @ \ (dropped \cup {s})]
        /\ sigmask' = [sigmask EXCEPT ![t] = m \cup {s}]
        /\ frames' = [frames EXCEPT ![t] = Append(h, f)]
        /\ IF process # {} THEN sq' = Dequeue(p, s) /\ Received(p, s)
           ELSE sq' = p /\ UNCHANGED last
    BY <1>3 DEF Deliver
  <2>2. (process # {} => s \in process) /\ s \in Signals
    BY <1>1, <1>3, LowestIsLeast, SignalsAreNaturals
  <2> HIDE DEF s, dropped
  <2>3. f \in Frames /\ f.mask = m
    BY <2>2 DEF Frames
  <2>4. Turns(t, p, m, h)
    BY <2>1, <2>3 DEF Turns
  <2>5. Serves(p)
    <3>1. CASE process = {}
      BY <2>1, <3>1 DEF Serves
    <3>2. CASE process # {}
      <4>1. s \in p.pending /\ sq' = Dequeue(p, s)
        BY <2>1, <2>2, <3>2
      <4>2. last' = Numbered(p, s, last)
        BY <2>1, <3>2 DEF Received, Numbered
      <4> QED BY <4>1, <4>2 DEF Serves
    <3> QED BY <3>1, <3>2
  <2> QED BY <2>1, <2>2, <2>4, <2>5 DEF TypesOK, DataTypesOK, Delivered
<1> QED BY <1>2, <1>3

LEMMA ServesKeeps ==
  ASSUME NEW p \in Pools, last \in [Signals -> Nat], Serves(p)
  PROVE  /\ sq' \in Pools /\ last' \in [Signals -> Nat]
         /\ sq'.reserved = p.reserved
         /\ PoolOK(p) => PoolOK(sq')
         /\ \A n \in Nat : OrderOK(p, last, n) => OrderOK(sq', last', n)
<1>1. CASE sq' = p /\ last' = last
  BY <1>1
<1>2. CASE \E s \in p.pending : sq' = Dequeue(p, s) /\ last' = Numbered(p, s, last)
  <2>1. PICK s \in p.pending : sq' = Dequeue(p, s) /\ last' = Numbered(p, s, last)
    BY <1>2
  <2>2. s \in Signals
    BY DEF Pools
  <2>3. Dequeued(p, s, sq')
    BY <2>1, <2>2, DequeueFields
  <2>4. last' \in [Signals -> Nat]
    <3>1. p.queued[s] \in Seq(Entries) /\ p.info \in [Entries -> Nat]
      BY <2>2 DEF Pools
    <3>2. p.queued[s] # <<>> => p.info[Head(p.queued[s])] \in Nat
      BY <3>1, HeadTailProperties
    <3> QED BY <2>1, <2>2, <3>2 DEF Numbered
  <2>5. PoolOK(p) => PoolOK(sq')
    BY <2>2, <2>3, DequeueKeepsPool
  <2>6. \A n \in Nat : OrderOK(p, last, n) => OrderOK(sq', last', n)
    BY <2>1, <2>2, <2>3, DequeueKeepsOrder
  <2> QED BY <2>3, <2>4, <2>5, <2>6 DEF Dequeued
<1> QED BY <1>1, <1>2 DEF Serves

LEMMA NoDeliveryTypes ==
  ASSUME TypesOK, NEW p \in Pools, NEW sp \in [Tasks -> SUBSET Signals], NoDelivery(p, sp)
  PROVE  Serves(p) /\ DataTypesOK'
BY DEF NoDelivery, Serves, TypesOK, DataTypesOK

LEMMA DeliverTypes ==
  ASSUME NEW t \in Tasks, NEW p \in Pools, NEW sp \in [Tasks -> SUBSET Signals],
         NEW m \in SUBSET Signals, NEW h \in Seq(Frames), NEW loop \in {"pending", "mask"},
         TypesOK, Deliver(t, p, sp, m, h, loop)
  PROVE  Serves(p) /\ DataTypesOK'
<1>1. /\ Serves(p) /\ Turns(t, p, m, h)
      /\ sigpending' \in [Tasks -> SUBSET Signals]
      /\ sigmask' \in [Tasks -> SUBSET Signals]
  <2>1. Delivered(t, p, sp, m, h)
    BY DeliverEffect
  <2> QED BY <2>1 DEF Delivered
<1>2. sq' \in Pools /\ last' \in [Signals -> Nat]
  BY <1>1, ServesKeeps DEF TypesOK, DataTypesOK
<1>3. frames' \in [Tasks -> Seq(Frames)]
  <2>1. \A f \in Frames : Append(h, f) \in Seq(Frames)
    OBVIOUS
  <2> QED BY <1>1, <2>1 DEF Turns, TypesOK, DataTypesOK
<1> QED BY <1>1, <1>2, <1>3 DEF DataTypesOK

LEMMA DeliverPendingTypes ==
  ASSUME NEW t \in Tasks, NEW p \in Pools, NEW sp \in [Tasks -> SUBSET Signals],
         TypesOK, DeliverPending(t, p, sp)
  PROVE  Serves(p) /\ DataTypesOK'
<1>1. sigmask[t] \in SUBSET Signals /\ frames[t] \in Seq(Frames)
  BY DEF TypesOK, DataTypesOK
<1> QED BY <1>1, DeliverTypes DEF DeliverPending

\* What is common to all signals for the process.
LEMMA DistributeTypes ==
  ASSUME NEW s \in Signals, NEW p \in Pools, NEW irq \in BOOLEAN, ~irq => exec \in Tasks,
         TypesOK, Distribute(s, p, irq)
  PROVE  /\ Serves(p) /\ DataTypesOK' /\ sent' = sent + 1
         /\ killed' = killed => TaskTypesOK'
<1>0. /\ s \in Signals /\ sigpending \in [Tasks -> SUBSET Signals]
      /\ \A t : AddPending(t, s) \in [Tasks -> SUBSET Signals]
  BY DEF TypesOK, DataTypesOK, AddPending
<1>1. CASE WaitersOf(s) # {}
  <2> DEFINE t == sigwaiters[Lowest(WaitersOf(s))]
  <2>1. /\ Wake(t) /\ delay' = delay \ {t}
        /\ NoDelivery(p, IF status[t] = "WAIT_SIGSUSPEND" THEN AddPending(t, s) ELSE sigpending)
        /\ UNCHANGED <<exec, step, sigwaiting, expired>> /\ sent' = sent + 1
    BY <1>1 DEF Distribute, WakeFor
  <2> HIDE DEF t
  <2>2. Serves(p) /\ DataTypesOK'
    BY <1>0, <2>1, NoDeliveryTypes
  <2>3. killed' = killed => TaskTypesOK'
    BY <2>1 DEF Wake, TypesOK, TaskTypesOK
  <2> QED BY <2>1, <2>2, <2>3
<1>2. CASE WaitersOf(s) = {}
  <2> DEFINE able == {t \in Tasks : status[t] # "FREE" /\ s \notin sigmask[t]}
             sp == IF able = {} THEN sigpending ELSE AddPending(Lowest(able), s)
  <2>1. /\ IF irq THEN NoDelivery(p, sp) ELSE DeliverPending(exec, p, sp)
        /\ UNCHANGED <<status, sigwaiters, delay, exec, step, sigwaiting, expired>>
        /\ sent' = sent + 1
    BY <1>2 DEF Distribute, ToTask
  <2>2. sp \in [Tasks -> SUBSET Signals]
    BY <1>0
  <2> HIDE DEF sp
  <2>3. Serves(p) /\ DataTypesOK'
    BY <2>1, <2>2, NoDeliveryTypes, DeliverPendingTypes
  <2>4. killed' = killed => TaskTypesOK'
    BY <2>1 DEF TypesOK, TaskTypesOK
  <2> QED BY <2>1, <2>3, <2>4
<1> QED BY <1>1, <1>2

LEMMA TakeOneTypes ==
  ASSUME NEW t \in Tasks, NEW set \in SUBSET Signals, NEW clear \in BOOLEAN,
         TypesOK, TakeOne(t, set, clear)
  PROVE  Serves(sq) /\ DataTypesOK' /\ frames' = frames /\ sigmask' = sigmask
<1> DEFINE process == sq.pending \cap set
           own == sigpending[t] \cap set
<1>0. sq \in Pools /\ last \in [Signals -> Nat] /\ sigpending \in [Tasks -> SUBSET Signals]
  BY DEF TypesOK, DataTypesOK
<1>1. process \subseteq Signals /\ own \subseteq Signals /\ process \subseteq Nat /\ own \subseteq Nat
  BY SignalsAreNaturals
<1>2. frames' = frames /\ sigmask' = sigmask
  BY DEF TakeOne
<1>3. CASE process # {}
  <2>1. /\ sq' = Dequeue(sq, Lowest(process)) /\ Received(sq, Lowest(process))
        /\ sigpending' = [sigpending EXCEPT ![t] =
             IF clear THEN @ \ {Lowest(process)} ELSE @]
    BY <1>3 DEF TakeOne
  <2>2. Lowest(process) \in process
    BY <1>1, <1>3, LowestIsLeast
  <2>3. Lowest(process) \in sq.pending
    BY <2>2
  <2> HIDE DEF process
  <2>4. last' = Numbered(sq, Lowest(process), last)
    BY <2>1 DEF Received, Numbered
  <2>5. Serves(sq)
    BY <2>1, <2>3, <2>4 DEF Serves
  <2>6. sq' \in Pools /\ last' \in [Signals -> Nat]
    BY <1>0, <2>5, ServesKeeps
  <2>7. sigpending' \in [Tasks -> SUBSET Signals]
    BY <1>0, <2>1
  <2> QED BY <1>2, <2>5, <2>6, <2>7 DEF TypesOK, DataTypesOK
<1>4. CASE process = {}
  <2>1. /\ sq' = sq /\ last' = last
        /\ sigpending' \in [Tasks -> SUBSET Signals]
    <3>1. CASE own # {}
      <4>1. /\ sigpending' = [sigpending EXCEPT ![t] = @ \ {Lowest(own)}]
            /\ UNCHANGED <<sq, last>>
        BY <1>4, <3>1 DEF TakeOne
      <4> QED BY <1>0, <4>1
    <3>2. CASE own = {}
      <4>1. UNCHANGED <<sq, sigpending, last>>
        BY <1>4, <3>2 DEF TakeOne
      <4> QED BY <1>0, <4>1
    <3> QED BY <3>1, <3>2
  <2> QED BY <1>2, <2>1 DEF Serves, TypesOK, DataTypesOK
<1> QED BY <1>3, <1>4

LEMMA Constants ==
  /\ NIL \notin Tasks /\ IsFiniteSet(Tasks) /\ SIGALRM \in Signals /\ TimerSignal \in Signals
  /\ Masks \subseteq SUBSET Signals /\ WaitSets \subseteq SUBSET Signals
  /\ \A s \in Signals : Actions[s] \subseteq {"handler", "siginfo", "ignore"}
BY SignalsAssumption DEF SignalsAssumption

LEMMA TypesInit ==
  Init => TypesOK
<1> SUFFICES ASSUME Init PROVE TypesOK
  OBVIOUS
<1>1. DataTypesOK
  <2>1. Free0 \in Seq(Entries)
    BY SignalsAssumption DEF SignalsAssumption
  <2>2. sq \in Pools
    BY <2>1 DEF Init, Pools
  <2> QED BY <2>2, Constants DEF Init, DataTypesOK
<1>2. TaskTypesOK
  BY DEF Init, TaskTypesOK
<1>3. TableTypesOK
  <2>1. action \in [Signals -> {"handler", "siginfo", "ignore"}] /\ \A s \in Signals : action[s] \in Actions[s]
    BY Constants DEF Init
  <2>2. timer \in [Timers -> TimerRecords] /\ \A x \in Timers : ~timer[x].used /\ timer[x].event = "none"
    BY DEF Init, NoTimer, TimerRecords
  <2> QED BY <2>1, <2>2 DEF Init, TableTypesOK
<1> QED BY <1>1, <1>2, <1>3 DEF TypesOK

\* Steps that leave the pool, the masks and the handlers alone.
LEMMA SameData ==
  ASSUME TypesOK, sq' = sq, UNCHANGED handlerVars
  PROVE  DataTypesOK' /\ Serves(sq)
BY DEF TypesOK, DataTypesOK, handlerVars, Serves

\* The wake-ups, waits and deaths of tasks.
LEMMA TypesNext ==
  TypesOK /\ [Next]_vars => TypesOK'
<1> SUFFICES ASSUME TypesOK, [Next]_vars PROVE TypesOK'
  OBVIOUS
<1> USE DEF TypesOK
<1>0. /\ sq \in Pools /\ sigpending \in [Tasks -> SUBSET Signals] /\ sent \in Nat
      /\ \A t \in Tasks : sigmask[t] \in SUBSET Signals /\ frames[t] \in Seq(Frames)
      /\ \A t \in Tasks : sigwaiting[t] \in SUBSET Signals
      /\ \A u, s : s \in Signals => AddPending(u, s) \in [Tasks -> SUBSET Signals]
  BY DEF DataTypesOK, TaskTypesOK, TableTypesOK, AddPending
<1>1. ASSUME NEW t \in Tasks, handler_return(t)
      PROVE  TypesOK'
  <2> DEFINE n == Len(frames[t])
             f == frames[t][n]
  <2>1. /\ frames[t] # <<>> /\ Deliver(t, sq, sigpending, f.mask, SubSeq(frames[t], 1, n - 1), f.loop)
        /\ UNCHANGED <<exec, status, step, waitVars, tableVars, sent>>
    BY <1>1 DEF handler_return
  <2>2. n \in Nat /\ n >= 1 /\ f \in Frames /\ SubSeq(frames[t], 1, n - 1) \in Seq(Frames)
    BY <1>0, <2>1
  <2>3. f.mask \in SUBSET Signals /\ f.loop \in {"pending", "mask"}
    BY <2>2 DEF Frames
  <2> HIDE DEF f, n
  <2>4. DataTypesOK'
    BY <1>0, <2>1, <2>2, <2>3, DeliverTypes
  <2> QED BY <2>1, <2>4 DEF TaskTypesOK, TableTypesOK, waitVars, tableVars
<1>2. ASSUME NEW t \in Tasks, switch(t)
      PROVE  TypesOK'
  <2>1. DataTypesOK'
    BY <1>0, <1>2, DeliverPendingTypes, NoDeliveryTypes DEF switch
  <2> QED BY <1>2, <2>1 DEF switch, TaskTypesOK, TableTypesOK, waitVars, tableVars
<1>3. ASSUME NEW t \in Tasks, NEW s \in Signals, kill(t, s)
      PROVE  TypesOK'
  <2>1. Distribute(s, Marked(sq, s), FALSE) /\ exec = t /\ UNCHANGED tableVars
    BY <1>3 DEF kill, Killed, Marked, Running
  <2>2. Marked(sq, s) \in Pools
    BY <1>0, MarkKeepsPool
  <2>3. DataTypesOK' /\ TaskTypesOK' /\ sent' = sent + 1
    BY <2>1, <2>2, DistributeTypes DEF tableVars
  <2> QED BY <2>1, <2>3 DEF TableTypesOK, tableVars
<1>4. ASSUME NEW t \in Tasks, NEW s \in Signals, sigqueue(t, s)
      PROVE  TypesOK'
  <2>1. Distribute(s, Enqueue(sq, s, sent + 1), FALSE) /\ exec = t /\ UNCHANGED tableVars
        /\ sq.free # <<>>
    BY <1>4 DEF sigqueue, Running
  <2>2. Enqueue(sq, s, sent + 1) \in Pools
    <3>1. Added(sq, s, Head(sq.free), sent + 1, Enqueue(sq, s, sent + 1))
      BY <1>0, <2>1, EnqueueFields
    <3> QED BY <3>1 DEF Added
  <2>3. DataTypesOK' /\ TaskTypesOK' /\ sent' = sent + 1
    BY <2>1, <2>2, DistributeTypes DEF tableVars
  <2> QED BY <2>1, <2>3 DEF TableTypesOK, tableVars
<1>5. ASSUME NEW t \in Tasks, NEW u \in Tasks, NEW s \in Signals, task_signal(t, u, s)
      PROVE  TypesOK'
  <2>1. DataTypesOK'
    BY <1>0, <1>5, DeliverPendingTypes DEF task_signal
  <2>2. TaskTypesOK'
    BY <1>5 DEF task_signal, TaskTypesOK, Wake, tableVars
  <2> QED BY <1>5, <2>1, <2>2 DEF task_signal, TableTypesOK, tableVars
<1>6. ASSUME NEW t \in Tasks, NEW m \in Masks, task_sigmask(t, m)
      PROVE  TypesOK'
  <2>1. DataTypesOK'
    BY <1>0, <1>6, DeliverTypes, Constants DEF task_sigmask
  <2> QED BY <1>6, <2>1 DEF task_sigmask, TaskTypesOK, TableTypesOK, waitVars, tableVars
<1>7. ASSUME NEW t \in Tasks, NEW s \in Signals, NEW a \in Actions[s], sigaction(t, s, a)
      PROVE  TypesOK'
  <2>1. sq' \in Pools
    BY <1>0, <1>7, FlushFields DEF sigaction
  <2>2. DataTypesOK'
    BY <1>7, <2>1 DEF sigaction, DataTypesOK, handlerVars
  <2>3. TableTypesOK'
    BY <1>7, Constants DEF sigaction, TableTypesOK
  <2> QED BY <1>7, <2>2, <2>3 DEF sigaction, TaskTypesOK, waitVars
<1>8. ASSUME NEW t \in Tasks, NEW set \in WaitSets, NEW b \in BOOLEAN, sigwait(t, set, b)
      PROVE  TypesOK'
  <2>0. set \in SUBSET Signals
    BY Constants
  <2>1. DataTypesOK'
    BY <1>0, <1>8, <2>0, TakeOneTypes, SameData DEF sigwait, Die
  <2>2. TaskTypesOK'
    BY <1>8, <2>0 DEF sigwait, Die, Block, TaskTypesOK, waitVars, tableVars
  <2> QED BY <1>8, <2>1, <2>2 DEF sigwait, TableTypesOK, tableVars
<1>9. ASSUME NEW t \in Tasks, sigwait_resume(t)
      PROVE  TypesOK'
  <2>1. DataTypesOK'
    BY <1>0, <1>9, TakeOneTypes, SameData DEF sigwait_resume, Die
  <2>2. TaskTypesOK'
    BY <1>9 DEF sigwait_resume, Die, TaskTypesOK, waitVars, tableVars
  <2> QED BY <1>9, <2>1, <2>2 DEF sigwait_resume, TableTypesOK, tableVars
<1>10. ASSUME NEW t \in Tasks, NEW set \in WaitSets, sigsuspend(t, set)
       PROVE  TypesOK'
  <2>0. set \in SUBSET Signals
    BY Constants
  <2>1. DataTypesOK'
    BY <1>0, <1>10, DeliverPendingTypes, SameData DEF sigsuspend, Die
  <2>2. TaskTypesOK'
    BY <1>10, <2>0 DEF sigsuspend, Die, Block, TaskTypesOK, waitVars, tableVars
  <2> QED BY <1>10, <2>1, <2>2 DEF sigsuspend, TableTypesOK, tableVars
<1>11. ASSUME NEW t \in Tasks, sigsuspend_resume(t)
       PROVE  TypesOK'
  <2>1. DataTypesOK'
    BY <1>0, <1>11, DeliverPendingTypes, SameData DEF sigsuspend_resume, Die
  <2>2. TaskTypesOK'
    BY <1>11 DEF sigsuspend_resume, Die, TaskTypesOK, waitVars, tableVars
  <2> QED BY <1>11, <2>1, <2>2 DEF sigsuspend_resume, TableTypesOK, tableVars
<1>12. ASSUME NEW t \in Tasks, sigwait_timer(t) \/ (\E u \in Tasks : task_kill(t, u))
                                \/ \E b \in BOOLEAN : set_alarm(t, b)
       PROVE  TypesOK'
  <2>1. DataTypesOK'
    BY <1>12, SameData DEF sigwait_timer, task_kill, set_alarm
  <2>2. TaskTypesOK'
    BY <1>12 DEF sigwait_timer, task_kill, set_alarm, TaskTypesOK, waitVars, Wake, tableVars
  <2> QED BY <1>12, <2>1, <2>2 DEF sigwait_timer, task_kill, set_alarm, TableTypesOK, tableVars
<1>13. ASSUME timer_alarmfire
       PROVE  TypesOK'
  <2>1. CASE Killed(SIGALRM, TRUE)
    <3>1. Distribute(SIGALRM, Marked(sq, SIGALRM), TRUE) /\ UNCHANGED <<action, killed, timer>>
      BY <1>13, <2>1 DEF timer_alarmfire, Killed, Marked
    <3>2. Marked(sq, SIGALRM) \in Pools
      BY <1>0, MarkKeepsPool, Constants
    <3>3. DataTypesOK' /\ TaskTypesOK' /\ sent' = sent + 1
      BY <3>1, <3>2, DistributeTypes, Constants
    <3> QED BY <3>1, <3>3 DEF TableTypesOK
  <2>2. CASE ~Killed(SIGALRM, TRUE)
    <3>1. UNCHANGED <<exec, status, step, sq, waitVars, handlerVars, calls, sent, action, killed, timer>>
      BY <1>13, <2>2 DEF timer_alarmfire
    <3> QED BY <3>1, SameData DEF TaskTypesOK, TableTypesOK, waitVars
  <2> QED BY <2>1, <2>2
<1>14. ASSUME NEW t \in Tasks, NEW x \in Timers, timer_create(t, x)
       PROVE  TypesOK'
  <2> DEFINE r == [NoTimer EXCEPT !.used = TRUE, !.signal = Head(sq.free)]
  <2>1. /\ sq' = Reserve(sq) /\ sq.free # <<>> /\ timer' = [timer EXCEPT ![x] = r]
        /\ UNCHANGED <<exec, status, step, waitVars, handlerVars, action, killed, sent>>
    BY <1>14 DEF timer_create, TimerCall, SetTimer
  <2>2. sq' \in Pools /\ Head(sq.free) \in Entries
    BY <1>0, <2>1, ReserveKeepsPool
  <2>3. r \in TimerRecords /\ r.used /\ r.signal \in Entries
    BY <2>2 DEF NoTimer, TimerRecords
  <2> HIDE DEF r
  <2>4. TableTypesOK'
    BY <2>1, <2>3 DEF TableTypesOK
  <2> QED BY <2>1, <2>2, <2>4 DEF TaskTypesOK, waitVars, handlerVars, DataTypesOK
<1>15. ASSUME NEW t \in Tasks, NEW x \in Timers, timer_delete(t, x)
       PROVE  TypesOK'
  <2> DEFINE r == [timer[x] EXCEPT !.used = FALSE, !.event = "none"]
  <2>1. /\ sq' = Unreserve(sq, timer[x].signal) /\ timer[x].used
        /\ timer' = [timer EXCEPT ![x] = r]
        /\ UNCHANGED <<exec, status, step, waitVars, handlerVars, action, killed, sent>>
    BY <1>15 DEF timer_delete, Deletable, TimerCall, SetTimer
  <2>2. sq' \in Pools
    BY <1>0, <2>1, UnreserveKeepsPool DEF TableTypesOK
  <2>3. r \in TimerRecords /\ ~r.used /\ r.event = "none"
    BY DEF TimerRecords, TableTypesOK
  <2> HIDE DEF r
  <2>4. TableTypesOK'
    BY <2>1, <2>3 DEF TableTypesOK
  <2> QED BY <2>1, <2>2, <2>4 DEF TaskTypesOK, waitVars, handlerVars, DataTypesOK
<1>16. ASSUME NEW t \in Tasks, NEW x \in Timers,
              timer_disarm(t, x) \/ \E b \in BOOLEAN : timer_settime(t, x, b)
       PROVE  TypesOK'
  <2>1. PICK r \in TimerRecords : /\ r.used /\ r.signal = timer[x].signal
                                  /\ timer' = [timer EXCEPT ![x] = r]
    <3>1. CASE timer_disarm(t, x)
      <4> DEFINE r == [timer[x] EXCEPT !.event = "deleted"]
      <4>1. r \in TimerRecords /\ r.used /\ r.signal = timer[x].signal
        BY <3>1 DEF timer_disarm, TimerRecords, TableTypesOK
      <4>2. timer' = [timer EXCEPT ![x] = r]
        BY <3>1 DEF timer_disarm, SetTimer
      <4> QED BY <4>1, <4>2
    <3>2. ASSUME NEW b \in BOOLEAN, timer_settime(t, x, b)
          PROVE  \E r \in TimerRecords : /\ r.used /\ r.signal = timer[x].signal
                                          /\ timer' = [timer EXCEPT ![x] = r]
      <4> DEFINE r == [timer[x] EXCEPT !.event = "posted", !.periodic = b]
      <4>1. r \in TimerRecords /\ r.used /\ r.signal = timer[x].signal
        BY <3>2 DEF timer_settime, Deletable, TimerRecords, TableTypesOK
      <4>2. timer' = [timer EXCEPT ![x] = r]
        BY <3>2 DEF timer_settime, SetTimer
      <4> QED BY <4>1, <4>2
    <3> QED BY <1>16, <3>1, <3>2
  <2>2. /\ sq' = sq
        /\ UNCHANGED <<exec, status, step, waitVars, handlerVars, action, killed, sent>>
        /\ timer[x].used
    BY <1>16 DEF timer_disarm, timer_settime, TimerCall, Deletable
  <2>3. TableTypesOK'
    BY <2>1, <2>2 DEF TableTypesOK
  <2> QED BY <2>2, <2>3, SameData DEF TaskTypesOK, waitVars
<1>17. ASSUME NEW x \in Timers, timer_timerfire(x)
       PROVE  TypesOK'
  <2> DEFINE e == timer[x].signal
             r == IF timer[x].periodic THEN timer[x] ELSE [timer[x] EXCEPT !.event = "none"]
  <2>1. /\ timer[x].event = "posted" /\ timer' = [timer EXCEPT ![x] = r]
        /\ UNCHANGED <<action, killed>>
        /\ \/ UNCHANGED <<exec, status, step, sq, waitVars, handlerVars, calls, sent>>
           \/ /\ sq' = Lent(sq, e)
              /\ UNCHANGED <<exec, status, step, waitVars, handlerVars, calls, sent>>
           \/ Distribute(TimerSignal, Enqueue(Lent(sq, e), TimerSignal, sent + 1), TRUE)
    BY <1>17 DEF timer_timerfire, SetTimer, Lent
  <2>2. e \in Entries
    BY <2>1 DEF TableTypesOK
  <2>3. r \in TimerRecords /\ r.signal = timer[x].signal /\ r.used = timer[x].used
        /\ timer[x].used
    BY <2>1 DEF TimerRecords, TableTypesOK
  <2> HIDE DEF r, e
  <2>4. sent' \in Nat => TableTypesOK'
    BY <2>1, <2>3 DEF TableTypesOK
  <2>5. CASE UNCHANGED <<exec, status, step, sq, waitVars, handlerVars, calls, sent>>
    BY <1>0, <2>1, <2>4, <2>5, SameData DEF TaskTypesOK, waitVars
  <2>6. CASE /\ sq' = Lent(sq, e)
             /\ UNCHANGED <<exec, status, step, waitVars, handlerVars, calls, sent>>
    <3>1. sq' \in Pools
      BY <1>0, <2>2, <2>6, LendFields, Constants
    <3> QED BY <1>0, <2>1, <2>4, <2>6, <3>1 DEF TaskTypesOK, waitVars, DataTypesOK, handlerVars
  <2>7. CASE Distribute(TimerSignal, Enqueue(Lent(sq, e), TimerSignal, sent + 1), TRUE)
    <3>1. Enqueue(Lent(sq, e), TimerSignal, sent + 1) \in Pools
      <4>1. Added(sq, TimerSignal, e, sent + 1, Enqueue(Lent(sq, e), TimerSignal, sent + 1))
        BY <1>0, <2>2, LendFields, Constants
      <4> QED BY <4>1 DEF Added
    <3>2. DataTypesOK' /\ TaskTypesOK' /\ sent' = sent + 1
      BY <2>1, <2>7, <3>1, DistributeTypes, Constants
    <3> QED BY <1>0, <2>4, <3>2
  <2> QED BY <2>1, <2>5, <2>6, <2>7
<1>18. CASE UNCHANGED vars
  BY <1>18, SameData DEF vars, TaskTypesOK, TableTypesOK, waitVars, tableVars, handlerVars
<1> QED BY <1>1, <1>2, <1>3, <1>4, <1>5, <1>6, <1>7, <1>8, <1>9, <1>10, <1>11, <1>12, <1>13,
           <1>14, <1>15, <1>16, <1>17, <1>18 DEF Next, Interrupt, TaskStep

-----------------------------------------------------------------------------
(* The waiters *)

LEMMA WaitInit ==
  Init => WaitOK
<1> SUFFICES ASSUME Init PROVE WaitOK
  OBVIOUS
<1>1. sigwaiters \in Seq(Tasks) /\ Distinct(sigwaiters) /\ Members(sigwaiters) = {}
  BY EmptySeq DEF Init, Distinct, Members
<1> QED BY <1>1, Constants DEF Init, WaitOK

LEMMA SameWaits ==
  ASSUME WaitOK, UNCHANGED <<exec, status, step, sigwaiters, delay>>
  PROVE  WaitOK'
BY DEF WaitOK

\* A task leaves the queue and its time-out is deleted.
LEMMA WakeWaits ==
  ASSUME TypesOK, WaitOK, NEW t \in Members(sigwaiters), Wake(t), delay' = delay \ {t},
         UNCHANGED <<exec, step>>
  PROVE  WaitOK'
<1>1. /\ sigwaiters' \in Seq(Tasks) /\ Distinct(sigwaiters')
      /\ Members(sigwaiters') = Members(sigwaiters) \ {t}
  BY ExtractProperties DEF WaitOK, Wake
<1>2. t \in Tasks /\ status[t] \in {"WAIT_SIG", "WAIT_SIGSUSPEND"}
  BY DEF WaitOK, Members
<1>3. \A u \in Tasks : status'[u] = IF u = t THEN "READY" ELSE status[u]
  BY DEF Wake, TypesOK, TaskTypesOK
<1>4. \A u \in Tasks :
        u \in Members(sigwaiters') <=> status'[u] \in {"WAIT_SIG", "WAIT_SIGSUSPEND"}
  BY <1>1, <1>2, <1>3 DEF WaitOK
<1>5. \A u \in delay' : status'[u] = "WAIT_SIG"
  BY <1>2, <1>3 DEF WaitOK, TypesOK, TaskTypesOK
<1>6. \A u \in Tasks : /\ status'[u] = "WAIT_SIG" => step'[u] = "sigwait"
                       /\ status'[u] = "WAIT_SIGSUSPEND" => step'[u] = "sigsuspend"
                       /\ exec' = u => status'[u] = "READY" /\ step'[u] = "none"
  BY <1>2, <1>3 DEF WaitOK
<1> QED BY <1>1, <1>4, <1>5, <1>6 DEF WaitOK

LEMMA BlockWaits ==
  ASSUME TypesOK, WaitOK, NEW t \in Tasks, exec = t, NEW call, NEW st, NEW set,
         \/ call = "sigwait" /\ st = "WAIT_SIG" /\ delay' \subseteq delay \cup {t}
         \/ call = "sigsuspend" /\ st = "WAIT_SIGSUSPEND" /\ delay' = delay,
         Block(t, call, st, set)
  PROVE  WaitOK'
<1>1. status[t] = "READY" /\ t \notin Members(sigwaiters) /\ t \notin delay
  BY DEF WaitOK
<1>2. /\ sigwaiters' \in Seq(Tasks) /\ Distinct(sigwaiters')
      /\ Members(sigwaiters') = Members(sigwaiters) \cup {t}
  BY <1>1, InsertFirstProperties DEF WaitOK, Block
<1>3. /\ \A u \in Tasks : status'[u] = IF u = t THEN st ELSE status[u]
      /\ \A u \in Tasks : step'[u] = IF u = t THEN call ELSE step[u]
      /\ exec' = NIL
  BY DEF Block, TypesOK, TaskTypesOK
<1>4. delay' \subseteq delay \cup {t} /\ (st # "WAIT_SIG" => delay' = delay)
  OBVIOUS
<1>5. st \in {"WAIT_SIG", "WAIT_SIGSUSPEND"}
  OBVIOUS
<1>6. \A u \in Tasks :
        u \in Members(sigwaiters') <=> status'[u] \in {"WAIT_SIG", "WAIT_SIGSUSPEND"}
  BY <1>2, <1>3, <1>5 DEF WaitOK
<1>7. \A u \in delay' : status'[u] = "WAIT_SIG"
  BY <1>1, <1>3, <1>4 DEF WaitOK, TypesOK, TaskTypesOK
<1>8. \A u \in Tasks : /\ status'[u] = "WAIT_SIG" => step'[u] = "sigwait"
                       /\ status'[u] = "WAIT_SIGSUSPEND" => step'[u] = "sigsuspend"
                       /\ exec' # u
  BY <1>3, Constants DEF WaitOK
<1> QED BY <1>2, <1>6, <1>7, <1>8 DEF WaitOK

LEMMA DieWaits ==
  ASSUME TypesOK, WaitOK, NEW t \in Tasks, status[t] = "READY", Die(t)
  PROVE  WaitOK'
<1>1. /\ \A u \in Tasks : status'[u] = IF u = t THEN "FREE" ELSE status[u]
      /\ \A u \in Tasks : step'[u] = IF u = t THEN "none" ELSE step[u]
      /\ exec' = NIL /\ sigwaiters' = sigwaiters /\ delay' = delay
  BY DEF Die, TypesOK, TaskTypesOK, waitVars
<1>2. \A u \in Tasks :
        u \in Members(sigwaiters') <=> status'[u] \in {"WAIT_SIG", "WAIT_SIGSUSPEND"}
  BY <1>1 DEF WaitOK
<1>3. \A u \in delay' : status'[u] = "WAIT_SIG"
  BY <1>1 DEF WaitOK, TypesOK, TaskTypesOK
<1>4. \A u \in Tasks : /\ status'[u] = "WAIT_SIG" => step'[u] = "sigwait"
                       /\ status'[u] = "WAIT_SIGSUSPEND" => step'[u] = "sigsuspend"
                       /\ exec' # u
  BY <1>1, Constants DEF WaitOK
<1> QED BY <1>1, <1>2, <1>3, <1>4 DEF WaitOK

LEMMA ResumeWaits ==
  ASSUME TypesOK, WaitOK, NEW t \in Tasks, status[t] = "READY",
         exec' = t, step' = [step EXCEPT ![t] = "none"],
         UNCHANGED <<status, sigwaiters, delay>>
  PROVE  WaitOK'
<1>1. \A u \in Tasks : step'[u] = IF u = t THEN "none" ELSE step[u]
  BY DEF TypesOK, TaskTypesOK
<1> QED BY <1>1 DEF WaitOK

\* The task that a signal is given to is the first of those that wait for it.
LEMMA FirstWaits ==
  ASSUME WaitOK, NEW s, WaitersOf(s) # {}, NEW t, t = sigwaiters[Lowest(WaitersOf(s))]
  PROVE  t \in Members(sigwaiters) /\ t \in Tasks /\ s \in sigwaiting[t]
<1>1. WaitersOf(s) \subseteq DOMAIN sigwaiters /\ DOMAIN sigwaiters \subseteq Nat
  BY DEF WaitersOf, WaitOK
<1>2. Lowest(WaitersOf(s)) \in WaitersOf(s)
  BY <1>1, LowestIsLeast
<1> HIDE DEF WaitersOf
<1>3. t \in Members(sigwaiters)
  BY <1>1, <1>2 DEF Members
<1>4. s \in sigwaiting[t]
  BY <1>2 DEF WaitersOf
<1> QED BY <1>3, <1>4 DEF WaitOK, Members

LEMMA DistributeWaits ==
  ASSUME TypesOK, WaitOK, NEW s, NEW p, NEW irq, Distribute(s, p, irq)
  PROVE  WaitOK'
<1>1. CASE WaitersOf(s) # {}
  <2> DEFINE t == sigwaiters[Lowest(WaitersOf(s))]
  <2>1. Wake(t) /\ delay' = delay \ {t} /\ UNCHANGED <<exec, step>>
    BY <1>1 DEF Distribute, WakeFor
  <2>2. t \in Members(sigwaiters)
    BY <1>1, FirstWaits
  <2> HIDE DEF t
  <2> QED BY <2>1, <2>2, WakeWaits
<1>2. CASE WaitersOf(s) = {}
  BY <1>2, SameWaits DEF Distribute, ToTask
<1> QED BY <1>1, <1>2

\* Nobody is killed where the queue would keep it.
LEMMA WaitNext ==
  ASSUME "kill" \notin Careless, TypesOK, WaitOK, [Next]_vars
  PROVE  WaitOK'
<1>1. ASSUME NEW t \in Tasks, NEW s \in Signals, kill(t, s) \/ sigqueue(t, s)
      PROVE  WaitOK'
  BY <1>1, DistributeWaits DEF kill, Killed, sigqueue
<1>2. ASSUME NEW t \in Tasks, handler_return(t)
      PROVE  WaitOK'
  BY <1>2, SameWaits DEF handler_return, waitVars
<1>3. ASSUME NEW t \in Tasks, switch(t)
      PROVE  WaitOK'
  BY <1>3 DEF switch, waitVars, WaitOK
<1>4. ASSUME NEW t \in Tasks, NEW u \in Tasks, NEW s \in Signals, task_signal(t, u, s)
      PROVE  WaitOK'
  <2>1. CASE status[u] = "WAIT_SIGSUSPEND"
    <3>1. Wake(u) /\ UNCHANGED <<exec, step, delay>>
      BY <1>4, <2>1 DEF task_signal
    <3>2. u \in Members(sigwaiters) /\ delay = delay \ {u}
      BY <2>1 DEF WaitOK
    <3> QED BY <3>1, <3>2, WakeWaits
  <2>2. CASE status[u] # "WAIT_SIGSUSPEND"
    BY <1>4, <2>2, SameWaits DEF task_signal
  <2> QED BY <2>1, <2>2
<1>5. ASSUME NEW t \in Tasks, NEW set \in WaitSets, NEW b \in BOOLEAN, sigwait(t, set, b)
      PROVE  WaitOK'
  <2>0. exec = t /\ status[t] = "READY"
    BY <1>5 DEF sigwait, Running, WaitOK
  <2>1. CASE Die(t)
    BY <2>0, <2>1, DieWaits
  <2>2. CASE UNCHANGED <<exec, status, step, waitVars>>
    BY <2>2, SameWaits DEF waitVars
  <2>3. CASE /\ Block(t, "sigwait", "WAIT_SIG", set)
             /\ delay' = IF b THEN delay \cup {t} ELSE delay
    BY <2>0, <2>3, BlockWaits
  <2> QED BY <1>5, <2>1, <2>2, <2>3 DEF sigwait
<1>6. ASSUME NEW t \in Tasks, sigwait_resume(t) \/ sigsuspend_resume(t)
      PROVE  WaitOK'
  BY <1>6, DieWaits, ResumeWaits DEF sigwait_resume, sigsuspend_resume, waitVars
<1>7. ASSUME NEW t \in Tasks, sigwait_timer(t)
      PROVE  WaitOK'
  <2>1. t \in Members(sigwaiters)
    BY <1>7 DEF WaitOK, sigwait_timer
  <2> QED BY <1>7, <2>1, WakeWaits DEF sigwait_timer
<1>8. ASSUME NEW t \in Tasks, NEW set \in WaitSets, sigsuspend(t, set)
      PROVE  WaitOK'
  <2>0. exec = t /\ status[t] = "READY"
    BY <1>8 DEF sigsuspend, Running, WaitOK
  <2>1. CASE Die(t)
    BY <2>0, <2>1, DieWaits
  <2>2. CASE UNCHANGED <<exec, status, step, waitVars>>
    BY <2>2, SameWaits DEF waitVars
  <2>3. CASE Block(t, "sigsuspend", "WAIT_SIGSUSPEND", set) /\ UNCHANGED delay
    BY <2>0, <2>3, BlockWaits
  <2> QED BY <1>8, <2>1, <2>2, <2>3 DEF sigsuspend
<1>9. ASSUME NEW t \in Tasks, NEW u \in Tasks, task_kill(t, u)
      PROVE  WaitOK'
  <2>1. status[u] # "WAIT_SIGSUSPEND" /\ UNCHANGED <<exec, step>>
    BY <1>9 DEF task_kill, WaitOK
  <2>2. CASE status[u] = "WAIT_SIG"
    <3>1. Wake(u) /\ delay' = delay \ {u}
      BY <1>9, <2>2 DEF task_kill
    <3>2. u \in Members(sigwaiters)
      BY <2>2 DEF WaitOK
    <3> QED BY <2>1, <3>1, <3>2, WakeWaits
  <2>3. CASE status[u] # "WAIT_SIG"
    <3>1. UNCHANGED <<status, sigwaiters, delay>>
      BY <1>9, <2>1, <2>3 DEF task_kill
    <3> QED BY <2>1, <3>1, SameWaits
  <2> QED BY <2>2, <2>3
<1>10. ASSUME NEW x \in Timers, timer_timerfire(x)
       PROVE  WaitOK'
  BY <1>10, DistributeWaits, SameWaits DEF timer_timerfire, waitVars
<1>11. ASSUME timer_alarmfire
       PROVE  WaitOK'
  BY <1>11, DistributeWaits, SameWaits DEF timer_alarmfire, Killed, waitVars
<1>12. ASSUME NEW t \in Tasks, NEW s \in Signals, NEW a \in Actions[s], sigaction(t, s, a)
       PROVE  WaitOK'
  BY <1>12, SameWaits DEF sigaction, waitVars
<1>13. ASSUME NEW t \in Tasks, NEW m \in Masks, task_sigmask(t, m)
       PROVE  WaitOK'
  BY <1>13, SameWaits DEF task_sigmask, waitVars
<1>14. ASSUME NEW t \in Tasks, NEW b \in BOOLEAN, set_alarm(t, b)
       PROVE  WaitOK'
  BY <1>14, SameWaits DEF set_alarm, waitVars
<1>15. ASSUME NEW t \in Tasks, NEW x \in Timers,
              \/ timer_create(t, x) \/ timer_disarm(t, x) \/ timer_delete(t, x)
              \/ \E b \in BOOLEAN : timer_settime(t, x, b)
       PROVE  WaitOK'
  BY <1>15, SameWaits DEF timer_create, timer_disarm, timer_delete, timer_settime, TimerCall, waitVars
<1>16. CASE UNCHANGED vars
  BY <1>16, SameWaits DEF vars, waitVars
<1> QED BY <1>1, <1>2, <1>3, <1>4, <1>5, <1>6, <1>7, <1>8, <1>9, <1>10, <1>11, <1>12, <1>13,
           <1>14, <1>15, <1>16 DEF Next, Interrupt, TaskStep

-----------------------------------------------------------------------------
(* The pool, the timers and the order *)

StoreOK == PoolOK(sq) /\ TimersOK /\ OrderOK(sq, last, sent)

\* Whoever uses the descriptors of the timers still does.
SameTimers ==
  \A x \in Timers : timer'[x].used = timer[x].used /\ timer'[x].signal = timer[x].signal

LEMMA OrderGrows ==
  ASSUME NEW p \in Pools, last \in [Signals -> Nat], NEW n \in Nat, OrderOK(p, last, n)
  PROVE  OrderOK(p, last, n + 1)
<1>1. \A e \in Entries : p.info[e] \in Nat
  BY DEF Pools
<1> QED BY <1>1 DEF OrderOK

LEMMA ServesStore ==
  ASSUME NEW p \in Pools, PoolOK(p), p.reserved = sq.reserved, Serves(p),
         TypesOK, sent' \in Nat, OrderOK(p, last, sent'), TimersOK, SameTimers
  PROVE  StoreOK'
<1>1. PoolOK(sq') /\ sq'.reserved = sq.reserved /\ OrderOK(sq', last', sent')
  BY ServesKeeps DEF TypesOK, DataTypesOK
<1>2. TimersOK'
  BY <1>1 DEF TimersOK, SameTimers
<1> QED BY <1>1, <1>2 DEF StoreOK

\* The actions that only receive.
LEMMA ServesSame ==
  ASSUME TypesOK, StoreOK, Serves(sq), sent' \in {sent, sent + 1}, SameTimers
  PROVE  StoreOK'
<1>1. sq \in Pools /\ sent \in Nat /\ last \in [Signals -> Nat]
  BY DEF TypesOK, DataTypesOK, TableTypesOK
<1>2. OrderOK(sq, last, sent')
  BY <1>1, OrderGrows DEF StoreOK
<1> QED BY <1>1, <1>2, ServesStore DEF StoreOK

LEMMA StoreInit ==
  Init => StoreOK
<1> SUFFICES ASSUME Init PROVE StoreOK
  OBVIOUS
<1>1. Distinct(Free0) /\ Members(Free0) = Entries
  BY SignalsAssumption DEF SignalsAssumption
<1>2. \A s \in Signals : sq.queued[s] = <<>> /\ DOMAIN sq.queued[s] = {}
  BY DEF Init
<1>3. \A s \in Signals : Distinct(sq.queued[s]) /\ Members(sq.queued[s]) = {}
  BY <1>2 DEF Distinct, Members
<1>4. sq.free = Free0 /\ sq.reserved = {} /\ sq.posted = {} /\ sq.info = [e \in Entries |-> 0]
  BY DEF Init
<1>5. PoolOK(sq)
  BY <1>1, <1>2, <1>3, <1>4 DEF PoolOK, InQueue
<1>6. \A x \in Timers : ~timer[x].used
  BY DEF Init, NoTimer
<1>7. TimersOK
  BY <1>4, <1>6 DEF TimersOK
<1>8. OrderOK(sq, last, sent)
  BY <1>2, <1>4 DEF OrderOK, Init
<1> QED BY <1>5, <1>7, <1>8 DEF StoreOK

\* The handler of f returns to the handlers h behind it.
LEMMA ReturnDelivers ==
  ASSUME TypesOK, NEW t \in Tasks, handler_return(t)
  PROVE  \E f \in Frames, h \in Seq(Frames) :
           frames[t] = Append(h, f) /\ Delivered(t, sq, sigpending, f.mask, h)
<1> DEFINE n == Len(frames[t])
           f == frames[t][n]
           h == SubSeq(frames[t], 1, n - 1)
<1>1. frames[t] # <<>> /\ Deliver(t, sq, sigpending, f.mask, h, f.loop)
  BY DEF handler_return
<1>2. frames[t] \in Seq(Frames) /\ sq \in Pools /\ sigpending \in [Tasks -> SUBSET Signals]
  BY DEF TypesOK, DataTypesOK
<1>3. n \in Nat /\ n >= 1 /\ f \in Frames /\ h \in Seq(Frames)
  BY <1>1, <1>2
<1>4. f.mask \in SUBSET Signals /\ f.loop \in {"pending", "mask"}
  BY <1>3 DEF Frames
<1>5. frames[t] = Append(h, f)
  BY <1>1, <1>2, <1>3
<1> HIDE DEF f, n, h
<1>6. Delivered(t, sq, sigpending, f.mask, h)
  BY <1>1, <1>2, <1>3, <1>4, DeliverEffect
<1> QED BY <1>3, <1>5, <1>6

LEMMA DistributeStore ==
  ASSUME NEW s \in Signals, NEW p \in Pools, NEW irq \in BOOLEAN, ~irq => exec \in Tasks,
         TypesOK, TimersOK, SameTimers, Distribute(s, p, irq),
         PoolOK(p), p.reserved = sq.reserved, OrderOK(p, last, sent + 1)
  PROVE  StoreOK'
<1>1. Serves(p) /\ sent' = sent + 1
  BY DistributeTypes
<1>2. sent' \in Nat
  BY <1>1 DEF TypesOK, TableTypesOK
<1> QED BY <1>1, <1>2, ServesStore

\* An ignored signal has at most one descriptor when sigaction drops it, and the
\* signal of the timers is always queued.
SingleFlush == "flush" \notin Careless
QueuedTimer == Actions[TimerSignal] = {"siginfo"}

LEMMA StoreNext ==
  ASSUME SingleFlush, QueuedTimer, TypesOK, StoreOK, [Next]_vars
  PROVE  StoreOK'
<1>0. /\ sq \in Pools /\ sigpending \in [Tasks -> SUBSET Signals] /\ sent \in Nat
      /\ last \in [Signals -> Nat] /\ sent + 1 \in Nat
      /\ \A t \in Tasks : sigmask[t] \in SUBSET Signals /\ frames[t] \in Seq(Frames)
      /\ \A t \in Tasks : sigwaiting[t] \in SUBSET Signals
      /\ \A u, s : s \in Signals => AddPending(u, s) \in [Tasks -> SUBSET Signals]
      /\ PoolOK(sq) /\ TimersOK /\ OrderOK(sq, last, sent) /\ OrderOK(sq, last, sent + 1)
  <2>1. /\ sq \in Pools /\ sigpending \in [Tasks -> SUBSET Signals] /\ sent \in Nat
        /\ last \in [Signals -> Nat]
        /\ \A t \in Tasks : sigmask[t] \in SUBSET Signals /\ frames[t] \in Seq(Frames)
        /\ \A t \in Tasks : sigwaiting[t] \in SUBSET Signals
    BY DEF TypesOK, DataTypesOK, TaskTypesOK, TableTypesOK
  <2>2. \A u, s : s \in Signals => AddPending(u, s) \in [Tasks -> SUBSET Signals]
    BY <2>1 DEF AddPending
  <2>3. PoolOK(sq) /\ TimersOK /\ OrderOK(sq, last, sent)
    BY DEF StoreOK
  <2>4. OrderOK(sq, last, sent + 1)
    BY <2>1, <2>3, OrderGrows
  <2> QED BY <2>1, <2>2, <2>3, <2>4
<1>same. timer' = timer => SameTimers
  BY DEF SameTimers
<1>1. ASSUME NEW t \in Tasks, handler_return(t)
      PROVE  StoreOK'
  <2>1. Serves(sq)
    BY <1>1, ReturnDelivers DEF Delivered
  <2> QED BY <1>1, <1>same, <2>1, ServesSame DEF handler_return, tableVars
<1>2. ASSUME NEW t \in Tasks, switch(t)
      PROVE  StoreOK'
  <2>1. Serves(sq)
    BY <1>0, <1>2, DeliverPendingTypes, NoDeliveryTypes DEF switch
  <2> QED BY <1>2, <1>same, <2>1, ServesSame DEF switch, tableVars
<1>3. ASSUME NEW s \in Signals, NEW irq \in BOOLEAN, Killed(s, irq), irq \/ exec \in Tasks,
             timer' = timer
      PROVE  StoreOK'
  <2>1. Distribute(s, Marked(sq, s), irq)
    BY <1>3 DEF Killed, Marked
  <2>2. /\ Marked(sq, s) \in Pools /\ Marked(sq, s).reserved = sq.reserved
        /\ PoolOK(Marked(sq, s)) /\ OrderOK(Marked(sq, s), last, sent + 1)
    BY <1>0, MarkKeepsPool
  <2> QED BY <1>0, <1>3, <1>same, <2>1, <2>2, DistributeStore
<1>4. ASSUME NEW t \in Tasks, NEW s \in Signals, kill(t, s)
      PROVE  StoreOK'
  BY <1>3, <1>4 DEF kill, Running, tableVars
<1>5. ASSUME NEW t \in Tasks, NEW s \in Signals, sigqueue(t, s)
      PROVE  StoreOK'
  <2> DEFINE p == Enqueue(sq, s, sent + 1)
             e == Head(sq.free)
  <2>1. Distribute(s, p, FALSE) /\ exec = t /\ timer' = timer /\ sq.free # <<>>
    BY <1>5 DEF sigqueue, Running, tableVars
  <2>2. e \in Entries /\ Added(sq, s, e, sent + 1, p)
    BY <1>0, <2>1, EnqueueFields
  <2>3. PoolOK(p) /\ ~InQueue(sq, e)
    BY <1>0, <2>1, EnqueueKeepsPool
  <2> HIDE DEF p, e
  <2>4. OrderOK(p, last, sent + 1)
    BY <1>0, <2>2, <2>3, AddedKeepsOrder
  <2>5. p \in Pools /\ p.reserved = sq.reserved
    BY <2>2 DEF Added
  <2> QED BY <1>0, <1>same, <2>1, <2>3, <2>4, <2>5, DistributeStore
<1>6. ASSUME NEW t \in Tasks, NEW u \in Tasks, NEW s \in Signals, task_signal(t, u, s)
      PROVE  StoreOK'
  <2>1. Serves(sq)
    BY <1>0, <1>6, DeliverPendingTypes DEF task_signal
  <2> QED BY <1>6, <1>same, <2>1, ServesSame DEF task_signal, tableVars
<1>7. ASSUME NEW t \in Tasks, NEW m \in Masks, task_sigmask(t, m)
      PROVE  StoreOK'
  <2>1. Serves(sq)
    BY <1>0, <1>7, DeliverTypes, Constants DEF task_sigmask
  <2> QED BY <1>7, <1>same, <2>1, ServesSame DEF task_sigmask, tableVars
<1>8. ASSUME NEW t \in Tasks, NEW s \in Signals, NEW a \in Actions[s], sigaction(t, s, a)
      PROVE  StoreOK'
  <2>0. timer' = timer /\ sent' = sent /\ last' = last
    BY <1>8 DEF sigaction, handlerVars
  <2>1. CASE a = "ignore"
    <3>1. sq' = Flush(sq, s) /\ Len(sq.queued[s]) <= 1
      BY <1>8, <2>1 DEF sigaction, SingleFlush
    <3>2. Dequeued(sq, s, sq') /\ sq'.queued = [sq.queued EXCEPT ![s] = <<>>]
      BY <1>0, <3>1, FlushFields
    <3>3. PoolOK(sq')
      BY <1>0, <3>2, DequeueKeepsPool
    <3>4. OrderOK(sq', last', sent')
      BY <1>0, <2>0, <3>2, FlushKeepsOrder DEF Dequeued
    <3>5. TimersOK'
      BY <1>0, <2>0, <3>2 DEF TimersOK, Dequeued
    <3> QED BY <3>3, <3>4, <3>5 DEF StoreOK
  <2>2. CASE a # "ignore"
    <3>1. sq' = sq
      BY <1>8, <2>2 DEF sigaction
    <3> QED BY <1>same, <2>0, <3>1, ServesSame DEF Serves
  <2> QED BY <2>1, <2>2
<1>9. ASSUME NEW t \in Tasks, NEW set \in WaitSets, NEW b \in BOOLEAN, sigwait(t, set, b)
      PROVE  StoreOK'
  <2>0. set \in SUBSET Signals
    BY Constants
  <2>1. Serves(sq)
    BY <1>0, <1>9, <2>0, TakeOneTypes, SameData DEF sigwait, Die
  <2> QED BY <1>9, <1>same, <2>1, ServesSame DEF sigwait, tableVars
<1>10. ASSUME NEW t \in Tasks, sigwait_resume(t)
       PROVE  StoreOK'
  <2>1. Serves(sq)
    BY <1>0, <1>10, TakeOneTypes, SameData DEF sigwait_resume, Die
  <2> QED BY <1>10, <1>same, <2>1, ServesSame DEF sigwait_resume, tableVars
<1>11. ASSUME NEW t \in Tasks, (\E set \in WaitSets : sigsuspend(t, set)) \/ sigsuspend_resume(t)
       PROVE  StoreOK'
  <2>1. Serves(sq)
    BY <1>0, <1>11, DeliverPendingTypes, SameData DEF sigsuspend, sigsuspend_resume, Die
  <2> QED BY <1>11, <1>same, <2>1, ServesSame DEF sigsuspend, sigsuspend_resume, tableVars
<1>12. ASSUME NEW t \in Tasks, sigwait_timer(t) \/ (\E u \in Tasks : task_kill(t, u))
                                \/ \E b \in BOOLEAN : set_alarm(t, b)
       PROVE  StoreOK'
  <2>1. Serves(sq) /\ sent' = sent /\ timer' = timer
    BY <1>12, SameData DEF sigwait_timer, task_kill, set_alarm, tableVars
  <2> QED BY <1>same, <2>1, ServesSame
<1>13. ASSUME timer_alarmfire
       PROVE  StoreOK'
  <2>1. CASE Killed(SIGALRM, TRUE)
    BY <1>3, <1>13, <2>1, Constants DEF timer_alarmfire
  <2>2. CASE ~Killed(SIGALRM, TRUE)
    <3>1. UNCHANGED <<sq, handlerVars, sent, timer>>
      BY <1>13, <2>2 DEF timer_alarmfire
    <3> QED BY <1>same, <3>1, SameData, ServesSame
  <2> QED BY <2>1, <2>2
<1>14. ASSUME NEW t \in Tasks, NEW x \in Timers, timer_create(t, x)
       PROVE  StoreOK'
  <2> DEFINE r == [NoTimer EXCEPT !.used = TRUE, !.signal = Head(sq.free)]
             e == Head(sq.free)
  <2>1. /\ sq' = Reserve(sq) /\ sq.free # <<>> /\ timer' = [timer EXCEPT ![x] = r]
        /\ timer[x] = NoTimer /\ last' = last /\ sent' = sent
    BY <1>14 DEF timer_create, TimerCall, SetTimer, handlerVars
  <2>2. /\ PoolOK(sq') /\ e \in Entries /\ e \notin sq.reserved
        /\ sq'.reserved = sq.reserved \cup {e}
        /\ sq'.queued = sq.queued /\ sq'.info = sq.info
    BY <1>0, <2>1, ReserveKeepsPool
  <2>3. r.used /\ r.signal = e /\ ~timer[x].used
    BY <2>1 DEF NoTimer
  <2> HIDE DEF r, e
  <2>4. \A y \in Timers : timer'[y] = IF y = x THEN r ELSE timer[y]
    BY <2>1 DEF TypesOK, TableTypesOK
  <2>5. \A y \in Timers : timer[y].used => timer[y].signal # e
    BY <1>0, <2>2 DEF TimersOK
  <2>6. \A f \in Entries : f \in sq'.reserved <=> \E y \in Timers : timer'[y].used /\ timer'[y].signal = f
    BY <1>0, <2>2, <2>3, <2>4 DEF TimersOK
  <2>7. \A y, z \in Timers :
          timer'[y].used /\ timer'[z].used /\ timer'[y].signal = timer'[z].signal => y = z
    BY <1>0, <2>3, <2>4, <2>5 DEF TimersOK
  <2>8. OrderOK(sq', last', sent')
    BY <1>0, <2>1, <2>2 DEF OrderOK
  <2> QED BY <2>2, <2>6, <2>7, <2>8 DEF StoreOK, TimersOK
<1>15. ASSUME NEW t \in Tasks, NEW x \in Timers, timer_delete(t, x)
       PROVE  StoreOK'
  <2> DEFINE r == [timer[x] EXCEPT !.used = FALSE, !.event = "none"]
             e == timer[x].signal
  <2>1. /\ sq' = Unreserve(sq, e) /\ timer[x].used /\ timer' = [timer EXCEPT ![x] = r]
        /\ last' = last /\ sent' = sent
    BY <1>15 DEF timer_delete, Deletable, TimerCall, SetTimer, handlerVars
  <2>2. e \in Entries /\ e \in sq.reserved
    BY <1>0, <2>1 DEF TypesOK, TableTypesOK, TimersOK
  <2>3. /\ PoolOK(sq') /\ sq'.reserved = sq.reserved \ {e}
        /\ sq'.queued = sq.queued /\ sq'.info = sq.info
    BY <1>0, <2>1, <2>2, UnreserveKeepsPool
  <2>4. ~r.used
    BY DEF TypesOK, TableTypesOK, TimerRecords
  <2> HIDE DEF r
  <2>5. \A y \in Timers : timer'[y] = IF y = x THEN r ELSE timer[y]
    BY <2>1 DEF TypesOK, TableTypesOK
  <2>6. \A y \in Timers : timer[y].used /\ timer[y].signal = e => y = x
    BY <1>0, <2>1 DEF TimersOK
  <2> HIDE DEF e
  <2>7. \A f \in Entries : f \in sq'.reserved <=> \E y \in Timers : timer'[y].used /\ timer'[y].signal = f
    BY <1>0, <2>3, <2>4, <2>5, <2>6 DEF TimersOK, e
  <2>8. \A y, z \in Timers :
          timer'[y].used /\ timer'[z].used /\ timer'[y].signal = timer'[z].signal => y = z
    BY <1>0, <2>4, <2>5 DEF TimersOK
  <2>9. OrderOK(sq', last', sent')
    BY <1>0, <2>1, <2>3 DEF OrderOK
  <2> QED BY <2>3, <2>7, <2>8, <2>9 DEF StoreOK, TimersOK
<1>16. ASSUME NEW t \in Tasks, NEW x \in Timers,
              timer_disarm(t, x) \/ \E b \in BOOLEAN : timer_settime(t, x, b)
       PROVE  StoreOK'
  <2>1. SameTimers
    <3>1. ASSUME NEW r, timer' = [timer EXCEPT ![x] = r],
                 r.used = timer[x].used, r.signal = timer[x].signal
          PROVE  SameTimers
      BY <3>1 DEF SameTimers, TypesOK, TableTypesOK
    <3>2. CASE timer_disarm(t, x)
      <4> DEFINE r == [timer[x] EXCEPT !.event = "deleted"]
      <4>1. timer' = [timer EXCEPT ![x] = r]
        BY <3>2 DEF timer_disarm, SetTimer
      <4>2. r.used = timer[x].used /\ r.signal = timer[x].signal
        BY DEF TypesOK, TableTypesOK, TimerRecords
      <4> HIDE DEF r
      <4> QED BY <3>1, <4>1, <4>2
    <3>3. ASSUME NEW b \in BOOLEAN, timer_settime(t, x, b)
          PROVE  SameTimers
      <4> DEFINE r == [timer[x] EXCEPT !.event = "posted", !.periodic = b]
      <4>1. timer' = [timer EXCEPT ![x] = r]
        BY <3>3 DEF timer_settime, SetTimer
      <4>2. r.used = timer[x].used /\ r.signal = timer[x].signal
        BY DEF TypesOK, TableTypesOK, TimerRecords
      <4> HIDE DEF r
      <4> QED BY <3>1, <4>1, <4>2
    <3> QED BY <1>16, <3>2, <3>3
  <2>2. sq' = sq /\ last' = last /\ sent' = sent
    BY <1>16 DEF timer_disarm, timer_settime, TimerCall, handlerVars
  <2> QED BY <2>1, <2>2, ServesSame DEF Serves
<1>17. ASSUME NEW x \in Timers, timer_timerfire(x)
       PROVE  StoreOK'
  <2> DEFINE e == timer[x].signal
             p == Enqueue(Lent(sq, e), TimerSignal, sent + 1)
  <2>0. ~Drops(TimerSignal)
    <3>1. action[TimerSignal] = "siginfo"
      BY Constants DEF QueuedTimer, TypesOK, TableTypesOK
    <3> QED BY <3>1 DEF Drops
  <2>1. /\ timer[x].event = "posted"
        /\ \/ UNCHANGED <<sq, handlerVars, sent>>
           \/ e \notin sq.posted /\ Distribute(TimerSignal, p, TRUE)
    BY <1>17, <2>0 DEF timer_timerfire, Lent
  <2>2. e \in Entries /\ e \in sq.reserved
    BY <1>0, <2>1 DEF TypesOK, TableTypesOK, TimersOK
  <2>3. SameTimers
    <3> DEFINE r == IF timer[x].periodic THEN timer[x] ELSE [timer[x] EXCEPT !.event = "none"]
    <3>1. timer' = [timer EXCEPT ![x] = r]
      BY <1>17 DEF timer_timerfire, SetTimer
    <3>2. r.used = timer[x].used /\ r.signal = timer[x].signal
      BY DEF TypesOK, TableTypesOK, TimerRecords
    <3> HIDE DEF r
    <3> QED BY <3>1, <3>2 DEF SameTimers, TypesOK, TableTypesOK
  <2> HIDE DEF e
  <2>4. CASE UNCHANGED <<sq, handlerVars, sent>>
    BY <2>3, <2>4, SameData, ServesSame
  <2>5. CASE e \notin sq.posted /\ Distribute(TimerSignal, p, TRUE)
    <3>1. Added(sq, TimerSignal, e, sent + 1, p)
      BY <1>0, <2>2, LendFields, Constants
    <3>2. PoolOK(p) /\ ~InQueue(sq, e)
      BY <1>0, <2>2, <2>5, LendKeepsPool, Constants
    <3> HIDE DEF p
    <3>3. OrderOK(p, last, sent + 1)
      BY <1>0, <2>2, <3>1, <3>2, AddedKeepsOrder, Constants
    <3>4. p \in Pools /\ p.reserved = sq.reserved
      BY <3>1 DEF Added
    <3> QED BY <1>0, <2>3, <2>5, <3>2, <3>3, <3>4, DistributeStore, Constants
  <2> QED BY <2>1, <2>4, <2>5
<1>18. CASE UNCHANGED vars
  BY <1>same, <1>18, SameData, ServesSame DEF vars, handlerVars, tableVars
<1> QED BY <1>1, <1>2, <1>4, <1>5, <1>6, <1>7, <1>8, <1>9, <1>10, <1>11, <1>12, <1>13,
           <1>14, <1>15, <1>16, <1>17, <1>18 DEF Next, Interrupt, TaskStep

-----------------------------------------------------------------------------
(* The signals that tasks wait for *)

\* A wait is for one signal, or no signal.
SingleWaits == \A set \in WaitSets : \A r, s \in set : r = s

LEMMA TakersFinite ==
  ASSUME NEW s
  PROVE  IsFiniteSet(Takers(s)) /\ Cardinality(Takers(s)) \in Nat
<1>1. Takers(s) \subseteq Tasks
  BY DEF Takers
<1>2. IsFiniteSet(Tasks)
  BY Constants
<1> QED BY <1>1, <1>2, FS_Subset, FS_CardinalityType

KeepsDrains(s) ==
  s \in sq'.pending => \A u \in Tasks : Drains(u, s) => Drains(u, s)'

\* Steps behind which nobody new sleeps, no more is pending, and those who take s
\* still do.
LEMMA CoverKept ==
  ASSUME NEW s \in Signals, CoverAt(s), sq \in Pools, sq' \in Pools,
         s \in sq'.pending => s \in sq.pending /\ Len(sq'.queued[s]) <= Len(sq.queued[s]),
         \A t \in Tasks : Sleeps(t, s)' /\ s \in sq'.pending => Sleeps(t, s),
         Takers(s) \subseteq Takers(s)', KeepsDrains(s)
  PROVE  CoverAt(s)'
<1> SUFFICES ASSUME s \in sq'.pending, NEW t \in Tasks, Sleeps(t, s)'
             PROVE  Covered(s)' \/ \E u \in Tasks : Drains(u, s)'
  BY DEF CoverAt
<1>1. Covered(s) \/ \E u \in Tasks : Drains(u, s)
  BY DEF CoverAt
<1>2. CASE Covered(s)
  <2>1. IsFiniteSet(Takers(s)') /\ Cardinality(Takers(s)') \in Nat
    <3>1. Takers(s)' \subseteq Tasks
      BY DEF Takers
    <3> QED BY <3>1, Constants, FS_Subset, FS_CardinalityType
  <2>2. Cardinality(Takers(s)) <= Cardinality(Takers(s)') /\ Cardinality(Takers(s)) \in Nat
    BY <2>1, FS_Subset, TakersFinite
  <2>3. Len(sq'.queued[s]) \in Nat /\ Len(sq.queued[s]) \in Nat
    <3>1. sq'.queued[s] \in Seq(Entries) /\ sq.queued[s] \in Seq(Entries)
      BY DEF Pools
    <3> QED BY <3>1, LenProperties
  <2> QED BY <1>2, <2>1, <2>2, <2>3 DEF Covered
<1>3. CASE \E u \in Tasks : Drains(u, s)
  BY <1>3 DEF KeepsDrains
<1> QED BY <1>1, <1>2, <1>3

LEMMA ServesLess ==
  ASSUME NEW p \in Pools, Serves(p), NEW s \in Signals
  PROVE  s \in sq'.pending => s \in p.pending /\ Len(sq'.queued[s]) <= Len(p.queued[s])
<1>0. Len(p.queued[s]) \in Nat /\ p.queued[s] \in Seq(Entries)
  <2>1. p.queued[s] \in Seq(Entries)
    BY DEF Pools
  <2> QED BY <2>1, LenProperties
<1>1. CASE sq' = p
  BY <1>0, <1>1
<1>2. CASE \E r \in p.pending : sq' = Dequeue(p, r)
  <2>1. PICK r \in p.pending : sq' = Dequeue(p, r)
    BY <1>2
  <2>2. r \in Signals
    BY DEF Pools
  <2>3. Dequeued(p, r, sq')
    BY <2>1, <2>2, DequeueFields
  <2>4. s \in sq'.pending => s \in p.pending
    BY <2>3 DEF Dequeued
  <2>5. sq'.queued[s] = IF s = r THEN Behind(p.queued[s]) ELSE p.queued[s]
    BY <2>2, <2>3 DEF Dequeued, Pools
  <2>6. Len(Behind(p.queued[s])) <= Len(p.queued[s])
    <3>1. CASE p.queued[s] = <<>>
      BY <1>0, <3>1 DEF Behind
    <3>2. CASE p.queued[s] # <<>>
      BY <1>0, <3>2, HeadTailProperties DEF Behind
    <3> QED BY <3>1, <3>2
  <2> QED BY <1>0, <2>4, <2>5, <2>6
<1> QED BY <1>1, <1>2 DEF Serves

\* A wait of u goes on as it was: it is not begun, and whoever was woken still is.
WaitStays(u) ==
  /\ status[u] = "READY" /\ step[u] # "none" =>
       /\ status'[u] = "READY" /\ step'[u] = step[u] /\ sigwaiting'[u] = sigwaiting[u]
       /\ u \in killed' => u \in killed
       /\ u \in expired' => u \in expired
  /\ status'[u] = "WAIT_SIG" => status[u] = "WAIT_SIG" /\ sigwaiting'[u] = sigwaiting[u]
\* The last of the handlers of u to return stays, and its signals while it waits.
DataStays(u) ==
  /\ frames[u] # <<>> => frames'[u] # <<>> /\ frames'[u][1] = frames[u][1]
  /\ step[u] = "sigsuspend" => sigpending[u] \subseteq sigpending'[u]
\* What StepsOK says of u is left alone.
StepStays(u) ==
  /\ step'[u] # "none" => /\ step'[u] = step[u] /\ frames'[u] = frames[u]
                          /\ sigmask'[u] = sigmask[u] /\ sigwaiting'[u] = sigwaiting[u]
  /\ status'[u] \in {"WAIT_SIG", "WAIT_SIGSUSPEND"} =>
       /\ status'[u] = status[u]
       /\ u \in killed' => u \in killed
       /\ u \in expired' => u \in expired
Calm(u) == WaitStays(u) /\ DataStays(u)

\* What a step may do to u as far as CoverAt(s) is concerned.
Keeps(u, s) ==
  /\ Sleeps(u, s)' /\ s \in sq'.pending => Sleeps(u, s)
  /\ u \in Takers(s) => u \in Takers(s)'
  /\ Drains(u, s) /\ s \in sq'.pending => Drains(u, s)'
LessOf(s) == s \in sq'.pending => s \in sq.pending /\ Len(sq'.queued[s]) <= Len(sq.queued[s])

LEMMA CalmKeeps ==
  ASSUME NEW u \in Tasks, NEW s \in Signals, Calm(u)
  PROVE  Keeps(u, s)
<1>1. Sleeps(u, s)' => Sleeps(u, s)
  BY DEF Calm, WaitStays, Sleeps
<1>2. u \in Takers(s) => u \in Takers(s)'
  BY DEF Calm, WaitStays, Takers
<1>3. Drains(u, s) => Drains(u, s)'
  BY DEF Calm, WaitStays, DataStays, Drains
<1> QED BY <1>1, <1>2, <1>3 DEF Keeps

LEMMA StepsKept ==
  ASSUME StepsOK, \A u \in Tasks : StepStays(u)
  PROVE  StepsOK'
BY DEF StepsOK, StepStays

LEMMA CoverStays ==
  ASSUME TypesOK, TypesOK', NEW s \in Signals, CoverAt(s), LessOf(s),
         \A u \in Tasks : Keeps(u, s)
  PROVE  CoverAt(s)'
<1>1. sq \in Pools /\ sq' \in Pools
  BY DEF TypesOK, DataTypesOK
<1>2. Takers(s) \subseteq Takers(s)'
  <2>1. Takers(s) \subseteq Tasks
    BY DEF Takers
  <2> QED BY <2>1 DEF Keeps
<1>3. KeepsDrains(s)
  BY DEF KeepsDrains, Keeps
<1>4. \A t \in Tasks : Sleeps(t, s)' /\ s \in sq'.pending => Sleeps(t, s)
  BY DEF Keeps
<1>5. s \in sq'.pending => s \in sq.pending /\ Len(sq'.queued[s]) <= Len(sq.queued[s])
  BY DEF LessOf
<1> QED BY <1>1, <1>2, <1>3, <1>4, <1>5, CoverKept

\* The steps that change nothing that waits rest on.
LEMMA CalmStep ==
  ASSUME TypesOK, TypesOK', SigwaitOK, Serves(sq),
         \A u \in Tasks : Calm(u) /\ StepStays(u)
  PROVE  SigwaitOK'
<1>1. StepsOK'
  BY StepsKept DEF SigwaitOK
<1>2. ASSUME NEW s \in Signals
      PROVE  CoverAt(s)'
  <2>1. LessOf(s)
    BY ServesLess DEF LessOf, TypesOK, DataTypesOK
  <2>2. \A u \in Tasks : Keeps(u, s)
    BY CalmKeeps
  <2>3. CoverAt(s)
    BY DEF SigwaitOK
  <2> QED BY <2>1, <2>2, <2>3, CoverStays
<1> QED BY <1>1, <1>2 DEF SigwaitOK

\* The steps in which tasks are at most woken.
Wakes ==
  /\ UNCHANGED <<step, sigwaiting, expired, killed>>
  /\ \A u \in Tasks : /\ status[u] = "READY" => status'[u] = "READY"
                      /\ status'[u] \in {"WAIT_SIG", "WAIT_SIGSUSPEND"} => status'[u] = status[u]

LEMMA TurnsStay ==
  ASSUME TypesOK, NEW t \in Tasks, NEW p, NEW sp, NEW m, NEW h \in Seq(Frames),
         Delivered(t, p, sp, m, h)
  PROVE  /\ \A u \in Tasks : u # t => /\ frames'[u] = frames[u] /\ sigmask'[u] = sigmask[u]
                                      /\ sigpending'[u] = sp[u]
         /\ h # <<>> => frames'[t] # <<>> /\ frames'[t][1] = h[1]
<1>1. frames \in [Tasks -> Seq(Frames)]
  BY DEF TypesOK, DataTypesOK
<1>2. CASE frames' = [frames EXCEPT ![t] = h]
  BY <1>1, <1>2 DEF Delivered
<1>3. ASSUME NEW f \in Frames, frames' = [frames EXCEPT ![t] = Append(h, f)]
      PROVE  /\ \A u \in Tasks : u # t => frames'[u] = frames[u]
             /\ h # <<>> => frames'[t] # <<>> /\ frames'[t][1] = h[1]
  <2>1. frames'[t] = Append(h, f) /\ \A u \in Tasks : u # t => frames'[u] = frames[u]
    BY <1>1, <1>3
  <2>2. Append(h, f) # <<>> /\ (h # <<>> => Append(h, f)[1] = h[1])
    <3>1. Len(h) \in Nat /\ (h # <<>> => Len(h) >= 1)
      BY LenProperties, EmptySeq
    <3>2. Len(Append(h, f)) = Len(h) + 1 /\ \A i \in 1 .. Len(h) : Append(h, f)[i] = h[i]
      BY AppendProperties
    <3>3. Append(h, f) # <<>>
      BY <3>1, <3>2, EmptySeq
    <3> QED BY <3>1, <3>2, <3>3
  <2> QED BY <2>1, <2>2
<1> QED BY <1>2, <1>3 DEF Delivered, Turns

LEMMA DeliveredCalm ==
  ASSUME TypesOK, NEW t \in Tasks, NEW p, NEW sp, NEW m, step[t] = "none", Wakes,
         Delivered(t, p, sp, m, frames[t]), \A u \in Tasks : sigpending[u] \subseteq sp[u]
  PROVE  \A u \in Tasks : Calm(u) /\ StepStays(u)
<1>1. frames[t] \in Seq(Frames)
  BY DEF TypesOK, DataTypesOK
<1>2. /\ \A u \in Tasks : u # t => /\ frames'[u] = frames[u] /\ sigmask'[u] = sigmask[u]
                                   /\ sigpending'[u] = sp[u]
      /\ frames[t] # <<>> => frames'[t] # <<>> /\ frames'[t][1] = frames[t][1]
  BY <1>1, TurnsStay
<1>3. \A u \in Tasks : WaitStays(u)
  BY DEF Wakes, WaitStays
<1>4. \A u \in Tasks : DataStays(u)
  BY <1>2 DEF DataStays
<1>5. \A u \in Tasks : StepStays(u)
  BY <1>2 DEF Wakes, StepStays
<1> QED BY <1>3, <1>4, <1>5 DEF Calm

LEMMA PendingCalm ==
  ASSUME TypesOK, NEW t \in Tasks, NEW p \in Pools, NEW sp \in [Tasks -> SUBSET Signals],
         step[t] = "none", Wakes, \A u \in Tasks : sigpending[u] \subseteq sp[u],
         DeliverPending(t, p, sp)
  PROVE  \A u \in Tasks : Calm(u) /\ StepStays(u)
<1>1. sigmask[t] \in SUBSET Signals /\ frames[t] \in Seq(Frames)
  BY DEF TypesOK, DataTypesOK
<1>2. Delivered(t, p, sp, sigmask[t], frames[t])
  BY <1>1, DeliverEffect DEF DeliverPending
<1> QED BY <1>2, DeliveredCalm

LEMMA NoDeliveryCalm ==
  ASSUME Wakes, UNCHANGED <<sigmask, frames>>,
         \A u \in Tasks : sigpending[u] \subseteq sigpending'[u]
  PROVE  \A u \in Tasks : Calm(u) /\ StepStays(u)
BY DEF Wakes, Calm, WaitStays, DataStays, StepStays

\* A task that is not in a wait and stays so, or blocks for no signal, or dies.
LEMMA AwakeCalm ==
  ASSUME TypesOK, NEW t \in Tasks, step[t] = "none", frames' = frames, sigmask' = sigmask,
         \A u \in Tasks : u # t =>
           /\ status'[u] = status[u] /\ step'[u] = step[u] /\ sigwaiting'[u] = sigwaiting[u]
           /\ sigpending'[u] = sigpending[u],
         status'[t] = "FREE" \/ status'[t] = "READY", step'[t] = "none",
         killed' = killed, expired' = expired
  PROVE  \A u \in Tasks : Calm(u) /\ StepStays(u)
BY DEF Calm, WaitStays, DataStays, StepStays

\* The pool p with one more signal s.
Posts(s, p) ==
  /\ p.pending = sq.pending \cup {s}
  /\ \A r \in Signals : r # s => p.queued[r] = sq.queued[r]
  /\ Len(p.queued[s]) <= Len(sq.queued[s]) + 1

LEMMA MarkPosts ==
  ASSUME sq \in Pools, NEW s \in Signals
  PROVE  Posts(s, Marked(sq, s))
<1>1. Marked(sq, s).pending = sq.pending \cup {s} /\ Marked(sq, s).queued = sq.queued
  BY DEF Marked, Pools
<1>2. Len(sq.queued[s]) \in Nat
  <2>1. sq.queued[s] \in Seq(Entries)
    BY DEF Pools
  <2> QED BY <2>1, LenProperties
<1> QED BY <1>1, <1>2 DEF Posts

LEMMA AddPosts ==
  ASSUME sq \in Pools, NEW s \in Signals, NEW e \in Entries, NEW n, NEW p, Added(sq, s, e, n, p)
  PROVE  Posts(s, p)
<1>1. sq.queued[s] \in Seq(Entries)
  BY DEF Pools
<1>2. Len(InsertLast(e, sq.queued[s])) = Len(sq.queued[s]) + 1
  BY <1>1 DEF InsertLast
<1>3. Len(sq.queued[s]) \in Nat
  BY <1>1, LenProperties
<1> QED BY <1>2, <1>3 DEF Added, Posts, Pools

\* A signal for the process: if nobody waits for it, nobody sleeps over it; if
\* somebody does, it is one more signal and one more task that takes it.
LEMMA DistributeSigwait ==
  ASSUME NEW s \in Signals, NEW p \in Pools, NEW irq \in BOOLEAN, ~irq => exec \in Tasks,
         TypesOK, TypesOK', WaitOK, PoolOK(sq), SigwaitOK,
         Distribute(s, p, irq), killed' = killed, Posts(s, p)
  PROVE  SigwaitOK'
<1>0. /\ sigpending \in [Tasks -> SUBSET Signals]
      /\ \A t : AddPending(t, s) \in [Tasks -> SUBSET Signals]
      /\ \A t \in Tasks : \A u \in Tasks :
           sigpending[u] \subseteq AddPending(t, s)[u] /\ s \in AddPending(t, s)[t]
  BY DEF TypesOK, DataTypesOK, AddPending
<1>1. ASSUME NEW r \in Signals, r # s
      PROVE  LessOf(r)
  <2>1. r \in sq'.pending => r \in p.pending /\ Len(sq'.queued[r]) <= Len(p.queued[r])
    BY DistributeTypes, ServesLess
  <2> QED BY <1>1, <2>1 DEF LessOf, Posts
<1>2. CASE WaitersOf(s) = {}
  <2> DEFINE able == {t \in Tasks : status[t] # "FREE" /\ s \notin sigmask[t]}
             sp == IF able = {} THEN sigpending ELSE AddPending(Lowest(able), s)
  <2>1. /\ IF irq THEN NoDelivery(p, sp) ELSE DeliverPending(exec, p, sp)
        /\ UNCHANGED <<status, sigwaiters, delay, exec, step, sigwaiting, expired>>
    BY <1>2 DEF Distribute, ToTask
  <2>2. sp \in [Tasks -> SUBSET Signals] /\ \A u \in Tasks : sigpending[u] \subseteq sp[u]
    <3>1. CASE able = {}
      BY <1>0, <3>1
    <3>2. CASE able # {}
      <4>1. able \in SUBSET Nat
        BY SignalsAssumption DEF SignalsAssumption
      <4>2. Lowest(able) \in Tasks
        BY <3>2, <4>1, LowestIsLeast
      <4> QED BY <1>0, <3>2, <4>2
    <3> QED BY <3>1, <3>2
  <2> HIDE DEF sp
  <2>3. Wakes
    BY <2>1 DEF Wakes
  <2>4. \A u \in Tasks : Calm(u) /\ StepStays(u)
    <3>1. CASE irq
      BY <2>1, <2>2, <2>3, <3>1, NoDeliveryCalm DEF NoDelivery
    <3>2. CASE ~irq
      <4>1. exec \in Tasks /\ step[exec] = "none"
        BY <3>2 DEF WaitOK
      <4> QED BY <2>1, <2>2, <2>3, <3>2, <4>1, PendingCalm
    <3> QED BY <3>1, <3>2
  <2>5. ~\E t \in Tasks : Sleeps(t, s)'
    <3> SUFFICES ASSUME NEW t \in Tasks, Sleeps(t, s) PROVE FALSE
      BY <2>1 DEF Sleeps
    <3>1. t \in Members(sigwaiters)
      BY DEF Sleeps, WaitOK
    <3>2. PICK i \in DOMAIN sigwaiters : sigwaiters[i] = t
      BY <3>1 DEF Members
    <3>3. i \in WaitersOf(s)
      BY <3>2 DEF WaitersOf, Sleeps
    <3> QED BY <1>2, <3>3
  <2>6. CoverAt(s)'
    BY <2>5 DEF CoverAt
  <2>7. \A r \in Signals : r # s => CoverAt(r)'
    BY <1>1, <2>4, CalmKeeps, CoverStays DEF SigwaitOK
  <2>8. StepsOK'
    BY <2>4, StepsKept DEF SigwaitOK
  <2> QED BY <2>6, <2>7, <2>8 DEF SigwaitOK
<1>3. CASE WaitersOf(s) # {}
  <2>2. PICK t \in Tasks : /\ t = sigwaiters[Lowest(WaitersOf(s))]
                          /\ t \in Members(sigwaiters) /\ s \in sigwaiting[t]
    BY <1>3, FirstWaits
  <2> DEFINE sp == IF status[t] = "WAIT_SIGSUSPEND" THEN AddPending(t, s) ELSE sigpending
  <2>1. /\ Wake(t) /\ NoDelivery(p, sp)
        /\ UNCHANGED <<exec, step, sigwaiting, expired>>
    BY <1>3, <2>2 DEF Distribute, WakeFor
  <2>3. sigpending' = sp /\ \A u \in Tasks : sigpending[u] \subseteq sp[u]
    BY <1>0, <2>1, <2>2 DEF NoDelivery
  <2>4. status[t] \in {"WAIT_SIG", "WAIT_SIGSUSPEND"}
    BY <2>2 DEF WaitOK
  <2>5. \A u \in Tasks : status'[u] = IF u = t THEN "READY" ELSE status[u]
    BY <2>1 DEF Wake, TypesOK, TaskTypesOK
  <2>6. \A u \in Tasks : Calm(u) /\ StepStays(u)
    <3>1. Wakes
      BY <2>1, <2>5 DEF Wakes
    <3> QED BY <2>1, <2>3, <3>1, NoDeliveryCalm DEF NoDelivery
  <2>7. CoverAt(s)'
    <3>1. CASE status[t] = "WAIT_SIGSUSPEND"
      <4>1. step[t] = "sigsuspend" /\ t \notin killed
        BY <2>2, <3>1 DEF WaitOK, SigwaitOK, StepsOK
      <4>2. s \in sigpending'[t]
        BY <1>0, <2>2, <2>3, <3>1
      <4>3. Drains(t, s)'
        BY <2>1, <2>2, <2>5, <4>1, <4>2 DEF Drains
      <4> QED BY <2>2, <4>3 DEF CoverAt
    <3>2. CASE status[t] = "WAIT_SIG"
      <4>1. step[t] = "sigwait" /\ t \notin killed /\ t \notin expired
        BY <2>2, <3>2 DEF WaitOK, SigwaitOK, StepsOK
      <4>2. t \notin Takers(s) /\ Takers(s)' = Takers(s) \cup {t}
        BY <2>1, <2>2, <2>4, <2>5, <4>1 DEF Takers
      <4>3. /\ Cardinality(Takers(s)') = Cardinality(Takers(s)) + 1
            /\ Cardinality(Takers(s)) \in Nat
        BY <4>2, TakersFinite, FS_AddElement
      <4>4. sq' = p
        BY <2>1 DEF NoDelivery
      <4>5. Len(sq.queued[s]) \in Nat /\ Len(p.queued[s]) \in Nat
        <5>1. sq.queued[s] \in Seq(Entries) /\ p.queued[s] \in Seq(Entries)
          BY DEF TypesOK, DataTypesOK, Pools
        <5> QED BY <5>1, LenProperties
      <4>6. CASE s \notin sq.pending
        <5>1. Len(sq.queued[s]) = 0
          BY <4>6 DEF PoolOK
        <5>2. Covered(s)'
          BY <4>3, <4>4, <4>5, <5>1 DEF Covered, Posts
        <5> QED BY <5>2 DEF CoverAt
      <4>7. CASE s \in sq.pending
        <5>1. Covered(s) \/ \E u \in Tasks : Drains(u, s)
          BY <2>2, <3>2, <4>7 DEF SigwaitOK, CoverAt, Sleeps
        <5>2. Covered(s) => Covered(s)'
          BY <4>3, <4>4, <4>5 DEF Covered, Posts
        <5>3. \A u \in Tasks : Drains(u, s) => Drains(u, s)'
          BY <2>6 DEF Calm, WaitStays, DataStays, Drains
        <5> QED BY <5>1, <5>2, <5>3 DEF CoverAt
      <4> QED BY <4>6, <4>7
    <3> QED BY <2>4, <3>1, <3>2
  <2>8. \A r \in Signals : r # s => CoverAt(r)'
    BY <1>1, <2>6, CalmKeeps, CoverStays DEF SigwaitOK
  <2>9. StepsOK'
    BY <2>6, StepsKept DEF SigwaitOK
  <2> QED BY <2>7, <2>8, <2>9 DEF SigwaitOK
<1> QED BY <1>2, <1>3

\* A handler that returns: the signals that its mask leaves open are all handled
\* before the task goes on.
LEMMA ReturnSigwait ==
  ASSUME TypesOK, TypesOK', WaitOK, SigwaitOK, NEW t \in Tasks, handler_return(t)
  PROVE  SigwaitOK'
<1>1. PICK f \in Frames, h \in Seq(Frames) :
        frames[t] = Append(h, f) /\ Delivered(t, sq, sigpending, f.mask, h)
  BY ReturnDelivers
<1>2. /\ \A u \in Tasks : u # t => /\ frames'[u] = frames[u] /\ sigmask'[u] = sigmask[u]
                                   /\ sigpending'[u] = sigpending[u]
      /\ h # <<>> => frames'[t] # <<>> /\ frames'[t][1] = h[1]
  BY <1>1, TurnsStay
<1>3. Wakes /\ step[t] = "none" /\ sq \in Pools
  BY DEF handler_return, Wakes, waitVars, tableVars, WaitOK, TypesOK, DataTypesOK
<1>4. \A u \in Tasks : WaitStays(u) /\ StepStays(u)
  BY <1>2, <1>3 DEF Wakes, WaitStays, StepStays
<1>5. \A u \in Tasks : u # t => Calm(u)
  BY <1>2, <1>4 DEF Calm, DataStays
<1>6. ASSUME NEW r \in Signals
      PROVE  LessOf(r)
  BY <1>1, <1>3, ServesLess DEF LessOf, Delivered
<1>7. ASSUME NEW r \in Signals, r \in sq'.pending, Drains(t, r)
      PROVE  Drains(t, r)'
  <2>1. r \notin frames[t][1].mask
    BY <1>3, <1>7 DEF Drains
  <2>2. CASE h # <<>>
    <3>1. frames[t][1] = h[1]
      <4>1. Len(h) \in Nat /\ Len(h) >= 1
        BY <2>2, LenProperties, EmptySeq
      <4> QED BY <1>1, <4>1, AppendProperties
    <3> QED BY <1>2, <2>1, <2>2, <3>1 DEF Drains
  <2>3. CASE h = <<>>
    <3>1. \A g \in Frames : Append(h, g) = <<g>> /\ <<g>> # <<>> /\ <<g>>[1] = g
      BY <2>3
    <3>2. r \notin f.mask
      BY <1>1, <2>1, <3>1
    <3>3. r \in sq.pending
      BY <1>6, <1>7 DEF LessOf
    <3>4. PICK g \in Frames : g.mask = f.mask /\ frames' = [frames EXCEPT ![t] = Append(h, g)]
      BY <1>1, <3>2, <3>3 DEF Delivered, Turns
    <3>5. frames'[t] = <<g>>
      BY <3>1, <3>4 DEF TypesOK, DataTypesOK
    <3> QED BY <3>1, <3>2, <3>4, <3>5 DEF Drains
  <2> QED BY <2>2, <2>3
<1>8. ASSUME NEW r \in Signals
      PROVE  CoverAt(r)'
  <2>1. Keeps(t, r)
    <3>1. Sleeps(t, r)' => Sleeps(t, r)
      BY <1>4 DEF WaitStays, Sleeps
    <3>2. t \in Takers(r) => t \in Takers(r)'
      BY <1>4 DEF WaitStays, Takers
    <3> QED BY <1>7, <3>1, <3>2 DEF Keeps
  <2>2. \A u \in Tasks : Keeps(u, r)
    BY <1>5, <2>1, CalmKeeps
  <2> QED BY <1>6, <2>2, CoverStays DEF SigwaitOK
<1>9. StepsOK'
  BY <1>4, StepsKept DEF SigwaitOK
<1> QED BY <1>8, <1>9 DEF SigwaitOK

\* A task that was woken in sigsuspend begins to handle what it was woken for, and
\* handles everything else that it does not block with it.
LEMMA SuspendSigwait ==
  ASSUME TypesOK, TypesOK', SigwaitOK, NEW t \in Tasks,
         sigsuspend_resume(t), t \notin killed
  PROVE  SigwaitOK'
<1>0. /\ sq \in Pools /\ sigpending \in [Tasks -> SUBSET Signals]
      /\ sigmask[t] \in SUBSET Signals /\ frames[t] \in Seq(Frames)
      /\ step \in [Tasks -> {"none", "sigwait", "sigsuspend"}]
  BY DEF TypesOK, DataTypesOK, TaskTypesOK
<1>1. /\ status[t] = "READY" /\ step[t] = "sigsuspend" /\ frames[t] = <<>>
      /\ sigwaiting[t] \cap sigmask[t] = {}
      /\ step' = [step EXCEPT ![t] = "none"] /\ killed' = killed
      /\ UNCHANGED <<status, waitVars>>
  BY DEF sigsuspend_resume, SigwaitOK, StepsOK, tableVars
<1>2. \/ /\ sigpending[t] \cap sigwaiting[t] = {}
         /\ UNCHANGED <<sq, handlerVars>>
      \/ Delivered(t, sq, sigpending, sigmask[t], frames[t])
  <2>1. \/ /\ sigpending[t] \cap sigwaiting[t] = {}
           /\ UNCHANGED <<sq, handlerVars>>
        \/ DeliverPending(t, sq, sigpending)
    BY DEF sigsuspend_resume
  <2> QED BY <1>0, <2>1, DeliverEffect DEF DeliverPending
<1>3. \A u \in Tasks : u # t => /\ frames'[u] = frames[u] /\ sigmask'[u] = sigmask[u]
                                /\ sigpending'[u] = sigpending[u]
  BY <1>0, <1>2, TurnsStay DEF handlerVars
<1>4. \A u \in Tasks : u # t => Calm(u)
  BY <1>0, <1>1, <1>3 DEF Calm, WaitStays, DataStays, waitVars
<1>5. \A u \in Tasks : StepStays(u)
  BY <1>0, <1>1, <1>3 DEF StepStays, waitVars
<1>6. ASSUME NEW r \in Signals
      PROVE  LessOf(r)
  <2>1. Serves(sq)
    BY <1>2 DEF Delivered, Serves, handlerVars
  <2> QED BY <1>0, <2>1, ServesLess DEF LessOf
<1>7. ASSUME NEW r \in Signals, r \in sq'.pending, Drains(t, r)
      PROVE  Drains(t, r)'
  <2>1. r \in sigwaiting[t] /\ r \in sigpending[t] /\ r \notin sigmask[t]
    BY <1>1, <1>7 DEF Drains
  <2>2. r \in sq.pending
    BY <1>6, <1>7 DEF LessOf
  <2>3. PICK g \in Frames : g.mask = sigmask[t] /\ frames' = [frames EXCEPT ![t] = Append(frames[t], g)]
    BY <1>2, <2>1, <2>2 DEF Delivered, Turns
  <2>4. frames'[t] = <<g>> /\ <<g>> # <<>> /\ <<g>>[1] = g
    BY <1>1, <2>3 DEF TypesOK, DataTypesOK
  <2> QED BY <2>1, <2>3, <2>4 DEF Drains
<1>8. ASSUME NEW r \in Signals
      PROVE  CoverAt(r)'
  <2>1. Keeps(t, r)
    BY <1>1, <1>7 DEF Keeps, Sleeps, Takers
  <2>2. \A u \in Tasks : Keeps(u, r)
    BY <1>4, <2>1, CalmKeeps
  <2> QED BY <1>6, <2>2, CoverStays DEF SigwaitOK
<1>9. StepsOK'
  BY <1>5, StepsKept DEF SigwaitOK
<1> QED BY <1>8, <1>9 DEF SigwaitOK

\* A task blocks in sigwait: of the signals it waits for, none is pending.
LEMMA BlockSigwait ==
  ASSUME TypesOK, TypesOK', SigwaitOK, NEW t \in Tasks, NEW set \in WaitSets,
         step[t] = "none", frames[t] = <<>>, t \notin killed, t \notin expired,
         sq.pending \cap set = {}, Block(t, "sigwait", "WAIT_SIG", set),
         UNCHANGED <<sq, handlerVars, expired, killed>>
  PROVE  SigwaitOK'
<1>1. /\ \A u \in Tasks : status'[u] = IF u = t THEN "WAIT_SIG" ELSE status[u]
      /\ \A u \in Tasks : step'[u] = IF u = t THEN "sigwait" ELSE step[u]
      /\ \A u \in Tasks : sigwaiting'[u] = IF u = t THEN set ELSE sigwaiting[u]
  BY DEF Block, TypesOK, TaskTypesOK
<1>2. StepsOK'
  BY <1>1 DEF SigwaitOK, StepsOK, handlerVars
<1>3. \A u \in Tasks : u # t => Calm(u)
  BY <1>1 DEF Calm, WaitStays, DataStays, handlerVars
<1>4. ASSUME NEW r \in Signals
      PROVE  CoverAt(r)'
  <2>1. Keeps(t, r)
    BY <1>1 DEF Keeps, Sleeps, Takers, Drains
  <2>2. \A u \in Tasks : Keeps(u, r)
    BY <1>3, <2>1, CalmKeeps
  <2>3. LessOf(r)
    BY ServesLess DEF LessOf, Serves, TypesOK, DataTypesOK, handlerVars
  <2> QED BY <2>2, <2>3, CoverStays DEF SigwaitOK
<1> QED BY <1>2, <1>4 DEF SigwaitOK

\* A task that was woken in sigwait takes one of the signals it was woken for: if
\* more of them are pending, one task fewer and one signal fewer are left.
LEMMA TakeSigwait ==
  ASSUME SingleWaits, TypesOK, TypesOK', SigwaitOK, NEW t \in Tasks,
         sigwait_resume(t), t \notin killed, t \notin expired
  PROVE  SigwaitOK'
<1>0. /\ sq \in Pools /\ sigwaiting[t] \in SUBSET Signals
      /\ step \in [Tasks -> {"none", "sigwait", "sigsuspend"}]
      /\ sigwaiting \in [Tasks -> SUBSET Signals]
      /\ sigpending \in [Tasks -> SUBSET Signals]
  BY DEF TypesOK, DataTypesOK, TaskTypesOK
<1>1. /\ status[t] = "READY" /\ step[t] = "sigwait" /\ frames[t] = <<>>
      /\ sigwaiting[t] \in WaitSets /\ TakeOne(t, sigwaiting[t], FALSE)
      /\ step' = [step EXCEPT ![t] = "none"] /\ sigwaiting' = [sigwaiting EXCEPT ![t] = {}]
      /\ killed' = killed /\ UNCHANGED <<status, expired>>
  BY DEF sigwait_resume, SigwaitOK, StepsOK, tableVars
<1>2. Serves(sq) /\ frames' = frames /\ sigmask' = sigmask
  BY <1>0, <1>1, TakeOneTypes
<1>3. \A u \in Tasks : u # t => sigpending'[u] = sigpending[u]
  BY <1>0, <1>1 DEF TakeOne
<1>4. \A u \in Tasks : u # t => Calm(u)
  BY <1>0, <1>1, <1>2, <1>3 DEF Calm, WaitStays, DataStays
<1>5. \A u \in Tasks : StepStays(u)
  BY <1>0, <1>1, <1>2 DEF StepStays
<1>6. ASSUME NEW r \in Signals
      PROVE  LessOf(r)
  BY <1>0, <1>2, ServesLess DEF LessOf
<1>7. ASSUME NEW r \in Signals, r \notin sigwaiting[t]
      PROVE  CoverAt(r)'
  <2>1. Keeps(t, r)
    BY <1>1, <1>7 DEF Keeps, Sleeps, Takers, Drains
  <2>2. \A u \in Tasks : Keeps(u, r)
    BY <1>4, <2>1, CalmKeeps
  <2> QED BY <1>6, <2>2, CoverStays DEF SigwaitOK
<1>8. ASSUME NEW r \in Signals, r \in sigwaiting[t], r \in sq'.pending,
             NEW v \in Tasks, Sleeps(v, r)'
      PROVE  Covered(r)' \/ \E u \in Tasks : Drains(u, r)'
  <2>1. r \in sq.pending
    BY <1>6, <1>8 DEF LessOf
  <2>2. sigwaiting[t] = {r} /\ sq.pending \cap sigwaiting[t] = {r}
    BY <1>1, <1>8, <2>1 DEF SingleWaits
  <2>3. sq' = Dequeue(sq, r)
    <3>1. Lowest({r}) = r
      <4>1. {r} \in SUBSET Nat /\ {r} # {}
        BY SignalsAreNaturals
      <4> QED BY <4>1, LowestIsLeast
    <3> QED BY <1>1, <2>2, <3>1 DEF TakeOne
  <2>4. Dequeued(sq, r, sq')
    BY <1>0, <2>3, DequeueFields
  <2>5. sq.queued[r] \in Seq(Entries) /\ Len(sq.queued[r]) \in Nat
    <3>1. sq.queued[r] \in Seq(Entries)
      BY <1>0 DEF Pools
    <3> QED BY <3>1, LenProperties
  <2>6. Len(sq.queued[r]) > 1
    BY <1>8, <2>4, <2>5 DEF Dequeued
  <2>7. Len(sq'.queued[r]) = Len(sq.queued[r]) - 1
    <3>1. sq'.queued[r] = Behind(sq.queued[r])
      BY <1>0, <2>4 DEF Dequeued, Pools
    <3> QED BY <2>5, <2>6, <3>1, BehindType
  <2>8. Covered(r) \/ \E u \in Tasks : Drains(u, r)
    <3>1. v # t
      BY <1>1, <1>8 DEF Sleeps
    <3>2. Sleeps(v, r)
      BY <1>4, <1>8, <3>1 DEF Calm, WaitStays, Sleeps
    <3> QED BY <2>1, <3>2 DEF SigwaitOK, CoverAt
  <2>9. CASE Covered(r)
    <3>1. t \in Takers(r)
      BY <1>1, <1>8 DEF Takers
    <3>2. Takers(r)' = Takers(r) \ {t}
      BY <1>0, <1>1 DEF Takers
    <3>3. Cardinality(Takers(r)') = Cardinality(Takers(r)) - 1 /\ Cardinality(Takers(r)) \in Nat
      BY <3>1, <3>2, TakersFinite, FS_RemoveElement
    <3> QED BY <2>5, <2>6, <2>7, <2>9, <3>3 DEF Covered
  <2>10. CASE \E u \in Tasks : Drains(u, r)
    <3>1. PICK u \in Tasks : Drains(u, r)
      BY <2>10
    <3>2. u # t
      BY <1>1, <3>1 DEF Drains
    <3>3. Drains(u, r)'
      BY <1>4, <1>8, <3>1, <3>2, CalmKeeps DEF Keeps
    <3> QED BY <3>3
  <2> QED BY <2>8, <2>9, <2>10
<1>9. \A r \in Signals : CoverAt(r)'
  BY <1>7, <1>8 DEF CoverAt
<1>10. StepsOK'
  BY <1>5, StepsKept DEF SigwaitOK
<1> QED BY <1>9, <1>10 DEF SigwaitOK

LEMMA SigwaitInit ==
  Init => SigwaitOK
BY DEF Init, SigwaitOK, StepsOK, CoverAt

\* The task that takes a signal or blocks in sigwait was not killed, and no wait of
\* its own has timed out.
Careful == "kill" \notin Careless /\ "timeout" \notin Careless

LEMMA SigwaitNext ==
  ASSUME Careful, SingleWaits, TypesOK, TypesOK', WaitOK, PoolOK(sq), SigwaitOK, [Next]_vars
  PROVE  SigwaitOK'
<1>0. /\ sq \in Pools /\ sigpending \in [Tasks -> SUBSET Signals]
      /\ \A t \in Tasks : sigmask[t] \in SUBSET Signals /\ frames[t] \in Seq(Frames)
      /\ \A t \in Tasks : sigwaiting[t] \in SUBSET Signals
      /\ \A t \in Tasks : \A s \in Signals : AddPending(t, s) \in [Tasks -> SUBSET Signals]
      /\ \A t, u \in Tasks : \A s \in Signals : sigpending[u] \subseteq AddPending(t, s)[u]
      /\ status \in [Tasks -> {"READY", "WAIT_SIG", "WAIT_SIGSUSPEND", "FREE"}]
      /\ step \in [Tasks -> {"none", "sigwait", "sigsuspend"}]
      /\ sigwaiting \in [Tasks -> SUBSET Signals]
  BY DEF TypesOK, DataTypesOK, TaskTypesOK, AddPending
<1>run. ASSUME NEW t \in Tasks, exec = t
        PROVE  status[t] = "READY" /\ step[t] = "none"
  BY <1>run DEF WaitOK
\* Nothing changes that waits rest on.
<1>same. ASSUME UNCHANGED <<status, step, sigwaiting, expired, killed, handlerVars>>, Serves(sq)
         PROVE  SigwaitOK'
  <2>1. Wakes
    BY <1>same DEF Wakes
  <2>2. \A u \in Tasks : Calm(u) /\ StepStays(u)
    BY <1>same, <2>1, NoDeliveryCalm DEF handlerVars
  <2> QED BY <1>same, <2>2, CalmStep
<1>1. ASSUME NEW t \in Tasks, handler_return(t)
      PROVE  SigwaitOK'
  BY <1>1, ReturnSigwait
<1>2. ASSUME NEW t \in Tasks, switch(t)
      PROVE  SigwaitOK'
  <2>1. Wakes /\ step[t] = "none"
    BY <1>2 DEF switch, Wakes, waitVars, tableVars
  <2>2. \A u \in Tasks : Calm(u) /\ StepStays(u)
    BY <1>0, <1>2, <2>1, NoDeliveryCalm, PendingCalm DEF switch, NoDelivery
  <2>3. Serves(sq)
    BY <1>0, <1>2, DeliverPendingTypes, NoDeliveryTypes DEF switch
  <2> QED BY <2>2, <2>3, CalmStep
<1>3. ASSUME NEW s \in Signals, NEW irq \in BOOLEAN, Killed(s, irq), irq \/ exec \in Tasks,
             killed' = killed
      PROVE  SigwaitOK'
  <2>1. Distribute(s, Marked(sq, s), irq)
    BY <1>3 DEF Killed, Marked
  <2>2. Marked(sq, s) \in Pools /\ Posts(s, Marked(sq, s))
    BY <1>0, MarkKeepsPool, MarkPosts
  <2> QED BY <1>3, <2>1, <2>2, DistributeSigwait
<1>4. ASSUME NEW t \in Tasks, NEW s \in Signals, kill(t, s)
      PROVE  SigwaitOK'
  BY <1>3, <1>4 DEF kill, Running, tableVars
<1>5. ASSUME NEW t \in Tasks, NEW s \in Signals, sigqueue(t, s)
      PROVE  SigwaitOK'
  <2> DEFINE p == Enqueue(sq, s, sent + 1)
             e == Head(sq.free)
  <2>1. Distribute(s, p, FALSE) /\ exec = t /\ killed' = killed /\ sq.free # <<>>
    BY <1>5 DEF sigqueue, Running, tableVars
  <2>2. e \in Entries /\ Added(sq, s, e, sent + 1, p)
    BY <1>0, <2>1, EnqueueFields DEF TypesOK, TableTypesOK
  <2> HIDE DEF p, e
  <2>3. p \in Pools /\ Posts(s, p)
    <3>1. p \in Pools
      BY <2>2 DEF Added
    <3> QED BY <1>0, <2>2, <3>1, AddPosts
  <2> QED BY <2>1, <2>3, DistributeSigwait
<1>6. ASSUME NEW t \in Tasks, NEW v \in Tasks, NEW s \in Signals, task_signal(t, v, s)
      PROVE  SigwaitOK'
  <2>1. DeliverPending(t, sq, AddPending(v, s)) /\ step[t] = "none"
    BY <1>6, <1>run DEF task_signal, Running
  <2>2. Wakes
    BY <1>0, <1>6 DEF task_signal, Wake, Wakes, tableVars
  <2>3. \A u \in Tasks : Calm(u) /\ StepStays(u)
    BY <1>0, <2>1, <2>2, PendingCalm
  <2>4. Serves(sq)
    BY <1>0, <2>1, DeliverPendingTypes
  <2> QED BY <2>3, <2>4, CalmStep
<1>7. ASSUME NEW t \in Tasks, NEW m \in Masks, task_sigmask(t, m)
      PROVE  SigwaitOK'
  <2>1. Deliver(t, sq, sigpending, m, frames[t], "mask") /\ step[t] = "none"
    BY <1>7, <1>run DEF task_sigmask, Calling, Running
  <2>2. Delivered(t, sq, sigpending, m, frames[t])
    BY <1>0, <2>1, DeliverEffect, Constants
  <2>3. Wakes
    BY <1>7 DEF task_sigmask, Wakes, waitVars, tableVars
  <2>4. \A u \in Tasks : Calm(u) /\ StepStays(u)
    BY <2>1, <2>2, <2>3, DeliveredCalm
  <2> QED BY <2>2, <2>4, CalmStep DEF Delivered
<1>8. ASSUME NEW t \in Tasks, NEW s \in Signals, NEW a \in Actions[s], sigaction(t, s, a)
      PROVE  SigwaitOK'
  <2>1. UNCHANGED <<status, step, sigwaiting, expired, killed, handlerVars>>
    BY <1>8 DEF sigaction, waitVars
  <2>2. CASE a # "ignore"
    <3>1. sq' = sq /\ last' = last
      BY <1>8, <2>2 DEF sigaction, handlerVars
    <3> QED BY <1>same, <2>1, <3>1 DEF Serves
  <2>3. CASE a = "ignore"
    <3>1. sq' = Flush(sq, s)
      BY <1>8, <2>3 DEF sigaction
    <3>2. sq'.queued = [sq.queued EXCEPT ![s] = <<>>] /\ sq'.pending = sq.pending \ {s}
      BY <1>0, <3>1, FlushFields
    <3>3. \A r \in Signals : LessOf(r)
      <4> SUFFICES ASSUME NEW r \in Signals, r \in sq'.pending
                   PROVE  r \in sq.pending /\ Len(sq'.queued[r]) <= Len(sq.queued[r])
        BY DEF LessOf
      <4>1. r # s /\ r \in sq.pending /\ sq'.queued[r] = sq.queued[r]
        BY <1>0, <3>2 DEF Pools
      <4>2. Len(sq.queued[r]) \in Nat
        <5>1. sq.queued[r] \in Seq(Entries)
          BY <1>0 DEF Pools
        <5> QED BY <5>1, LenProperties
      <4> QED BY <4>1, <4>2
    <3>4. \A u \in Tasks : Calm(u) /\ StepStays(u)
      <4>1. Wakes
        BY <2>1 DEF Wakes
      <4> QED BY <2>1, <4>1, NoDeliveryCalm DEF handlerVars
    <3>5. StepsOK'
      BY <3>4, StepsKept DEF SigwaitOK
    <3> QED BY <3>3, <3>4, <3>5, CalmKeeps, CoverStays DEF SigwaitOK
  <2> QED BY <2>2, <2>3
\* A task that runs dies.
<1>die. ASSUME NEW t \in Tasks, Die(t), UNCHANGED <<killed>>, status[t] = "READY",
               step[t] = "none" \/ t \in killed, frames[t] = <<>>
        PROVE  SigwaitOK'
  <2>1. /\ \A u \in Tasks : status'[u] = IF u = t THEN "FREE" ELSE status[u]
        /\ \A u \in Tasks : step'[u] = IF u = t THEN "none" ELSE step[u]
        /\ UNCHANGED <<sq, last, frames, sigmask, sigpending, sigwaiting, expired, killed>>
    BY <1>0, <1>die DEF Die, waitVars, handlerVars
  <2>2. \A u \in Tasks : StepStays(u) /\ (u # t => Calm(u))
    BY <2>1 DEF StepStays, Calm, WaitStays, DataStays
  <2>3. \A r \in Signals : Keeps(t, r)
    BY <1>die, <2>1 DEF Keeps, Sleeps, Takers, Drains
  <2>4. \A u \in Tasks : \A r \in Signals : Keeps(u, r)
    BY <2>2, <2>3, CalmKeeps
  <2>5. \A r \in Signals : LessOf(r)
    BY <1>0, <2>1, ServesLess DEF LessOf, Serves
  <2>6. StepsOK'
    BY <2>2, StepsKept DEF SigwaitOK
  <2> QED BY <2>4, <2>5, <2>6, CoverStays DEF SigwaitOK
<1>9. ASSUME NEW t \in Tasks, NEW set \in WaitSets, NEW b \in BOOLEAN, sigwait(t, set, b)
      PROVE  SigwaitOK'
  <2>0. /\ status[t] = "READY" /\ step[t] = "none" /\ frames[t] = <<>> /\ killed' = killed
        /\ t \notin expired
    BY <1>9, <1>run DEF sigwait, Running, tableVars, Careful
  <2>1. CASE Die(t)
    BY <1>die, <2>0, <2>1
  <2>2. CASE TakeOne(t, set, TRUE) /\ UNCHANGED <<exec, status, step, waitVars>>
    <3>1. set \in SUBSET Signals
      BY Constants
    <3>2. Serves(sq) /\ frames' = frames /\ sigmask' = sigmask
      BY <2>2, <3>1, TakeOneTypes
    <3>3. \A u \in Tasks : u # t => sigpending'[u] = sigpending[u]
      BY <1>0, <2>2 DEF TakeOne
    <3>4. \A u \in Tasks : Calm(u) /\ StepStays(u)
      BY <2>0, <2>2, <3>2, <3>3 DEF Calm, WaitStays, DataStays, StepStays, waitVars
    <3> QED BY <3>2, <3>4, CalmStep
  <2>3. CASE /\ NotCancelled(t) /\ (sq.pending \cup sigpending[t]) \cap set = {}
             /\ Block(t, "sigwait", "WAIT_SIG", set)
             /\ UNCHANGED <<sq, handlerVars, expired>>
    <3>1. t \notin killed /\ sq.pending \cap set = {}
      BY <2>3 DEF NotCancelled, Careful
    <3> QED BY <2>0, <2>3, <3>1, BlockSigwait
  <2> QED BY <1>9, <2>1, <2>2, <2>3 DEF sigwait
<1>10. ASSUME NEW t \in Tasks, sigwait_resume(t)
       PROVE  SigwaitOK'
  <2>0. /\ status[t] = "READY" /\ step[t] = "sigwait" /\ frames[t] = <<>> /\ killed' = killed
    BY <1>10 DEF sigwait_resume, SigwaitOK, StepsOK, tableVars
  <2>1. CASE t \in killed
    BY <1>10, <1>die, <2>0, <2>1 DEF sigwait_resume
  <2>2. CASE t \notin killed /\ t \in expired
    <3>1. /\ step' = [step EXCEPT ![t] = "none"]
          /\ sigwaiting' = [sigwaiting EXCEPT ![t] = {}]
          /\ UNCHANGED <<sq, last, frames, sigmask, sigpending, status, expired>>
      BY <1>10, <2>2 DEF sigwait_resume, handlerVars
    <3>2. \A u \in Tasks : StepStays(u) /\ (u # t => Calm(u))
      BY <1>0, <2>0, <3>1 DEF StepStays, Calm, WaitStays, DataStays
    <3>3. \A r \in Signals : Keeps(t, r)
      BY <2>0, <2>2, <3>1 DEF Keeps, Sleeps, Takers, Drains
    <3>4. \A u \in Tasks : \A r \in Signals : Keeps(u, r)
      BY <3>2, <3>3, CalmKeeps
    <3>5. \A r \in Signals : LessOf(r)
      BY <1>0, <3>1, ServesLess DEF LessOf, Serves
    <3>6. StepsOK'
      BY <3>2, StepsKept DEF SigwaitOK
    <3> QED BY <3>4, <3>5, <3>6, CoverStays DEF SigwaitOK
  <2>3. CASE t \notin killed /\ t \notin expired
    BY <1>10, <2>3, TakeSigwait
  <2> QED BY <2>1, <2>2, <2>3
<1>11. ASSUME NEW t \in Tasks, NEW set \in WaitSets, sigsuspend(t, set)
       PROVE  SigwaitOK'
  <2>0. /\ status[t] = "READY" /\ step[t] = "none" /\ frames[t] = <<>> /\ killed' = killed
        /\ set \cap sigmask[t] = {}
    BY <1>11, <1>run DEF sigsuspend, Running, tableVars
  <2>1. CASE Die(t)
    BY <1>die, <2>0, <2>1
  <2>2. CASE DeliverPending(t, sq, sigpending) /\ UNCHANGED <<exec, status, step, waitVars>>
    <3>1. Wakes
      BY <2>0, <2>2 DEF Wakes, waitVars
    <3>2. \A u \in Tasks : Calm(u) /\ StepStays(u)
      BY <1>0, <2>0, <2>2, <3>1, PendingCalm
    <3>3. Serves(sq)
      BY <1>0, <2>2, DeliverPendingTypes
    <3> QED BY <3>2, <3>3, CalmStep
  <2>3. CASE /\ NotCancelled(t) /\ Block(t, "sigsuspend", "WAIT_SIGSUSPEND", set)
             /\ UNCHANGED <<sq, handlerVars, delay, expired>>
    <3>1. /\ \A u \in Tasks : status'[u] = IF u = t THEN "WAIT_SIGSUSPEND" ELSE status[u]
          /\ \A u \in Tasks : step'[u] = IF u = t THEN "sigsuspend" ELSE step[u]
          /\ \A u \in Tasks : sigwaiting'[u] = IF u = t THEN set ELSE sigwaiting[u]
          /\ UNCHANGED <<sq, last, frames, sigmask, sigpending, expired>>
      BY <1>0, <2>3 DEF Block, handlerVars
    <3>2. t \notin killed
      BY <2>3 DEF NotCancelled, Careful
    <3>3. StepsOK'
      BY <2>0, <3>1, <3>2 DEF SigwaitOK, StepsOK
    <3>4. \A u \in Tasks : Calm(u)
      BY <2>0, <3>1 DEF Calm, WaitStays, DataStays
    <3>5. \A r \in Signals : LessOf(r)
      BY <1>0, <3>1, ServesLess DEF LessOf, Serves
    <3> QED BY <3>3, <3>4, <3>5, CalmKeeps, CoverStays DEF SigwaitOK
  <2> QED BY <1>11, <2>1, <2>2, <2>3 DEF sigsuspend
<1>12. ASSUME NEW t \in Tasks, sigsuspend_resume(t)
       PROVE  SigwaitOK'
  <2>0. /\ status[t] = "READY" /\ step[t] = "sigsuspend" /\ frames[t] = <<>> /\ killed' = killed
    BY <1>12 DEF sigsuspend_resume, SigwaitOK, StepsOK, tableVars
  <2>1. CASE t \in killed
    BY <1>12, <1>die, <2>0, <2>1 DEF sigsuspend_resume
  <2>2. CASE t \notin killed
    BY <1>12, <2>2, SuspendSigwait
  <2> QED BY <2>1, <2>2
<1>13. ASSUME NEW t \in Tasks, sigwait_timer(t)
       PROVE  SigwaitOK'
  <2>1. /\ status[t] = "WAIT_SIG" /\ expired' = expired \cup {t}
        /\ \A u \in Tasks : status'[u] = IF u = t THEN "READY" ELSE status[u]
        /\ UNCHANGED <<sq, last, frames, sigmask, sigpending, step, sigwaiting, killed>>
    BY <1>0, <1>13 DEF sigwait_timer, WaitOK, Wake, handlerVars, tableVars
  <2>2. \A u \in Tasks : Calm(u) /\ StepStays(u)
    BY <2>1 DEF Calm, WaitStays, DataStays, StepStays
  <2>3. Serves(sq)
    BY <2>1 DEF Serves
  <2> QED BY <2>2, <2>3, CalmStep
<1>14. ASSUME NEW t \in Tasks, NEW v \in Tasks, task_kill(t, v)
       PROVE  SigwaitOK'
  <2>0. step[v] = "none" \/ status[v] = "WAIT_SIG"
    BY <1>14 DEF task_kill, Careful
  <2>1. /\ killed' = killed \cup {v}
        /\ \A u \in Tasks : status'[u] = IF u = v /\ status[v] = "WAIT_SIG" THEN "READY" ELSE status[u]
        /\ UNCHANGED <<sq, last, frames, sigmask, sigpending, step, sigwaiting, expired>>
    <3>1. status[v] # "WAIT_SIGSUSPEND"
      BY <2>0 DEF WaitOK
    <3> QED BY <1>0, <1>14, <3>1 DEF task_kill, Wake, handlerVars
  <2>2. \A u \in Tasks : Calm(u) /\ StepStays(u)
    BY <2>0, <2>1 DEF Calm, WaitStays, DataStays, StepStays, WaitOK
  <2>3. Serves(sq)
    BY <2>1 DEF Serves
  <2> QED BY <2>2, <2>3, CalmStep
<1>15. ASSUME timer_alarmfire
       PROVE  SigwaitOK'
  <2>1. CASE Killed(SIGALRM, TRUE)
    BY <1>3, <1>15, <2>1, Constants DEF timer_alarmfire
  <2>2. CASE ~Killed(SIGALRM, TRUE)
    BY <1>15, <1>same, <2>2 DEF timer_alarmfire, Serves, waitVars, handlerVars
  <2> QED BY <2>1, <2>2
<1>16. ASSUME NEW x \in Timers, timer_timerfire(x)
       PROVE  SigwaitOK'
  <2> DEFINE e == timer[x].signal
             p == Enqueue(Lent(sq, e), TimerSignal, sent + 1)
  <2>1. /\ timer[x].event = "posted" /\ killed' = killed
        /\ \/ UNCHANGED <<exec, status, step, sq, waitVars, handlerVars, calls, sent>>
           \/ /\ sq' = Lent(sq, e)
              /\ UNCHANGED <<exec, status, step, waitVars, handlerVars, calls, sent>>
           \/ Distribute(TimerSignal, p, TRUE)
    BY <1>16 DEF timer_timerfire, Lent
  <2>2. e \in Entries
    BY <2>1 DEF TypesOK, TableTypesOK
  <2> HIDE DEF e
  <2>3. CASE UNCHANGED <<exec, status, step, sq, waitVars, handlerVars, calls, sent>>
    BY <1>same, <2>1, <2>3 DEF Serves, waitVars, handlerVars
  <2>4. CASE /\ sq' = Lent(sq, e)
             /\ UNCHANGED <<exec, status, step, waitVars, handlerVars, calls, sent>>
    <3>1. sq'.pending = sq.pending /\ sq'.queued = sq.queued
      BY <1>0, <2>4 DEF Lent, Pools
    <3>2. \A r \in Signals : LessOf(r)
      <4>1. \A r \in Signals : Len(sq.queued[r]) \in Nat
        <5>1. \A r \in Signals : sq.queued[r] \in Seq(Entries)
          BY <1>0 DEF Pools
        <5> QED BY <5>1, LenProperties
      <4> QED BY <3>1, <4>1 DEF LessOf
    <3>3. \A u \in Tasks : Calm(u) /\ StepStays(u)
      <4>1. Wakes
        BY <2>1, <2>4 DEF Wakes, waitVars
      <4> QED BY <2>4, <4>1, NoDeliveryCalm DEF handlerVars
    <3>4. StepsOK'
      BY <3>3, StepsKept DEF SigwaitOK
    <3> QED BY <3>2, <3>3, <3>4, CalmKeeps, CoverStays DEF SigwaitOK
  <2>5. CASE Distribute(TimerSignal, p, TRUE)
    <3>1. Added(sq, TimerSignal, e, sent + 1, p)
      BY <1>0, <2>2, LendFields, Constants DEF TypesOK, TableTypesOK
    <3> HIDE DEF p
    <3>2. p \in Pools /\ Posts(TimerSignal, p)
      <4>1. p \in Pools
        BY <3>1 DEF Added
      <4> QED BY <1>0, <2>2, <3>1, <4>1, AddPosts, Constants
    <3> QED BY <2>1, <2>5, <3>2, DistributeSigwait, Constants
  <2> QED BY <2>1, <2>3, <2>4, <2>5
<1>17. ASSUME NEW t \in Tasks, NEW b \in BOOLEAN, set_alarm(t, b)
       PROVE  SigwaitOK'
  BY <1>17, <1>same DEF set_alarm, Serves, waitVars, handlerVars
<1>18. ASSUME NEW t \in Tasks, NEW x \in Timers, NEW p, TimerCall(t, p),
              p.pending = sq.pending, p.queued = sq.queued
       PROVE  SigwaitOK'
  <2>1. /\ sq'.pending = sq.pending /\ sq'.queued = sq.queued
        /\ UNCHANGED <<frames, sigmask, sigpending, status, step, sigwaiting, expired, killed>>
    BY <1>18 DEF TimerCall, waitVars, handlerVars
  <2>2. \A r \in Signals : LessOf(r)
    <3>1. \A r \in Signals : Len(sq.queued[r]) \in Nat
      <4>1. \A r \in Signals : sq.queued[r] \in Seq(Entries)
        BY <1>0 DEF Pools
      <4> QED BY <4>1, LenProperties
    <3> QED BY <2>1, <3>1 DEF LessOf
  <2>3. \A u \in Tasks : Calm(u) /\ StepStays(u)
    <3>1. Wakes
      BY <2>1 DEF Wakes
    <3> QED BY <2>1, <3>1, NoDeliveryCalm
  <2>4. StepsOK'
    BY <2>3, StepsKept DEF SigwaitOK
  <2> QED BY <2>2, <2>3, <2>4, CalmKeeps, CoverStays DEF SigwaitOK
<1>19. ASSUME NEW t \in Tasks, NEW x \in Timers,
              \/ timer_create(t, x) \/ timer_disarm(t, x) \/ timer_delete(t, x)
              \/ \E b \in BOOLEAN : timer_settime(t, x, b)
       PROVE  SigwaitOK'
  <2>1. Reserve(sq).pending = sq.pending /\ Reserve(sq).queued = sq.queued
    BY <1>0 DEF Reserve, Pools
  <2>2. \A e : Unreserve(sq, e).pending = sq.pending /\ Unreserve(sq, e).queued = sq.queued
    BY <1>0 DEF Unreserve, Pools
  <2> QED BY <1>18, <1>19, <2>1, <2>2 DEF timer_create, timer_disarm, timer_delete, timer_settime
<1>20. CASE UNCHANGED vars
  BY <1>same, <1>20 DEF vars, waitVars, handlerVars, tableVars, Serves
<1> QED BY <1>1, <1>2, <1>4, <1>5, <1>6, <1>7, <1>8, <1>9, <1>10, <1>11, <1>12, <1>13,
           <1>14, <1>15, <1>16, <1>17, <1>19, <1>20 DEF Next, Interrupt, TaskStep

-----------------------------------------------------------------------------
(* The theorems *)

\* A descriptor that is free, queued or with its timer is in no other place.
LEMMA OnePlace ==
  ASSUME TypesOK, PoolOK(sq), TimersOK, NEW e \in Entries
  PROVE  \E z : Places(e) = {z}
<1> DEFINE AtFree(z) == \E i \in DOMAIN sq.free : sq.free[i] = e /\ z = <<"free", i>>
           AtQueue(z) == \E s \in Signals : \E i \in DOMAIN sq.queued[s] :
                           sq.queued[s][i] = e /\ z = <<"queued", s, i>>
           AtTimer(z) == \E x \in Timers : /\ timer[x].used /\ timer[x].signal = e
                                           /\ e \notin sq.posted /\ z = <<"timer", x>>
<1>1. ASSUME NEW z
      PROVE  z \in Places(e) <=> AtFree(z) \/ AtQueue(z) \/ AtTimer(z)
  <2>1. z \in FreePlaces(e) <=> AtFree(z)
    BY DEF FreePlaces
  <2>2. z \in QueuePlaces(e) <=> AtQueue(z)
    BY DEF QueuePlaces
  <2>3. z \in TimerPlaces(e) <=> AtTimer(z)
    BY DEF TimerPlaces
  <2> HIDE DEF AtFree, AtQueue, AtTimer
  <2> QED BY <2>1, <2>2, <2>3 DEF Places
<1>2. \A z : AtFree(z) => e \in Members(sq.free)
  BY DEF Members
<1>3. \A z : AtQueue(z) => InQueue(sq, e)
  BY DEF Members, InQueue
<1>4. \A z : AtTimer(z) => e \in sq.reserved /\ e \notin sq.posted
  BY DEF TimersOK
<1>5. CASE e \in Members(sq.free)
  <2>1. PICK i \in DOMAIN sq.free : sq.free[i] = e
    BY <1>5 DEF Members
  <2>2. \A j \in DOMAIN sq.free : sq.free[j] = e => j = i
    BY <2>1 DEF PoolOK, Distinct
  <2>3. ~InQueue(sq, e) /\ e \notin sq.reserved
    BY <1>5 DEF PoolOK
  <2>4. \A z : z \in Places(e) <=> z = <<"free", i>>
    BY <1>1, <1>3, <1>4, <2>1, <2>2, <2>3
  <2>5. Places(e) = {<<"free", i>>}
    BY <2>4
  <2> QED BY <2>5
<1>6. CASE InQueue(sq, e)
  <2>1. PICK s \in Signals : e \in Members(sq.queued[s])
    BY <1>6 DEF InQueue
  <2>2. PICK i \in DOMAIN sq.queued[s] : sq.queued[s][i] = e
    BY <2>1 DEF Members
  <2>3. \A r \in Signals : \A j \in DOMAIN sq.queued[r] : sq.queued[r][j] = e => r = s /\ j = i
    <3> SUFFICES ASSUME NEW r \in Signals, NEW j \in DOMAIN sq.queued[r], sq.queued[r][j] = e
                 PROVE  r = s /\ j = i
      OBVIOUS
    <3>1. e \in Members(sq.queued[r])
      BY DEF Members
    <3>2. r = s
      BY <2>1, <3>1 DEF PoolOK
    <3> QED BY <2>2, <3>2 DEF PoolOK, Distinct
  <2>4. e \notin Members(sq.free) /\ (e \in sq.reserved => e \in sq.posted)
    BY <1>6 DEF PoolOK
  <2>5. \A z : z \in Places(e) <=> z = <<"queued", s, i>>
    BY <1>1, <1>2, <1>4, <2>2, <2>3, <2>4
  <2>6. Places(e) = {<<"queued", s, i>>}
    BY <2>5
  <2> QED BY <2>6
<1>7. CASE e \notin Members(sq.free) /\ ~InQueue(sq, e)
  <2>1. e \in sq.reserved /\ e \notin sq.posted
    BY <1>7 DEF PoolOK
  <2>2. PICK x \in Timers : timer[x].used /\ timer[x].signal = e
    BY <2>1 DEF TimersOK
  <2>3. \A y \in Timers : timer[y].used /\ timer[y].signal = e => y = x
    BY <2>2 DEF TimersOK
  <2>4. \A z : z \in Places(e) <=> z = <<"timer", x>>
    BY <1>1, <1>2, <1>3, <1>7, <2>1, <2>2, <2>3
  <2>5. Places(e) = {<<"timer", x>>}
    BY <2>4
  <2> QED BY <2>5
<1> QED BY <1>5, <1>6, <1>7

\* Every way out of a wait takes the task out of the queue and deletes its time-out,
\* if no task is killed where the code leaves it in the queue.
THEOREM WaitersAreExact ==
  ASSUME "kill" \notin Careless
  PROVE  Spec => []WaitersExact
<1> DEFINE Inv == TypesOK /\ WaitOK
<1>1. Init => Inv
  BY TypesInit, WaitInit
<1>2. Inv /\ [Next]_vars => Inv'
  BY TypesNext, WaitNext
<1>3. Inv => WaitersExact
  <2> SUFFICES ASSUME Inv PROVE WaitersExact
    OBVIOUS
  <2>1. SignalsTypeOK
    BY DEF SignalsTypeOK, TypesOK, DataTypesOK, TaskTypesOK, WaitOK, Pools
  <2>2. Members(sigwaiters) = {t \in Tasks : status[t] \in {"WAIT_SIG", "WAIT_SIGSUSPEND"}}
    <3>1. Members(sigwaiters) \subseteq Tasks
      BY DEF WaitOK, Members
    <3> QED BY <3>1 DEF WaitOK
  <2>3. delay \subseteq {t \in Tasks : status[t] = "WAIT_SIG"}
    BY DEF WaitOK, TypesOK, TaskTypesOK
  <2> QED BY <2>1, <2>2, <2>3 DEF WaitersExact, WaitOK
<1> QED BY <1>1, <1>2, <1>3, PTL DEF Spec

\* No descriptor is lost or in two places, whatever calls and interrupts do with it, if
\* the signal of the timers is queued and sigaction drops one descriptor at most.
THEOREM PoolIsExact ==
  ASSUME SingleFlush, QueuedTimer
  PROVE  Spec => []PoolExact
<1> DEFINE Inv == TypesOK /\ StoreOK
<1>1. Init => Inv
  BY TypesInit, StoreInit
<1>2. Inv /\ [Next]_vars => Inv'
  BY TypesNext, StoreNext
<1>3. Inv => PoolExact
  <2> SUFFICES ASSUME Inv PROVE PoolExact
    OBVIOUS
  <2>1. ASSUME NEW e \in Entries
        PROVE  Cardinality(Places(e)) = 1
    BY OnePlace, FS_Singleton DEF StoreOK
  <2>2. \A x \in Timers : timer[x].used => timer[x].signal \notin Members(sq.free)
    BY DEF StoreOK, TimersOK, PoolOK, TypesOK, TableTypesOK
  <2> QED BY <2>1, <2>2 DEF PoolExact, StoreOK, PoolOK
<1> QED BY <1>1, <1>2, <1>3, PTL DEF Spec

\* Queued signals are received in the order they were sent, each once, whoever
\* receives them, under the same conditions.
THEOREM ReceivedInOrder ==
  ASSUME SingleFlush, QueuedTimer
  PROVE  Spec => []QueueOrder
<1> DEFINE Inv == TypesOK /\ StoreOK
<1>1. Init => Inv
  BY TypesInit, StoreInit
<1>2. Inv /\ [Next]_vars => Inv'
  BY TypesNext, StoreNext
<1>3. Inv => QueueOrder
  <2> SUFFICES ASSUME Inv, NEW s \in Signals, NEW i \in DOMAIN sq.queued[s]
               PROVE  sq.info[sq.queued[s][i]] >
                        IF i = 1 THEN last[s] ELSE sq.info[sq.queued[s][i - 1]]
    BY DEF QueueOrder
  <2>1. /\ sq.queued[s] \in Seq(Entries) /\ sq.info \in [Entries -> Nat]
        /\ last[s] \in Nat
    BY DEF TypesOK, DataTypesOK, Pools
  <2>2. DOMAIN sq.queued[s] = 1 .. Len(sq.queued[s]) /\ Len(sq.queued[s]) \in Nat
    BY <2>1, LenProperties
  <2>3. \A j \in DOMAIN sq.queued[s] : sq.info[sq.queued[s][j]] \in Nat
    BY <2>1, <2>2
  <2>4. CASE i = 1
    BY <2>1, <2>3, <2>4 DEF StoreOK, OrderOK
  <2>5. CASE i # 1
    <3>1. i - 1 \in DOMAIN sq.queued[s] /\ i - 1 < i
      BY <2>2, <2>5
    <3>2. sq.info[sq.queued[s][i - 1]] < sq.info[sq.queued[s][i]]
      BY <3>1 DEF StoreOK, OrderOK
    <3> QED BY <2>3, <2>5, <3>1, <3>2
  <2> QED BY <2>4, <2>5
<1> QED BY <1>1, <1>2, <1>3, PTL DEF Spec

\* No task sleeps in sigwait over a pending signal that nobody is on the way to take,
\* if every wait is for one signal.
THEOREM NoSignalSleptOver ==
  ASSUME Careful, SingleWaits, SingleFlush, QueuedTimer
  PROVE  Spec => []NoLostSigwait
<1> DEFINE Inv == TypesOK /\ WaitOK /\ StoreOK /\ SigwaitOK
<1>1. Init => Inv
  BY TypesInit, WaitInit, StoreInit, SigwaitInit
<1>2. Inv /\ [Next]_vars => Inv'
  <2> SUFFICES ASSUME Inv, [Next]_vars PROVE Inv'
    OBVIOUS
  <2>1. TypesOK'
    BY TypesNext
  <2>2. WaitOK'
    BY WaitNext DEF Careful
  <2>3. StoreOK'
    BY StoreNext
  <2>4. SigwaitOK'
    BY <2>1, SigwaitNext DEF StoreOK
  <2> QED BY <2>1, <2>2, <2>3, <2>4
<1>3. Inv => NoLostSigwait
  <2> SUFFICES ASSUME Inv, NEW t \in Tasks, status[t] = "WAIT_SIG",
                      NEW s \in sigwaiting[t] \cap sq.pending
               PROVE  \E u \in Tasks : \/ status[u] = "READY" /\ step[u] # "none" /\ s \in sigwaiting[u]
                                       \/ frames[u] # <<>> /\ s \notin frames[u][1].mask
    BY DEF NoLostSigwait
  <2>1. s \in Signals
    BY DEF TypesOK, DataTypesOK, Pools
  <2>2. Covered(s) \/ \E u \in Tasks : Drains(u, s)
    BY <2>1 DEF SigwaitOK, CoverAt, Sleeps
  <2>3. CASE Covered(s)
    <3>1. Takers(s) # {}
      <4>1. Cardinality({}) = 0
        BY FS_EmptySet
      <4>2. 1 <= Cardinality(Takers(s))
        BY <2>3 DEF Covered
      <4> HIDE DEF Takers
      <4> QED BY <4>1, <4>2
    <3> QED BY <3>1 DEF Takers
  <2>4. CASE \E u \in Tasks : Drains(u, s)
    BY <2>4 DEF Drains
  <2> QED BY <2>2, <2>3, <2>4
<1> QED BY <1>1, <1>2, <1>3, PTL DEF Spec

=============================================================================
