---------------------------- MODULE MqueueProofs ----------------------------
(* Theorems about the message queues of Mqueue, for any tasks, priorities  *)
(* and sizes.  Both need that the program uses one name: mq_open of a      *)
(* second name would take descriptor 0 from the first.                     *)
EXTENDS Mqueue, IqueueOpsProofs

OneName == \A m, n \in Names : m = n

Message == [prio : Prios, id : 1 .. MaxSends]

\* The order of delivery.
Before(m, n) == m.prio > n.prio \/ (m.prio = n.prio /\ m.id < n.id)

\* The messages of the only queue are sorted, and none of them was received.
\* Sent messages get larger numbers, so a new one is the last of its priority.
Sorted(M) == \A i, j \in DOMAIN M : i < j => Before(M[i], M[j])
Unique(M) == \A i, j \in DOMAIN M : M[i].id = M[j].id => i = j
Fresh(M, s, r) == \A i \in DOMAIN M : M[i].id <= s /\ M[i].id \notin r
\* The variables that decide which queue is meant.
SelectOK ==
  /\ open \in [Mqs -> BOOLEAN] /\ name \in [Mqs -> Names]
  /\ mq \in [Tasks -> Mqs] /\ prio \in [Tasks -> Prios]
  /\ side \in [Tasks -> Sides]
  /\ \A q \in Mqs : open[q] => q = Mq0

DataTypeOK ==
  /\ msgs \in [Mqs -> Seq(Message)]
  /\ sent \in 0 .. MaxSends /\ received \subseteq 1 .. sent
  /\ \A q \in Mqs : Len(msgs[q]) <= MaxMsg
DataOK ==
  /\ SelectOK
  /\ DataTypeOK
  /\ Sorted(msgs[Mq0]) /\ Unique(msgs[Mq0])
  /\ Fresh(msgs[Mq0], sent, received)

-----------------------------------------------------------------------------
(* The place that insert_mq_entry finds *)

LEMMA BehindIsPrefix ==
  ASSUME NEW q \in Mqs, NEW p \in Prios, msgs[q] \in Seq(Message), Sorted(msgs[q])
  PROVE  /\ Behind(q, p) \in 0 .. Len(msgs[q])
         /\ \A i \in DOMAIN msgs[q] : i <= Behind(q, p) <=> p <= msgs[q][i].prio
<1> DEFINE M == msgs[q]
           n == Len(M)
<1>1. n \in Nat /\ DOMAIN M = 1 .. n /\ \A i \in 1 .. n : M[i] \in Message
  OBVIOUS
<1>2. Sorted(M)
  OBVIOUS
<1>3. Behind(q, p) = Cardinality({i \in 1 .. n : p <= M[i].prio})
  BY <1>1 DEF Behind
<1> HIDE DEF M, n
<1>4. p \in Nat /\ \A i \in 1 .. n : M[i].prio \in Nat
  BY <1>1, MqAssumption DEF MqAssumption, Message
<1>5. \A i, j \in 1 .. n : i < j => M[j].prio <= M[i].prio
  BY <1>1, <1>2, <1>4 DEF Sorted, Before
<1> DEFINE B == {k \in 0 .. n : k < n => ~(p <= M[k + 1].prio)}
<1>6. n \in B /\ B \in SUBSET Nat
  BY <1>1
<1>7. PICK k \in B : \A j \in B : k <= j
  BY <1>6, LeastElement
<1>8. k \in 0 .. n
  BY <1>7
<1>9. ASSUME NEW i \in 1 .. n PROVE i <= k <=> p <= M[i].prio
  <2>1. CASE i <= k
    <3>1. i - 1 \in 0 .. n /\ i - 1 < k /\ i - 1 < n /\ (i - 1) + 1 = i
      BY <1>1, <1>8, <2>1
    <3>2. i - 1 \notin B
      BY <1>7, <3>1, <1>6
    <3> QED BY <2>1, <3>1, <3>2
  <2>2. CASE i > k
    <3>1. k < n /\ k + 1 \in 1 .. n /\ k + 1 <= i
      BY <1>1, <1>8, <2>2
    <3>2. ~(p <= M[k + 1].prio)
      BY <1>7, <3>1
    <3>3. M[i].prio <= M[k + 1].prio
      <4>1. CASE i = k + 1
        BY <1>4, <4>1
      <4>2. CASE k + 1 < i
        BY <1>5, <3>1, <4>2
      <4> QED BY <1>1, <1>8, <3>1, <4>1, <4>2
    <3> QED BY <1>1, <1>4, <1>8, <2>2, <3>1, <3>2, <3>3
  <2> QED BY <1>1, <1>8, <2>1, <2>2
<1>10. {i \in 1 .. n : p <= M[i].prio} = 1 .. k
  BY <1>1, <1>8, <1>9
<1>11. Cardinality(1 .. k) = k
  BY <1>8, <1>1, FS_Interval
<1>12. Behind(q, p) = k
  BY <1>3, <1>10, <1>11
<1> QED
  BY <1>1, <1>8, <1>9, <1>12 DEF M, n

-----------------------------------------------------------------------------
(* What sending and receiving do to the messages *)

LEMMA InsertData ==
  ASSUME DataOK, NEW p \in Prios, sent < MaxSends, ~Full(Mq0), Insert(Mq0, p),
         sent' = sent + 1, UNCHANGED received
  PROVE  /\ msgs' \in [Mqs -> Seq(Message)]
         /\ \A q \in Mqs : Len(msgs'[q]) <= MaxMsg
         /\ Sorted(msgs'[Mq0]) /\ Unique(msgs'[Mq0])
         /\ Fresh(msgs'[Mq0], sent', received')
         /\ Members(msgs[Mq0]) \subseteq Members(msgs'[Mq0])
<1> DEFINE M == msgs[Mq0]
           n == Len(M)
           k == Behind(Mq0, p)
           x == [prio |-> p, id |-> sent + 1]
           r == InsertAt(x, k, M)
<1>1. Mq0 \in Mqs /\ MaxMsg \in Nat /\ MaxSends \in Nat
  BY MqAssumption DEF MqAssumption
<1>2. /\ M \in Seq(Message) /\ n \in Nat /\ DOMAIN M = 1 .. n
      /\ \A i \in 1 .. n : M[i] \in Message
      /\ n <= MaxMsg /\ Sorted(M) /\ Unique(M)
      /\ Fresh(M, sent, received)
  BY <1>1 DEF DataOK, DataTypeOK
<1>3. sent \in Nat /\ received \subseteq 1 .. sent /\ sent + 1 \in 1 .. MaxSends
  BY <1>1 DEF DataOK, DataTypeOK
<1>4. x \in Message
  BY <1>3 DEF Message
<1>5. k \in 0 .. n /\ \A i \in DOMAIN M : i <= k <=> p <= M[i].prio
  BY <1>1, <1>2, BehindIsPrefix
<1>6. msgs' = [msgs EXCEPT ![Mq0] = r]
  BY DEF Insert, InsertAt
<1>7. n # MaxMsg
  BY DEF Full
<1> HIDE DEF M, n, k, r
<1>8. r \in Seq(Message) /\ Inserted(r, x, k, M, n)
  BY <1>2, <1>4, <1>5, InsertAtProperties DEF n, r
<1>9. Len(r) = n + 1 /\ DOMAIN r = 1 .. n + 1 /\ r[k + 1] = x
  BY <1>8 DEF Inserted
<1>10. /\ \A i \in 1 .. k : r[i] = M[i]
       /\ \A i \in k + 1 .. n : r[i + 1] = M[i]
       /\ \A i \in DOMAIN r :
            \/ (i \in 1 .. k /\ i \in 1 .. n /\ r[i] = M[i])
            \/ (i = k + 1 /\ r[i] = x)
            \/ (i > k + 1 /\ i - 1 \in 1 .. n /\ r[i] = M[i - 1])
  BY <1>8 DEF Inserted
<1>11. /\ p \in Nat /\ x.prio = p /\ x.id = sent + 1
       /\ \A i \in 1 .. n : M[i].prio \in Nat /\ M[i].id \in Nat /\ M[i].id <= sent
       /\ \A i \in 1 .. n : M[i].id \notin received
  <2>1. p \in Nat /\ x.prio = p /\ x.id = sent + 1
    BY MqAssumption DEF MqAssumption
  <2>2. \A i \in 1 .. n : M[i].id <= sent /\ M[i].id \notin received
    BY <1>2 DEF Fresh
  <2>3. \A m \in Message : m.prio \in Nat /\ m.id \in Nat
    <3>1. Prios \subseteq Nat
      BY MqAssumption DEF MqAssumption
    <3>2. \A m \in Message : m.prio \in Prios /\ m.id \in 1 .. MaxSends
      BY DEF Message
    <3>3. 1 .. MaxSends \subseteq Nat
      BY <1>1
    <3> QED BY <3>1, <3>2, <3>3
  <2> QED BY <1>2, <2>1, <2>2, <2>3
<1>12. Sorted(r)
  <2> SUFFICES ASSUME NEW i \in DOMAIN r, NEW j \in DOMAIN r, i < j
               PROVE  Before(r[i], r[j])
    BY DEF Sorted
  <2>1. i \in Int /\ j \in Int /\ k \in Nat
    BY <1>2, <1>5, <1>9
  <2>2. CASE i = k + 1
    <3>1. j - 1 \in 1 .. n /\ r[j] = M[j - 1] /\ ~(j - 1 <= k)
      BY <1>10, <2>1, <2>2
    <3>2. ~(p <= M[j - 1].prio)
      BY <1>2, <1>5, <3>1
    <3> QED BY <1>9, <1>11, <2>2, <3>1, <3>2 DEF Before
  <2>3. CASE j = k + 1
    <3>1. i \in 1 .. n /\ r[i] = M[i] /\ i <= k
      BY <1>10, <2>1, <2>3
    <3>2. p <= M[i].prio
      BY <1>2, <1>5, <3>1
    <3>3. M[i].prio \in Nat /\ M[i].id \in Nat /\ M[i].id < sent + 1
      BY <1>3, <1>11, <3>1
    <3> QED BY <1>9, <1>11, <2>3, <3>1, <3>2, <3>3 DEF Before
  <2>4. CASE i # k + 1 /\ j # k + 1
    <3> DEFINE g(h) == IF h <= k THEN h ELSE h - 1
    <3>1. \A h \in DOMAIN r : h # k + 1 => g(h) \in 1 .. n /\ r[h] = M[g(h)]
      BY <1>2, <1>5, <1>9, <1>10
    <3>2. g(i) < g(j)
      BY <2>1, <2>4
    <3> HIDE DEF g
    <3>3. g(i) \in DOMAIN M /\ g(j) \in DOMAIN M /\ r[i] = M[g(i)] /\ r[j] = M[g(j)]
      BY <1>2, <2>4, <3>1
    <3> QED BY <1>2, <3>2, <3>3 DEF Sorted
  <2> QED BY <2>2, <2>3, <2>4
<1>13. Fresh(r, sent + 1, received)
  <2> SUFFICES ASSUME NEW i \in DOMAIN r
               PROVE  r[i].id <= sent + 1 /\ r[i].id \notin received
    BY DEF Fresh
  <2>1. r[i] = x \/ \E j \in 1 .. n : r[i] = M[j]
    BY <1>10
  <2> QED BY <1>3, <1>11, <2>1
<1>18. Unique(r)
  <2> SUFFICES ASSUME NEW i \in DOMAIN r, NEW j \in DOMAIN r, r[i].id = r[j].id, i < j
               PROVE  FALSE
    BY <1>2, <1>9 DEF Unique
  <2> DEFINE g(d) == IF d <= k THEN d ELSE d - 1
  <2>1. \A d \in DOMAIN r : d # k + 1 => g(d) \in 1 .. n /\ r[d] = M[g(d)]
    BY <1>2, <1>5, <1>9, <1>10
  <2>2. \A d \in DOMAIN r : d # k + 1 => r[d].id < sent + 1
    <3> HIDE DEF g
    <3> QED BY <1>3, <1>11, <2>1
  <2>3. i # k + 1 /\ j # k + 1
    BY <1>3, <1>9, <1>11, <2>2
  <2>4. g(i) # g(j)
    BY <1>2, <1>5, <1>9, <2>3
  <2> HIDE DEF g
  <2>5. /\ g(i) \in DOMAIN M /\ g(j) \in DOMAIN M
        /\ M[g(i)].id = M[g(j)].id
    BY <1>2, <2>1, <2>3
  <2> QED BY <1>2, <2>4, <2>5 DEF Unique
<1>14. Members(M) \subseteq Members(r)
  <2> SUFFICES ASSUME NEW i \in 1 .. n PROVE M[i] \in Members(r)
    BY <1>2 DEF Members
  <2>1. CASE i <= k
    <3>1. i \in 1 .. k /\ i \in DOMAIN r
      BY <1>2, <1>5, <1>9, <2>1
    <3> QED BY <1>10, <3>1 DEF Members
  <2>2. CASE i > k
    <3>1. i \in k + 1 .. n /\ i + 1 \in DOMAIN r
      BY <1>2, <1>5, <1>9, <2>2
    <3> QED BY <1>10, <3>1 DEF Members
  <2> QED BY <1>2, <1>5, <2>1, <2>2
<1>15. msgs'[Mq0] = r /\ \A q \in Mqs \ {Mq0} : msgs'[q] = msgs[q]
  BY <1>1, <1>6 DEF DataOK, DataTypeOK
<1>16. msgs' \in [Mqs -> Seq(Message)]
  BY <1>6, <1>8 DEF DataOK, DataTypeOK
<1>17. \A q \in Mqs : Len(msgs'[q]) <= MaxMsg
  <2>1. Len(r) <= MaxMsg
    BY <1>1, <1>2, <1>7, <1>9
  <2> QED BY <1>15, <2>1 DEF DataOK, DataTypeOK
<1> QED
  BY <1>12, <1>13, <1>14, <1>15, <1>16, <1>17, <1>18 DEF M

LEMMA TakeData ==
  ASSUME DataOK, ~Empty(Mq0), msgs' = [msgs EXCEPT ![Mq0] = Tail(@)],
         received' = received \cup {Head(msgs[Mq0]).id}, UNCHANGED sent
  PROVE  /\ msgs' \in [Mqs -> Seq(Message)]
         /\ \A q \in Mqs : Len(msgs'[q]) <= MaxMsg
         /\ received' \subseteq 1 .. sent
         /\ Sorted(msgs'[Mq0]) /\ Unique(msgs'[Mq0])
         /\ Fresh(msgs'[Mq0], sent', received')
         /\ Members(msgs[Mq0]) \ Members(msgs'[Mq0]) = {Head(msgs[Mq0])}
         /\ Head(msgs[Mq0]).id \notin received
         /\ \A m \in Members(msgs[Mq0]) \ {Head(msgs[Mq0])} : Before(Head(msgs[Mq0]), m)
<1> DEFINE M == msgs[Mq0]
           n == Len(M)
           h == Head(M)
           r == Tail(M)
<1>1. Mq0 \in Mqs /\ MaxMsg \in Nat /\ MaxSends \in Nat
  BY MqAssumption DEF MqAssumption
<1>2. /\ M \in Seq(Message) /\ M # <<>> /\ n <= MaxMsg /\ Sorted(M) /\ Unique(M)
      /\ Fresh(M, sent, received)
  BY <1>1 DEF DataOK, DataTypeOK, Empty
<1>3. /\ n \in Nat /\ n >= 1 /\ DOMAIN M = 1 .. n /\ \A i \in 1 .. n : M[i] \in Message
      /\ h = M[1]
      /\ r \in Seq(Message) /\ Len(r) = n - 1 /\ DOMAIN r = 1 .. n - 1
      /\ \A i \in 1 .. n - 1 : r[i] = M[i + 1]
  BY <1>2
<1> HIDE DEF M, n, h, r
<1>4. /\ sent \in Nat /\ received \subseteq 1 .. sent
      /\ \A i \in 1 .. n : M[i].prio \in Nat /\ M[i].id \in 1 .. sent /\ M[i].id \notin received
  <2>1. sent \in Nat /\ received \subseteq 1 .. sent
    BY <1>1 DEF DataOK, DataTypeOK
  <2>2. \A i \in 1 .. n : M[i].id <= sent /\ M[i].id \notin received
    BY <1>2, <1>3 DEF Fresh
  <2>3. \A m \in Message : m.prio \in Nat /\ m.id \in 1 .. MaxSends
    BY MqAssumption DEF Message, MqAssumption
  <2> QED BY <1>1, <1>3, <2>1, <2>2, <2>3
<1>5. \A i \in 1 .. n - 1 : i + 1 \in 1 .. n /\ i + 1 > 1
  BY <1>3
<1>6. Sorted(r)
  <2> SUFFICES ASSUME NEW i \in 1 .. n - 1, NEW j \in 1 .. n - 1, i < j
               PROVE  Before(r[i], r[j])
    BY <1>3 DEF Sorted
  <2>1. i + 1 \in 1 .. n /\ j + 1 \in 1 .. n /\ i + 1 < j + 1
    BY <1>3
  <2> QED BY <1>2, <1>3, <2>1 DEF Sorted
<1>7. \A i \in 2 .. n : Before(h, M[i])
  <2>1. 1 \in 1 .. n /\ \A i \in 2 .. n : i \in 1 .. n /\ 1 < i
    BY <1>3
  <2> QED BY <1>2, <1>3, <2>1 DEF Sorted
<1>8. \A m \in Message : Before(h, m) => m # h
  <2>1. h.prio \in Nat /\ h.id \in Nat
    BY <1>3, <1>4
  <2> QED BY <2>1 DEF Before
<1>9. Members(r) = {M[i] : i \in 2 .. n}
  <2>1. \A i \in 2 .. n : i - 1 \in 1 .. n - 1 /\ (i - 1) + 1 = i
    BY <1>3
  <2>2. \A i \in 2 .. n : M[i] \in Members(r)
    BY <1>3, <2>1 DEF Members
  <2>3. \A i \in 1 .. n - 1 : i + 1 \in 2 .. n
    BY <1>3
  <2> QED BY <1>3, <2>2, <2>3 DEF Members
<1>10. Members(M) = Members(r) \cup {h}
  <2>1. \A i \in 1 .. n : i = 1 \/ i \in 2 .. n
    BY <1>3
  <2>2. 1 \in 1 .. n /\ \A i \in 2 .. n : i \in 1 .. n
    BY <1>3
  <2> QED BY <1>3, <1>9, <2>1, <2>2 DEF Members
<1>11. h \notin Members(r) /\ \A m \in Members(r) : Before(h, m)
  <2>1. \A i \in 2 .. n : M[i] \in Message
    BY <1>3
  <2> QED BY <1>7, <1>8, <1>9, <2>1
<1>12. Fresh(r, sent, received \cup {h.id})
  <2> SUFFICES ASSUME NEW i \in 1 .. n - 1
               PROVE  r[i].id <= sent /\ r[i].id \notin received /\ r[i].id # h.id
    BY <1>3 DEF Fresh
  <2>1. r[i] = M[i + 1] /\ i + 1 \in 1 .. n /\ i + 1 \in 2 .. n
    BY <1>3
  <2>2. r[i].id \in 1 .. sent /\ r[i].id \notin received
    BY <1>4, <2>1
  <2>3. 1 \in 1 .. n /\ i + 1 # 1
    BY <1>3
  <2>4. r[i].id # h.id
    BY <1>2, <1>3, <2>1, <2>3 DEF Unique
  <2> QED BY <1>4, <2>2, <2>4
<1>16. Unique(r)
  <2> SUFFICES ASSUME NEW i \in 1 .. n - 1, NEW j \in 1 .. n - 1, r[i].id = r[j].id
               PROVE  i = j
    BY <1>3 DEF Unique
  <2>1. /\ i + 1 \in 1 .. n /\ j + 1 \in 1 .. n
        /\ r[i] = M[i + 1] /\ r[j] = M[j + 1]
    BY <1>3
  <2>2. i + 1 = j + 1
    BY <1>2, <1>3, <2>1 DEF Unique
  <2> QED BY <2>2
<1>13. h.id \in 1 .. sent /\ h.id \notin received
  BY <1>3, <1>4
<1>14. msgs'[Mq0] = r /\ \A q \in Mqs \ {Mq0} : msgs'[q] = msgs[q]
  BY <1>1 DEF DataOK, DataTypeOK, M, r
<1>15. msgs' \in [Mqs -> Seq(Message)] /\ \A q \in Mqs : Len(msgs'[q]) <= MaxMsg
  <2>1. msgs' = [msgs EXCEPT ![Mq0] = r]
    BY DEF M, r
  <2>2. msgs' \in [Mqs -> Seq(Message)]
    BY <1>3, <2>1 DEF DataOK, DataTypeOK
  <2>3. Len(r) <= MaxMsg
    BY <1>1, <1>2, <1>3
  <2> QED BY <1>14, <2>2, <2>3 DEF DataOK, DataTypeOK
<1> QED
  BY <1>4, <1>6, <1>10, <1>11, <1>12, <1>13, <1>14, <1>15, <1>16 DEF M, h

-----------------------------------------------------------------------------
(* What a step does to the messages *)

\* It leaves them alone, makes the queue new, adds a message or takes one.
Quiet == UNCHANGED <<msgs, sent, received>>
Made == ~open[Mq0] /\ Reset(Mq0) /\ UNCHANGED <<sent, received>>
Added == \E p \in Prios : /\ sent < MaxSends /\ ~Full(Mq0) /\ Insert(Mq0, p)
                          /\ sent' = sent + 1 /\ UNCHANGED received
Taken == /\ ~Empty(Mq0) /\ msgs' = [msgs EXCEPT ![Mq0] = Tail(@)]
         /\ received' = received \cup {Head(msgs[Mq0]).id} /\ UNCHANGED sent

LEMMA TransferEffect ==
  ASSUME SelectOK, NEW t \in Tasks, open[mq[t]], Ready(mq[t], side[t]), Transfer(t)
  PROVE  Added \/ Taken
<1>1. mq[t] = Mq0 /\ prio[t] \in Prios
  BY DEF SelectOK
<1>2. CASE side[t] = "send"
  <2>1. Put(t, Mq0) /\ ~Full(Mq0)
    BY <1>1, <1>2 DEF Transfer, Ready
  <2> QED BY <1>1, <2>1 DEF Put, Added
<1>3. CASE side[t] # "send"
  <2>1. Take(t, Mq0) /\ ~Empty(Mq0)
    BY <1>1, <1>3 DEF Transfer, Ready
  <2> QED BY <2>1 DEF Take, Taken
<1> QED BY <1>2, <1>3

LEMMA StepEffect ==
  ASSUME OneName, SelectOK, Next
  PROVE  SelectOK' /\ (Quiet \/ Made \/ Added \/ Taken)
<1>1. PICK t \in Tasks : TaskStep(t)
  BY DEF Next
<1>2. Mq0 \in Mqs
  BY MqAssumption DEF MqAssumption
<1>3. ASSUME NEW n \in Names, mq_open(t, n)
      PROVE  SelectOK' /\ Made
  <2>1. ~open[Mq0]
    BY <1>2, <1>3 DEF mq_open, OneName, SelectOK
  <2> QED BY <1>2, <1>3, <2>1 DEF mq_open, SelectOK, Made, callVars
<1>4. ASSUME NEW n \in Names, mq_unlink(t, n)
      PROVE  SelectOK' /\ Quiet
  BY <1>4 DEF mq_unlink, SelectOK, Quiet, attrVars, dataVars, callVars
<1>5. ASSUME NEW q \in Mqs, mq_close(t, q)
      PROVE  SelectOK' /\ Quiet
  BY <1>5 DEF mq_close, SelectOK, Quiet, dataVars, callVars
<1>6. ASSUME NEW q \in Mqs, NEW b \in BOOLEAN, mq_setattr(t, q, b) \/ mq_notify(t, q, b)
      PROVE  SelectOK' /\ Quiet
  BY <1>6 DEF mq_setattr, mq_notify, SelectOK, Quiet, dataVars, callVars
<1>7. ASSUME NEW q \in Mqs, NEW p \in Prios, NEW s \in Sides, mq_call(t, s, q, p)
      PROVE  SelectOK' /\ Quiet
  BY <1>7 DEF mq_call, SelectOK, Quiet, attrVars, dataVars
<1>8. ASSUME mq_body(t) PROVE SelectOK' /\ (Quiet \/ Added \/ Taken)
  <2>1. UNCHANGED <<open, name, side, mq, prio>>
    BY <1>8 DEF mq_body
  <2>2. \/ UNCHANGED dataVars
        \/ open[mq[t]] /\ Ready(mq[t], side[t]) /\ Transfer(t)
    BY <1>8 DEF mq_body
  <2> QED BY <2>1, <2>2, TransferEffect DEF SelectOK, Quiet, dataVars
<1>9. ASSUME mq_resume(t) PROVE SelectOK' /\ (Quiet \/ Added \/ Taken)
  <2>1. UNCHANGED <<open, name, side, mq, prio>>
    BY <1>9 DEF mq_resume
  <2>2. \/ UNCHANGED dataVars
        \/ open[mq[t]] /\ Ready(mq[t], side[t]) /\ Transfer(t)
    BY <1>9 DEF mq_resume
  <2> QED BY <2>1, <2>2, TransferEffect DEF SelectOK, Quiet, dataVars
<1>10. ASSUME NEW u \in Tasks, task_kill(t, u) \/ task_signal(t, u)
       PROVE  SelectOK' /\ Quiet
  BY <1>10 DEF task_kill, task_signal, SelectOK, Quiet, attrVars, dataVars, callVars
<1>11. \A q \in Mqs, p \in Prios : mq_send(t, q, p) => mq_call(t, "send", q, p)
  BY DEF mq_send
<1>12. \A q \in Mqs : mq_receive(t, q) => prio[t] \in Prios /\ mq_call(t, "receive", q, prio[t])
  BY DEF mq_receive, SelectOK
<1> QED
  BY <1>1, <1>3, <1>4, <1>5, <1>6, <1>7, <1>8, <1>9, <1>10, <1>11, <1>12
  DEF TaskStep, Sides

-----------------------------------------------------------------------------
(* The order of delivery *)

LEMMA DataInit == Init => DataOK
<1> SUFFICES ASSUME Init PROVE DataOK
  OBVIOUS
<1>1. Mq0 \in Mqs /\ MaxMsg \in Nat /\ MaxSends \in Nat /\ (CHOOSE p \in Prios : TRUE) \in Prios
  BY MqAssumption DEF MqAssumption
<1>2. SelectOK
  BY <1>1 DEF Init, SelectOK, Sides
<1>3. msgs = [q \in Mqs |-> <<>>] /\ sent = 0 /\ received = {}
  BY DEF Init
<1>4. DataTypeOK
  BY <1>1, <1>3 DEF DataTypeOK
<1>5. msgs[Mq0] = <<>>
  BY <1>1, <1>3
<1> QED
  BY <1>2, <1>4, <1>5 DEF DataOK, Sorted, Unique, Fresh

LEMMA DataNext ==
  ASSUME OneName, DataOK, Next
  PROVE  DataOK' /\ \A q \in Mqs : DeliveryStep(q)
<1>1. SelectOK
  BY DEF DataOK
<1>2. SelectOK' /\ (Quiet \/ Made \/ Added \/ Taken)
  BY <1>1, StepEffect
<1>3. Mq0 \in Mqs /\ MaxMsg \in Nat /\ MaxSends \in Nat
  BY MqAssumption DEF MqAssumption
<1>4. \A q \in Mqs \ {Mq0} : DeliveryStep(q)
  BY <1>1 DEF DeliveryStep, SelectOK
<1> DEFINE old == Members(msgs[Mq0])
           gone == old \ Members(msgs'[Mq0])
<1>5. ASSUME gone = {}, UNCHANGED received PROVE DeliveryStep(Mq0)
  <2>1. Cardinality({}) = 0
    BY FS_EmptySet
  <2> QED BY <1>5, <2>1 DEF DeliveryStep
<1>6. CASE Quiet
  <2>1. DataOK'
    BY <1>2, <1>6 DEF Quiet, DataOK, DataTypeOK
  <2> QED BY <1>4, <1>5, <1>6, <2>1 DEF Quiet
<1>7. CASE Made
  <2>1. DeliveryStep(Mq0)
    BY <1>7 DEF Made, DeliveryStep
  <2>2. msgs' = [msgs EXCEPT ![Mq0] = <<>>] /\ UNCHANGED <<sent, received>>
    BY <1>7 DEF Made, Reset
  <2>3. msgs' \in [Mqs -> Seq(Message)] /\ msgs'[Mq0] = <<>>
    BY <1>3, <2>2 DEF DataOK, DataTypeOK
  <2>4. \A q \in Mqs : Len(msgs'[q]) <= MaxMsg
    BY <1>3, <2>2, <2>3 DEF DataOK, DataTypeOK
  <2>5. Sorted(msgs'[Mq0]) /\ Unique(msgs'[Mq0]) /\ Fresh(msgs'[Mq0], sent', received')
    BY <2>3 DEF Sorted, Unique, Fresh
  <2>6. DataOK'
    BY <1>2, <2>2, <2>3, <2>4, <2>5 DEF DataOK, DataTypeOK
  <2> QED BY <1>4, <2>1, <2>6
<1>8. CASE Added
  <2>1. PICK p \in Prios : /\ sent < MaxSends /\ ~Full(Mq0) /\ Insert(Mq0, p)
                           /\ sent' = sent + 1 /\ UNCHANGED received
    BY <1>8 DEF Added
  <2>2. /\ msgs' \in [Mqs -> Seq(Message)]
        /\ \A q \in Mqs : Len(msgs'[q]) <= MaxMsg
        /\ Sorted(msgs'[Mq0]) /\ Unique(msgs'[Mq0])
        /\ Fresh(msgs'[Mq0], sent', received')
        /\ gone = {}
    BY <2>1, InsertData
  <2>3. sent' \in 0 .. MaxSends /\ received' \subseteq 1 .. sent'
    BY <1>3, <2>1 DEF DataOK, DataTypeOK
  <2>4. DataOK'
    BY <1>2, <2>2, <2>3 DEF DataOK, DataTypeOK
  <2> QED BY <1>4, <1>5, <2>1, <2>2, <2>4
<1>9. CASE Taken
  <2> DEFINE h == Head(msgs[Mq0])
  <2>1. /\ msgs' \in [Mqs -> Seq(Message)]
        /\ \A q \in Mqs : Len(msgs'[q]) <= MaxMsg
        /\ received' \subseteq 1 .. sent
        /\ Sorted(msgs'[Mq0]) /\ Unique(msgs'[Mq0])
        /\ Fresh(msgs'[Mq0], sent', received')
        /\ gone = {h}
        /\ h.id \notin received
        /\ \A m \in old \ {h} : Before(h, m)
    BY <1>9, TakeData DEF Taken
  <2>2. sent' = sent /\ received' = received \cup {h.id}
    BY <1>9 DEF Taken
  <2>3. DataOK'
    BY <1>2, <2>1, <2>2 DEF DataOK, DataTypeOK
  <2>4. Cardinality({h}) = 1
    BY FS_Singleton
  <2> HIDE DEF h, gone, old
  <2>5. DeliveryStep(Mq0)
    <3>1. Cardinality(gone) <= 1 /\ gone # {}
      BY <2>1, <2>4
    <3>2. ASSUME NEW m \in gone
          PROVE  /\ m.id \notin received /\ received' = received \cup {m.id}
                 /\ \A n \in old \ {m} : Before(m, n)
      <4>1. m = h
        BY <2>1
      <4> QED BY <2>1, <2>2, <4>1
    <3> QED BY <3>1, <3>2 DEF DeliveryStep, Before, gone, old
  <2> QED BY <1>4, <2>3, <2>5
<1> QED BY <1>2, <1>6, <1>7, <1>8, <1>9

\* Every receive takes the oldest message of the highest priority, and each
\* message is taken once, as long as all tasks mean the same queue
\* (insert_mq_entry, mq_send and mq_receive in any interleaving with closes,
\* kills and signals).
THEOREM OrderedDelivery ==
  ASSUME OneName
  PROVE  Spec => DeliveryOrder
<1>1. Init => DataOK
  BY DataInit
<1>2. DataOK /\ [Next]_vars => DataOK'
  <2>1. DataOK /\ Next => DataOK'
    BY DataNext
  <2>2. DataOK /\ UNCHANGED vars => DataOK'
    BY DEF DataOK, SelectOK, DataTypeOK, vars, attrVars, dataVars, callVars
  <2> QED BY <2>1, <2>2
<1>3. DataOK /\ [Next]_vars => [\A q \in Mqs : DeliveryStep(q)]_vars
  BY DataNext
<1> QED BY <1>1, <1>2, <1>3, PTL DEF Spec, DeliveryOrder

-----------------------------------------------------------------------------
(* The queues of blocked tasks *)

LinkTypeOK ==
  /\ blocked \in [Mqs -> [Sides -> Seq(Tasks)]]
  /\ status \in [Tasks -> {"READY", "WAIT_MQSEND", "WAIT_MQRECEIVE", "FREE"}]
  /\ call \in [Tasks -> {"none", "entry", "wait"}]
  /\ mq \in [Tasks -> Mqs] /\ side \in [Tasks -> Sides]
  /\ open \in [Mqs -> BOOLEAN]
LinkedOnce == \A q \in Mqs, s \in Sides : Distinct(blocked[q][s])
Linked ==
  \A t \in Tasks, q \in Mqs, s \in Sides :
    t \in Members(blocked[q][s]) <=> Blocked(t) /\ mq[t] = q /\ side[t] = s
\* Nobody waits in a queue that is closed: this is what mq_open and mq_close
\* need, and why mq_close must find the queue empty.
WaitsInside == \A t \in Tasks : Blocked(t) => call[t] = "wait" /\ open[mq[t]]
LinkOK == LinkTypeOK /\ LinkedOnce /\ Linked /\ WaitsInside

\* A step of a running task t that touches no queue.
LEMMA AloneLinks ==
  ASSUME LinkOK, NEW t \in Tasks, status[t] = "READY", LinkTypeOK',
         UNCHANGED <<open, blocked>>, status'[t] \in {"READY", "FREE"},
         \A u \in Tasks \ {t} : /\ status'[u] = status[u] /\ call'[u] = call[u]
                                /\ mq'[u] = mq[u] /\ side'[u] = side[u]
  PROVE  LinkOK'
<1>1. ~Blocked(t) /\ ~Blocked(t)'
  BY DEF Blocked
<1>2. \A u \in Tasks \ {t} : /\ Blocked(u)' <=> Blocked(u)
                             /\ mq'[u] = mq[u] /\ side'[u] = side[u]
                             /\ call'[u] = call[u]
  BY DEF Blocked
<1>3. LinkedOnce'
  BY DEF LinkOK, LinkedOnce
<1>4. Linked'
  BY <1>1, <1>2 DEF LinkOK, Linked
<1>5. WaitsInside'
  BY <1>1, <1>2 DEF LinkOK, WaitsInside
<1> QED BY <1>3, <1>4, <1>5 DEF LinkOK

\* u leaves queue q and is ready.
LEMMA LeaveLinks ==
  ASSUME LinkOK, NEW q \in Mqs, NEW s \in Sides, NEW u \in Members(blocked[q][s]),
         NEW r \in Seq(Tasks), Distinct(r), Members(r) = Members(blocked[q][s]) \ {u},
         blocked' = [blocked EXCEPT ![q][s] = r],
         status' = [status EXCEPT ![u] = "READY"],
         NEW t \in Tasks, status[t] = "READY", LinkTypeOK',
         \A v \in Tasks \ {t} : call'[v] = call[v],
         UNCHANGED <<open, mq, side>>
  PROVE  LinkOK'
<1>1. u \in Tasks /\ Blocked(u) /\ mq[u] = q /\ side[u] = s
  <2>1. u \in Tasks
    BY DEF LinkOK, LinkTypeOK, Members
  <2> QED BY <2>1 DEF LinkOK, Linked
<1>2. ~Blocked(u)' /\ \A v \in Tasks \ {u} : Blocked(v)' <=> Blocked(v)
  BY <1>1 DEF Blocked, LinkOK, LinkTypeOK
<1>3. /\ blocked'[q][s] = r
      /\ \A p \in Mqs, d \in Sides : p # q \/ d # s => blocked'[p][d] = blocked[p][d]
  BY DEF LinkOK, LinkTypeOK
<1>4. LinkedOnce'
  BY <1>3 DEF LinkOK, LinkedOnce
<1>5. Linked'
  <2> SUFFICES ASSUME NEW v \in Tasks, NEW p \in Mqs, NEW d \in Sides
               PROVE  v \in Members(blocked'[p][d])
                        <=> Blocked(v)' /\ mq[v] = p /\ side[v] = d
    BY DEF Linked
  <2>1. v \in Members(blocked[p][d]) <=> Blocked(v) /\ mq[v] = p /\ side[v] = d
    BY DEF LinkOK, Linked
  <2>2. CASE p = q /\ d = s
    BY <1>1, <1>2, <1>3, <2>1, <2>2
  <2>3. CASE ~(p = q /\ d = s)
    BY <1>1, <1>2, <1>3, <2>1, <2>3
  <2> QED BY <2>2, <2>3
<1>6. WaitsInside'
  <2>1. \A v \in Tasks : Blocked(v)' => v # t /\ Blocked(v)
    BY <1>1, <1>2 DEF Blocked, LinkOK, LinkTypeOK
  <2> QED BY <2>1 DEF LinkOK, WaitsInside
<1> QED BY <1>4, <1>5, <1>6 DEF LinkOK

LEMMA WakeLinks ==
  ASSUME LinkOK, NEW q \in Mqs, NEW s \in Sides, blocked[q][s] # <<>>, Wake(q, s),
         NEW t \in Tasks, status[t] = "READY", GoTo(t, "none"),
         UNCHANGED <<open, mq, side>>
  PROVE  LinkOK'
<1> DEFINE b == blocked[q][s]
           u == b[1]
           r == DropFirst(1, b)
<1>1. b \in Seq(Tasks) /\ Distinct(b) /\ b # <<>>
  BY DEF LinkOK, LinkTypeOK, LinkedOnce
<1>2. 1 \in 0 .. Len(b) /\ 1 \in DOMAIN b
  BY <1>1
<1>3. /\ r \in Seq(Tasks) /\ Distinct(r)
      /\ Members(r) = Members(b) \ {b[i] : i \in 1 .. 1}
  <2>1. ASSUME NEW c \in Seq(Tasks), Distinct(c), NEW k \in 0 .. Len(c)
        PROVE  /\ DropFirst(k, c) \in Seq(Tasks) /\ Distinct(DropFirst(k, c))
               /\ Members(DropFirst(k, c)) = Members(c) \ {c[i] : i \in 1 .. k}
    BY <2>1, DropFirstProperties
  <2> HIDE DEF b
  <2> QED BY <1>1, <1>2, <2>1, Zenon
<1>4. {b[i] : i \in 1 .. 1} = {u}
  <2>1. 1 .. 1 = {1}
    OBVIOUS
  <2> QED BY <2>1
<1>5. u \in Members(b) /\ u \in Tasks
  BY <1>1, <1>2 DEF Members
<1>6. /\ blocked' = [blocked EXCEPT ![q][s] = r]
      /\ status' = [status EXCEPT ![u] = "READY"]
  BY DEF Wake
<1>7. LinkTypeOK'
  BY <1>3, <1>5, <1>6 DEF LinkOK, LinkTypeOK, GoTo
<1>8. \A v \in Tasks \ {t} : call'[v] = call[v]
  BY DEF LinkOK, LinkTypeOK, GoTo
<1> HIDE DEF r, u
<1> QED BY <1>3, <1>4, <1>5, <1>6, <1>7, <1>8, LeaveLinks

\* A blocked task is taken out of queue 0, where OneName puts them all.
LEMMA WithdrawLinks ==
  ASSUME LinkOK, SelectOK, NEW k \in Tasks, status[k] = "READY",
         NEW t \in Tasks, Blocked(t), Withdraw(t), UNCHANGED <<open, mq, side, call>>
  PROVE  LinkOK'
<1> DEFINE b == blocked[Mq0][side[t]]
           r == Extract(t, b)
<1>1. Mq0 \in Mqs /\ side[t] \in Sides /\ b \in Seq(Tasks) /\ Distinct(b)
  BY MqAssumption DEF LinkOK, LinkTypeOK, LinkedOnce, MqAssumption
<1>2. t \in Members(b)
  <2>1. mq[t] = Mq0
    BY DEF LinkOK, WaitsInside, SelectOK
  <2> QED BY <1>1, <2>1 DEF LinkOK, Linked
<1>3. r \in Seq(Tasks) /\ Distinct(r) /\ Members(r) = Members(b) \ {t}
  BY <1>1, <1>2, ExtractProperties
<1>4. /\ blocked' = [blocked EXCEPT ![Mq0][side[t]] = r]
      /\ status' = [status EXCEPT ![t] = "READY"]
  BY <1>2 DEF Withdraw
<1>5. LinkTypeOK'
  BY <1>1, <1>3, <1>4 DEF LinkOK, LinkTypeOK
<1> HIDE DEF r
<1> QED BY <1>1, <1>2, <1>3, <1>4, <1>5, LeaveLinks

LEMMA BlockLinks ==
  ASSUME LinkOK, NEW t \in Tasks, status[t] = "READY", open[mq[t]], Block(t),
         UNCHANGED <<open, mq, side>>
  PROVE  LinkOK'
<1> DEFINE q == mq[t]
           s == side[t]
           b == blocked[q][s]
           r == InsertByKey(t, b, priority)
<1>1. q \in Mqs /\ s \in Sides /\ b \in Seq(Tasks) /\ Distinct(b)
  BY DEF LinkOK, LinkTypeOK, LinkedOnce
<1>2. t \notin Members(b)
  BY <1>1 DEF LinkOK, Linked, Blocked
<1>3. priority \in [Tasks -> Int]
  <2>1. priority \in [Tasks -> Nat]
    BY MqAssumption DEF MqAssumption
  <2> QED BY <2>1
<1>4. r \in Seq(Tasks) /\ Distinct(r) /\ Members(r) = Members(b) \cup {t}
  BY <1>1, <1>2, <1>3, InsertByKeyProperties
<1>5. /\ blocked' = [blocked EXCEPT ![q][s] = r]
      /\ status' = [status EXCEPT ![t] = WaitStatus(s)]
      /\ call' = [call EXCEPT ![t] = "wait"]
  BY DEF Block, GoTo
<1>6. WaitStatus(s) \in {"WAIT_MQSEND", "WAIT_MQRECEIVE"}
  BY DEF WaitStatus
<1>7. LinkTypeOK'
  BY <1>1, <1>4, <1>5, <1>6 DEF LinkOK, LinkTypeOK
<1> HIDE DEF r
<1>8. Blocked(t)' /\ \A v \in Tasks \ {t} : Blocked(v)' <=> Blocked(v)
  BY <1>5, <1>6 DEF Blocked, LinkOK, LinkTypeOK
<1>9. /\ blocked'[q][s] = r
      /\ \A p \in Mqs, d \in Sides : p # q \/ d # s => blocked'[p][d] = blocked[p][d]
  BY <1>1, <1>5 DEF LinkOK, LinkTypeOK
<1>10. LinkedOnce'
  BY <1>4, <1>9 DEF LinkOK, LinkedOnce
<1>11. Linked'
  <2> SUFFICES ASSUME NEW v \in Tasks, NEW p \in Mqs, NEW d \in Sides
               PROVE  v \in Members(blocked'[p][d])
                        <=> Blocked(v)' /\ mq[v] = p /\ side[v] = d
    BY DEF Linked
  <2>1. v \in Members(blocked[p][d]) <=> Blocked(v) /\ mq[v] = p /\ side[v] = d
    BY DEF LinkOK, Linked
  <2>2. ~Blocked(t)
    BY DEF Blocked
  <2>3. CASE p = q /\ d = s
    BY <1>4, <1>8, <1>9, <2>1, <2>3
  <2>4. CASE ~(p = q /\ d = s)
    BY <1>8, <1>9, <2>1, <2>2, <2>4
  <2> QED BY <2>3, <2>4
<1>12. WaitsInside'
  BY <1>5, <1>8 DEF LinkOK, LinkTypeOK, WaitsInside
<1> QED BY <1>7, <1>10, <1>11, <1>12 DEF LinkOK

\* The variables that take no part in the queues.
RestTypeOK ==
  /\ nonblock \in [Mqs -> BOOLEAN] /\ notify \in [Mqs -> BOOLEAN]
  /\ count \in [Mqs -> Nat] /\ fault \in BOOLEAN
  /\ intsig \in [Tasks -> BOOLEAN] /\ killreq \in [Tasks -> BOOLEAN]

LEMMA TransferLinks ==
  ASSUME LinkOK, RestTypeOK, NEW t \in Tasks, status[t] = "READY", Transfer(t),
         UNCHANGED <<open, mq, side>>
  PROVE  LinkOK' /\ notify' \in [Mqs -> BOOLEAN] /\ count' \in [Mqs -> Nat] /\ fault' = fault
<1> DEFINE q == mq[t]
<1>1. q \in Mqs /\ {"send", "receive"} \subseteq Sides
  BY DEF LinkOK, LinkTypeOK, Sides
<1>2. GoTo(t, "none") /\ (Put(t, q) \/ Take(t, q)) /\ fault' = fault
  BY DEF Transfer
<1>3. \/ NoWake
      \/ blocked[q]["send"] # <<>> /\ Wake(q, "send")
      \/ blocked[q]["receive"] # <<>> /\ Wake(q, "receive")
  BY <1>2 DEF Put, Take, Freed
<1>4. notify' \in [Mqs -> BOOLEAN] /\ count' \in [Mqs -> Nat]
  <2>1. /\ count' = [count EXCEPT ![q] = @ + 1]
        /\ notify' = notify \/ notify' = [notify EXCEPT ![q] = @ /\ count[q] # 0]
    BY <1>2 DEF Put, Take
  <2>2. count' \in [Mqs -> Nat]
    <3>1. count \in [Mqs -> Nat] /\ count[q] + 1 \in Nat
      BY <1>1 DEF RestTypeOK
    <3> QED BY <2>1, <3>1
  <2>3. notify' \in [Mqs -> BOOLEAN]
    BY <2>1 DEF RestTypeOK
  <2> QED BY <2>2, <2>3
<1>5. CASE NoWake
  <2>1. LinkTypeOK'
    BY <1>2, <1>5 DEF LinkOK, LinkTypeOK, NoWake, GoTo
  <2> QED BY <1>2, <1>4, <1>5, <2>1, AloneLinks DEF NoWake, GoTo, LinkOK, LinkTypeOK
<1>6. CASE \E s \in {"send", "receive"} : blocked[q][s] # <<>> /\ Wake(q, s)
  BY <1>1, <1>2, <1>4, <1>6, WakeLinks
<1> QED BY <1>3, <1>5, <1>6

LEMMA LinkNext ==
  ASSUME OneName, ~CloseBusy, SelectOK, LinkOK, RestTypeOK, Next
  PROVE  LinkOK' /\ RestTypeOK'
<1>1. PICK t \in Tasks : TaskStep(t)
  BY DEF Next
<1>2. Mq0 \in Mqs
  BY MqAssumption DEF MqAssumption
<1>3. ASSUME NEW n \in Names, mq_open(t, n) PROVE LinkOK' /\ RestTypeOK'
  <2>1. ~open[Mq0]
    BY <1>2, <1>3 DEF mq_open, OneName, SelectOK
  <2>2. /\ open' = [open EXCEPT ![Mq0] = TRUE]
        /\ blocked' = [blocked EXCEPT ![Mq0] = [s \in Sides |-> <<>>]]
        /\ UNCHANGED <<status, call, mq, side>>
    BY <1>3 DEF mq_open, Reset, callVars
  <2>3. LinkTypeOK'
    BY <1>2, <2>2 DEF LinkOK, LinkTypeOK
  <2>4. /\ \A s \in Sides : blocked'[Mq0][s] = <<>>
        /\ \A q \in Mqs \ {Mq0} : blocked'[q] = blocked[q]
    BY <1>2, <2>2 DEF LinkOK, LinkTypeOK
  <2>5. Members(<<>>) = {} /\ Distinct(<<>>)
    BY DEF Members, Distinct
  <2>6. \A u \in Tasks : Blocked(u)' = Blocked(u) /\ (Blocked(u) => mq[u] # Mq0)
    BY <2>1, <2>2 DEF LinkOK, WaitsInside, Blocked
  <2>7. LinkedOnce'
    BY <2>4, <2>5 DEF LinkOK, LinkedOnce
  <2>8. Linked'
    BY <2>2, <2>4, <2>5, <2>6 DEF LinkOK, Linked
  <2>9. WaitsInside'
    BY <1>2, <2>2, <2>6 DEF LinkOK, LinkTypeOK, WaitsInside
  <2>10. RestTypeOK'
    BY <1>3 DEF mq_open, Reset, RestTypeOK
  <2> QED BY <2>3, <2>7, <2>8, <2>9, <2>10 DEF LinkOK
<1>4. ASSUME NEW n \in Names, mq_unlink(t, n) PROVE LinkOK' /\ RestTypeOK'
  BY <1>4 DEF mq_unlink, attrVars, dataVars, callVars, LinkOK, LinkTypeOK, LinkedOnce,
              Linked, WaitsInside, Blocked, RestTypeOK
<1>5. ASSUME NEW q \in Mqs, mq_close(t, q) PROVE LinkOK' /\ RestTypeOK'
  <2>1. /\ open' = [open EXCEPT ![q] = FALSE]
        /\ UNCHANGED <<blocked, status, call, mq, side>>
    BY <1>5 DEF mq_close, callVars
  <2>2. LinkTypeOK' /\ LinkedOnce' /\ Linked'
    BY <2>1 DEF LinkOK, LinkTypeOK, LinkedOnce, Linked, Blocked
  <2>3. \A u \in Tasks : ~(call[u] = "wait" /\ mq[u] = q)
    BY <1>5 DEF mq_close, Inside
  <2>4. WaitsInside'
    BY <2>1, <2>3 DEF LinkOK, LinkTypeOK, WaitsInside, Blocked
  <2>5. RestTypeOK'
    BY <1>5 DEF mq_close, dataVars, RestTypeOK
  <2> QED BY <2>2, <2>4, <2>5 DEF LinkOK
<1>6. ASSUME NEW q \in Mqs, NEW b \in BOOLEAN, mq_setattr(t, q, b) \/ mq_notify(t, q, b)
      PROVE  LinkOK' /\ RestTypeOK'
  <2>1. UNCHANGED <<open, blocked, status, call, mq, side>>
    BY <1>6 DEF mq_setattr, mq_notify, callVars
  <2>2. LinkOK'
    BY <2>1 DEF LinkOK, LinkTypeOK, LinkedOnce, Linked, WaitsInside, Blocked
  <2>3. RestTypeOK'
    BY <1>6 DEF mq_setattr, mq_notify, dataVars, RestTypeOK
  <2> QED BY <2>2, <2>3
<1>7. ASSUME NEW q \in Mqs, NEW p \in Prios, NEW s \in Sides, mq_call(t, s, q, p)
      PROVE  LinkOK' /\ RestTypeOK'
  <2>1. status[t] = "READY" /\ UNCHANGED <<open, blocked>>
    BY <1>7 DEF mq_call, At, attrVars
  <2>2. \/ Die(t) /\ UNCHANGED <<side, mq>>
        \/ /\ GoTo(t, "entry") /\ UNCHANGED status
           /\ side' = [side EXCEPT ![t] = s] /\ mq' = [mq EXCEPT ![t] = q]
    BY <1>7 DEF mq_call
  <2>3. LinkTypeOK'
    BY <2>1, <2>2 DEF Die, GoTo, LinkOK, LinkTypeOK
  <2>4. /\ status'[t] \in {"READY", "FREE"}
        /\ \A u \in Tasks \ {t} : /\ status'[u] = status[u] /\ call'[u] = call[u]
                                  /\ mq'[u] = mq[u] /\ side'[u] = side[u]
    BY <2>1, <2>2 DEF Die, GoTo, LinkOK, LinkTypeOK
  <2>5. RestTypeOK'
    BY <1>7 DEF mq_call, attrVars, dataVars, RestTypeOK
  <2> QED BY <2>1, <2>3, <2>4, <2>5, AloneLinks
<1>8. ASSUME mq_body(t) PROVE LinkOK' /\ RestTypeOK'
  <2>1. status[t] = "READY" /\ UNCHANGED <<open, nonblock, mq, side, killreq>>
    BY <1>8 DEF mq_body, At
  <2>2. CASE GoTo(t, "none") /\ UNCHANGED <<notify, dataVars, blocked, status, intsig, fault>>
    <3>1. LinkTypeOK'
      BY <2>1, <2>2 DEF GoTo, LinkOK, LinkTypeOK
    <3>2. \A u \in Tasks \ {t} : call'[u] = call[u]
      BY <2>2 DEF GoTo, LinkOK, LinkTypeOK
    <3>3. RestTypeOK'
      BY <2>1, <2>2 DEF dataVars, RestTypeOK
    <3> QED BY <2>1, <2>2, <3>1, <3>2, <3>3, AloneLinks
  <2>3. CASE open[mq[t]] /\ Block(t) /\ UNCHANGED <<notify, dataVars, fault>>
    <3>1. RestTypeOK'
      BY <2>1, <2>3 DEF Block, dataVars, RestTypeOK
    <3> QED BY <2>1, <2>3, <3>1, BlockLinks
  <2>4. CASE Transfer(t) /\ UNCHANGED intsig
    BY <2>1, <2>4, TransferLinks DEF RestTypeOK
  <2> QED BY <1>8, <2>2, <2>3, <2>4 DEF mq_body
<1>9. ASSUME mq_resume(t) PROVE LinkOK' /\ RestTypeOK'
  <2>1. status[t] = "READY" /\ UNCHANGED <<open, nonblock, mq, side, intsig, killreq>>
    BY <1>9 DEF mq_resume, At
  <2>2. CASE /\ Die(t) \/ (GoTo(t, "none") /\ UNCHANGED status)
             /\ UNCHANGED <<notify, dataVars, blocked, fault>>
    <3>1. LinkTypeOK'
      BY <2>1, <2>2 DEF Die, GoTo, LinkOK, LinkTypeOK
    <3>2. /\ status'[t] \in {"READY", "FREE"}
          /\ \A u \in Tasks \ {t} : status'[u] = status[u] /\ call'[u] = call[u]
      BY <2>1, <2>2 DEF Die, GoTo, LinkOK, LinkTypeOK
    <3>3. RestTypeOK'
      BY <2>1, <2>2 DEF dataVars, RestTypeOK
    <3> QED BY <2>1, <2>2, <3>1, <3>2, <3>3, AloneLinks
  <2>3. CASE fault' = TRUE /\ UNCHANGED <<notify, dataVars, blocked, status, call>>
    <3>1. RestTypeOK'
      BY <2>1, <2>3 DEF dataVars, RestTypeOK
    <3> QED BY <2>1, <2>3, <3>1
         DEF LinkOK, LinkTypeOK, LinkedOnce, Linked, WaitsInside, Blocked
  <2>4. CASE Transfer(t)
    BY <2>1, <2>4, TransferLinks DEF RestTypeOK
  <2> QED BY <1>9, <2>2, <2>3, <2>4 DEF mq_resume
<1>10. ASSUME NEW u \in Tasks, task_kill(t, u) \/ task_signal(t, u)
       PROVE  LinkOK' /\ RestTypeOK'
  <2>1. /\ status[t] = "READY"
        /\ UNCHANGED <<open, nonblock, notify, count, call, mq, side>>
    BY <1>10 DEF task_kill, task_signal, At, attrVars, dataVars, callVars
  <2>2. \/ Blocked(u) /\ Withdraw(u)
        \/ UNCHANGED <<blocked, status, fault>>
    BY <1>10 DEF task_kill, task_signal
  <2>3. RestTypeOK'
    <3>1. fault' \in BOOLEAN
      BY <2>2 DEF Withdraw, RestTypeOK
    <3>2. intsig' \in [Tasks -> BOOLEAN] /\ killreq' \in [Tasks -> BOOLEAN]
      BY <1>10 DEF task_kill, task_signal, RestTypeOK
    <3> QED BY <2>1, <3>1, <3>2 DEF RestTypeOK
  <2>4. CASE Blocked(u) /\ Withdraw(u)
    BY <2>1, <2>3, <2>4, WithdrawLinks
  <2>5. CASE UNCHANGED <<blocked, status, fault>>
    BY <2>1, <2>3, <2>5 DEF LinkOK, LinkTypeOK, LinkedOnce, Linked, WaitsInside, Blocked
  <2> QED BY <2>2, <2>4, <2>5
<1>11. \A q \in Mqs, p \in Prios : mq_send(t, q, p) => mq_call(t, "send", q, p)
  BY DEF mq_send
<1>12. \A q \in Mqs : mq_receive(t, q) => prio[t] \in Prios /\ mq_call(t, "receive", q, prio[t])
  BY DEF mq_receive, SelectOK
<1> QED
  BY <1>1, <1>3, <1>4, <1>5, <1>6, <1>7, <1>8, <1>9, <1>10, <1>11, <1>12
  DEF TaskStep, Sides

LEMMA LinkInit == Init => LinkOK /\ RestTypeOK
<1> SUFFICES ASSUME Init PROVE LinkOK /\ RestTypeOK
  OBVIOUS
<1>1. Mq0 \in Mqs
  BY MqAssumption DEF MqAssumption
<1>2. LinkTypeOK /\ RestTypeOK
  <2>1. blocked \in [Mqs -> [Sides -> Seq(Tasks)]]
    BY DEF Init
  <2>2. LinkTypeOK
    BY <1>1, <2>1 DEF Init, LinkTypeOK, Sides
  <2>3. RestTypeOK
    BY DEF Init, RestTypeOK
  <2> QED BY <2>2, <2>3
<1>3. \A q \in Mqs, s \in Sides : blocked[q][s] = <<>>
  BY DEF Init
<1>4. Members(<<>>) = {} /\ Distinct(<<>>)
  BY DEF Members, Distinct
<1>5. \A t \in Tasks : ~Blocked(t)
  BY DEF Init, Blocked
<1> QED
  BY <1>2, <1>3, <1>4, <1>5 DEF LinkOK, LinkedOnce, Linked, WaitsInside

\* A blocked task is in exactly one queue, that of its call, and no other task
\* is in any, for every number of tasks: mq_send and mq_receive, the wake-ups,
\* mq_cancellation_point and mq_interrupted_by_signal keep this together while
\* one name is used and mq_close finds nobody inside.
THEOREM BlockedAreQueued ==
  ASSUME OneName, ~CloseBusy
  PROVE  Spec => []BlockedIsQueued
<1> DEFINE IInv == DataOK /\ LinkOK /\ RestTypeOK
<1>1. Init => IInv
  BY DataInit, LinkInit
<1>2. IInv /\ [Next]_vars => IInv'
  <2>1. IInv /\ Next => IInv'
    BY DataNext, LinkNext DEF DataOK
  <2>2. IInv /\ UNCHANGED vars => IInv'
    BY DEF DataOK, SelectOK, DataTypeOK, LinkOK, LinkTypeOK, LinkedOnce, Linked,
           WaitsInside, Blocked, RestTypeOK, vars, attrVars, dataVars, callVars
  <2> QED BY <2>1, <2>2
<1>3. IInv => BlockedIsQueued
  <2> SUFFICES ASSUME IInv PROVE BlockedIsQueued
    OBVIOUS
  <2>1. MqTypeOK
    BY DEF MqTypeOK, DataOK, SelectOK, DataTypeOK, LinkOK, LinkTypeOK, RestTypeOK, Message
  <2> QED BY <2>1 DEF LinkOK, LinkedOnce, Linked, BlockedIsQueued
<1> QED BY <1>1, <1>2, <1>3, PTL DEF Spec

-----------------------------------------------------------------------------
(* The slots that are handed over *)

\* The senders that were woken and have not run yet.
Waking == {t \in Tasks : /\ status[t] = "READY" /\ call[t] = "wait"
                         /\ mq[t] = Mq0 /\ side[t] = "send"}
Slots == ~fault /\ blocked[Mq0]["send"] # <<>>
           => MaxMsg - Len(msgs[Mq0]) <= Cardinality(Waking)
\* A woken sender has no reason to leave without using its slot.
SendersStay ==
  \A t \in Tasks :
    /\ killreq[t] => t \in Killable
    /\ call[t] # "none" /\ side[t] = "send" => t \in Senders
    /\ call[t] = "wait" /\ intsig[t] => t \notin Senders
SlotsOK == Slots /\ SendersStay

LEMMA Count ==
  ASSUME IsFiniteSet(Tasks), NEW A \in SUBSET Tasks, NEW B \in SUBSET Tasks
  PROVE  /\ Cardinality(A) \in Nat /\ Cardinality(B) \in Nat
         /\ A \subseteq B => Cardinality(A) <= Cardinality(B)
         /\ \A t : A \ {t} \subseteq B => Cardinality(A) - 1 <= Cardinality(B)
         /\ \A t : t \notin A /\ A \cup {t} \subseteq B
                     => Cardinality(A) + 1 <= Cardinality(B)
<1>1. IsFiniteSet(A) /\ IsFiniteSet(B)
  BY FS_Subset
<1>2. Cardinality(A) \in Nat /\ Cardinality(B) \in Nat
  BY <1>1, FS_CardinalityType
<1>3. \A C : C \subseteq B => Cardinality(C) <= Cardinality(B)
  BY <1>1, FS_Subset
<1>4. \A t : /\ Cardinality(A \ {t}) = IF t \in A THEN Cardinality(A) - 1 ELSE Cardinality(A)
             /\ Cardinality(A \cup {t}) = IF t \in A THEN Cardinality(A) ELSE Cardinality(A) + 1
  BY <1>1, FS_RemoveElement, FS_AddElement
<1>5. ASSUME NEW t, A \ {t} \subseteq B PROVE Cardinality(A) - 1 <= Cardinality(B)
  <2>1. Cardinality(A \ {t}) <= Cardinality(B)
    BY <1>3, <1>5
  <2> QED BY <1>2, <1>4, <2>1
<1>6. ASSUME NEW t, t \notin A, A \cup {t} \subseteq B PROVE Cardinality(A) + 1 <= Cardinality(B)
  <2>1. Cardinality(A \cup {t}) <= Cardinality(B)
    BY <1>3, <1>6
  <2> QED BY <1>2, <1>4, <1>6, <2>1
<1> QED BY <1>2, <1>3, <1>5, <1>6

\* insert_mq_entry makes the list one longer, a receive makes it one shorter.
LEMMA InsertLength ==
  ASSUME DataOK, NEW p \in Prios, sent < MaxSends, Insert(Mq0, p)
  PROVE  Len(msgs'[Mq0]) = Len(msgs[Mq0]) + 1
<1> DEFINE M == msgs[Mq0]
           n == Len(M)
           k == Behind(Mq0, p)
           x == [prio |-> p, id |-> sent + 1]
           r == InsertAt(x, k, M)
<1>1. Mq0 \in Mqs /\ MaxSends \in Nat /\ sent \in Nat /\ M \in Seq(Message)
  BY MqAssumption DEF MqAssumption, DataOK, DataTypeOK
<1>2. x \in Message
  BY <1>1 DEF Message
<1>3. k \in 0 .. n
  BY <1>1, BehindIsPrefix DEF DataOK
<1>4. msgs'[Mq0] = r
  BY <1>1 DEF Insert, InsertAt, DataOK, DataTypeOK
<1> HIDE DEF M, k, x, r
<1>5. Inserted(r, x, k, M, n)
  BY <1>1, <1>2, <1>3, InsertAtProperties DEF n, r
<1> QED BY <1>4, <1>5 DEF Inserted, M, n

\* The three ways in which slots and woken senders change together.
LEMMA SlotsKept ==
  ASSUME IsFiniteSet(Tasks), DataOK, DataOK', Slots, NEW t \in Tasks,
         fault' = fault,
         blocked'[Mq0]["send"] # <<>> => blocked[Mq0]["send"] # <<>>,
         \/ /\ Len(msgs'[Mq0]) = Len(msgs[Mq0]) /\ Waking \subseteq Waking'
         \/ /\ Len(msgs'[Mq0]) = Len(msgs[Mq0]) + 1 /\ Waking \ {t} \subseteq Waking'
         \/ /\ Len(msgs'[Mq0]) = Len(msgs[Mq0]) - 1
            /\ blocked[Mq0]["send"] # <<>> =>
                 \E u : u \notin Waking /\ Waking \cup {u} \subseteq Waking'
  PROVE  Slots'
<1> SUFFICES ASSUME ~fault', blocked'[Mq0]["send"] # <<>>
             PROVE  MaxMsg - Len(msgs'[Mq0]) <= Cardinality(Waking')
  BY Zenon DEF Slots
<1> DEFINE n == Len(msgs[Mq0])
           n1 == Len(msgs'[Mq0])
           c == Cardinality(Waking)
           c1 == Cardinality(Waking')
<1>1. Waking \in SUBSET Tasks /\ Waking' \in SUBSET Tasks
  BY DEF Waking
<1>2. n \in Nat /\ n1 \in Nat /\ MaxMsg \in Nat
  BY MqAssumption DEF MqAssumption, DataOK, DataTypeOK
<1>3. MaxMsg - n <= c
  BY DEF Slots
<1>4. c \in Nat /\ c1 \in Nat
  BY <1>1, Count
<1>5. CASE n1 = n /\ Waking \subseteq Waking'
  <2>1. c <= c1
    BY <1>1, <1>5, Count
  <2> QED BY <1>2, <1>3, <1>4, <1>5, <2>1
<1>6. CASE n1 = n + 1 /\ Waking \ {t} \subseteq Waking'
  <2>1. c - 1 <= c1
    BY <1>1, <1>6, Count
  <2> QED BY <1>2, <1>3, <1>4, <1>6, <2>1
<1>7. CASE n1 = n - 1 /\ \E u : u \notin Waking /\ Waking \cup {u} \subseteq Waking'
  <2>1. c + 1 <= c1
    BY <1>1, <1>7, Count
  <2>2. n1 = n - 1
    BY <1>7
  <2> HIDE DEF n, n1, c, c1
  <2>3. MaxMsg - n1 <= c1
    BY <1>2, <1>3, <1>4, <2>1, <2>2
  <2> QED BY <2>3 DEF n1, c1
<1> QED BY <1>5, <1>6, <1>7

\* A task t that has only its own step left to change: t is the one that runs,
\* and no other task is touched.
LEMMA OwnStep ==
  ASSUME NEW t \in Tasks, LinkTypeOK,
         \A u \in Tasks \ {t} : /\ status'[u] = status[u] /\ call'[u] = call[u]
                                /\ mq'[u] = mq[u] /\ side'[u] = side[u]
  PROVE  Waking \ {t} \subseteq Waking'
BY DEF Waking

\* The message or the slot that t takes, and the task that is woken for it.
LEMMA TransferSlots ==
  ASSUME IsFiniteSet(Tasks), DataOK, DataOK', LinkOK, SlotsOK,
         NEW t \in Tasks, status[t] = "READY", call[t] # "none",
         mq[t] = Mq0, Ready(Mq0, side[t]), Transfer(t),
         UNCHANGED <<open, mq, side>>
  PROVE  Slots'
<1> DEFINE b == blocked[Mq0]
<1>1. Mq0 \in Mqs /\ {"send", "receive"} \subseteq Sides /\ "send" # "receive"
  BY MqAssumption DEF MqAssumption, Sides
<1>2. side[t] \in {"send", "receive"} /\ prio[t] \in Prios
  BY DEF LinkOK, LinkTypeOK, Sides, DataOK, SelectOK
<1>3. call' = [call EXCEPT ![t] = "none"] /\ fault' = fault
  BY DEF Transfer, GoTo
<1>4. \A u \in Tasks \ {t} : call'[u] = call[u]
  BY <1>3 DEF LinkOK, LinkTypeOK
<1>5. \A s \in Sides : b[s] # <<>> =>
        /\ b[s][1] \in Tasks /\ b[s][1] \in Members(b[s])
        /\ Blocked(b[s][1]) /\ call[b[s][1]] = "wait"
        /\ mq[b[s][1]] = Mq0 /\ side[b[s][1]] = s
  <2> SUFFICES ASSUME NEW s \in Sides, b[s] # <<>>
               PROVE  /\ b[s][1] \in Tasks /\ b[s][1] \in Members(b[s])
                      /\ Blocked(b[s][1]) /\ call[b[s][1]] = "wait"
                      /\ mq[b[s][1]] = Mq0 /\ side[b[s][1]] = s
    OBVIOUS
  <2>1. b[s] \in Seq(Tasks)
    BY <1>1 DEF LinkOK, LinkTypeOK
  <2>2. 1 \in DOMAIN b[s] /\ b[s][1] \in Tasks
    BY <2>1
  <2>3. b[s][1] \in Members(b[s])
    BY <2>2 DEF Members
  <2> QED BY <1>1, <2>2, <2>3 DEF LinkOK, Linked, WaitsInside
<1>6. CASE side[t] = "send"
  <2>1. Put(t, Mq0)
    BY <1>6 DEF Transfer
  <2>2. Len(msgs'[Mq0]) = Len(msgs[Mq0]) + 1
    BY <1>2, <2>1, InsertLength DEF Put
  <2>3. NoWake \/ (b["receive"] # <<>> /\ Wake(Mq0, "receive"))
    BY <2>1 DEF Put
  <2>4. CASE NoWake
    <3>1. Waking \ {t} \subseteq Waking'
      BY <1>4, <2>4, OwnStep DEF NoWake, LinkOK
    <3> QED BY <1>3, <2>2, <2>4, <3>1, SlotsKept DEF NoWake, SlotsOK
  <2>5. CASE b["receive"] # <<>> /\ Wake(Mq0, "receive")
    <3> DEFINE u == b["receive"][1]
    <3>1. u \in Tasks /\ Blocked(u) /\ status' = [status EXCEPT ![u] = "READY"]
      BY <1>1, <1>5, <2>5 DEF Wake
    <3>2. \A v \in Tasks \ {u} : status'[v] = status[v]
      BY <3>1 DEF LinkOK, LinkTypeOK
    <3>3. u \notin Waking
      BY <3>1 DEF Waking, Blocked
    <3>4. Waking \ {t} \subseteq Waking'
      BY <1>4, <3>2, <3>3 DEF Waking
    <3>5. blocked'[Mq0]["send"] = b["send"]
      BY <1>1, <2>5 DEF Wake, LinkOK, LinkTypeOK
    <3> QED BY <1>3, <2>2, <3>4, <3>5, SlotsKept DEF SlotsOK
  <2> QED BY <2>3, <2>4, <2>5
<1>7. CASE side[t] = "receive"
  <2>1. Take(t, Mq0) /\ ~Empty(Mq0)
    BY <1>1, <1>7 DEF Transfer, Ready
  <2>2. Len(msgs'[Mq0]) = Len(msgs[Mq0]) - 1
    <3>1. msgs[Mq0] \in Seq(Message) /\ msgs[Mq0] # <<>>
      BY <1>1, <2>1 DEF DataOK, DataTypeOK, Empty
    <3>2. msgs'[Mq0] = Tail(msgs[Mq0])
      BY <1>1, <2>1 DEF DataOK, DataTypeOK, Take
    <3> QED BY <3>1, <3>2
  <2>3. t \notin Waking
    BY <1>1, <1>7 DEF Waking
  <2>4. CASE b["send"] = <<>>
    <3>1. NoWake
      BY <2>1, <2>4 DEF Take, Freed
    <3> QED BY <1>3, <2>2, <2>4, <3>1, SlotsKept DEF NoWake, SlotsOK
  <2>5. CASE b["send"] # <<>>
    <3> DEFINE u == b["send"][1]
    <3>1. /\ u \in Tasks /\ Blocked(u) /\ call[u] = "wait"
          /\ mq[u] = Mq0 /\ side[u] = "send"
      BY <1>1, <1>5, <2>5
    <3>2. status' = [status EXCEPT ![u] = "READY"]
      BY <2>1, <2>5 DEF Take, Freed, Wake
    <3>3. status'[u] = "READY" /\ \A v \in Tasks \ {u} : status'[v] = status[v]
      BY <3>1, <3>2 DEF LinkOK, LinkTypeOK
    <3>4. u # t /\ u \notin Waking
      BY <3>1 DEF Waking, Blocked
    <3>5. Waking \cup {u} \subseteq Waking'
      BY <1>4, <2>3, <3>1, <3>3, <3>4 DEF Waking
    <3>6. \E v : v \notin Waking /\ Waking \cup {v} \subseteq Waking'
      BY <3>4, <3>5
    <3> QED BY <1>3, <2>2, <2>5, <3>6, SlotsKept DEF SlotsOK
  <2> QED BY <2>4, <2>5
<1> QED BY <1>2, <1>6, <1>7

LEMMA SlotsNext ==
  ASSUME OneName, ~CloseBusy, IsFiniteSet(Tasks),
         Senders \cap (Killable \cup Signallers) = {},
         DataOK, LinkOK, RestTypeOK, SlotsOK, Next
  PROVE  SlotsOK'
<1>1. DataOK'
  BY DataNext
<1>2. PICK t \in Tasks : TaskStep(t)
  BY DEF Next
<1>3. Mq0 \in Mqs /\ "send" \in Sides
  BY MqAssumption DEF MqAssumption, Sides
<1>4. ASSUME NEW n \in Names, mq_open(t, n) PROVE SlotsOK'
  <2>1. blocked'[Mq0]["send"] = <<>>
    BY <1>3, <1>4 DEF mq_open, Reset, LinkOK, LinkTypeOK
  <2>2. SendersStay'
    BY <1>4 DEF mq_open, callVars, SlotsOK, SendersStay
  <2> QED BY <2>1, <2>2 DEF SlotsOK, Slots
<1>5. ASSUME NEW n \in Names, mq_unlink(t, n) PROVE SlotsOK'
  BY <1>5 DEF mq_unlink, callVars, SlotsOK, Slots, SendersStay
<1>6. ASSUME NEW q \in Mqs, NEW b \in BOOLEAN,
             mq_close(t, q) \/ mq_setattr(t, q, b) \/ mq_notify(t, q, b)
      PROVE  SlotsOK'
  BY <1>6 DEF mq_close, mq_setattr, mq_notify, dataVars, callVars, SlotsOK, Slots,
              Waking, SendersStay
<1>7. ASSUME NEW q \in Mqs, NEW p \in Prios, NEW s \in Sides, mq_call(t, s, q, p),
             s = "send" => t \in Senders
      PROVE  SlotsOK'
  <2>1. /\ call[t] = "none" /\ status[t] = "READY"
        /\ UNCHANGED <<msgs, blocked, intsig, killreq, fault>>
    BY <1>7 DEF mq_call, At, dataVars
  <2>2. \/ Die(t) /\ UNCHANGED <<side, mq>>
        \/ /\ GoTo(t, "entry") /\ UNCHANGED status
           /\ side' = [side EXCEPT ![t] = s] /\ mq' = [mq EXCEPT ![t] = q]
    BY <1>7 DEF mq_call
  <2>3. /\ call'[t] \in {"none", "entry"} /\ (call'[t] = "entry" => side'[t] = s)
        /\ \A u \in Tasks \ {t} : /\ status'[u] = status[u] /\ call'[u] = call[u]
                                  /\ mq'[u] = mq[u] /\ side'[u] = side[u]
    BY <2>2 DEF Die, GoTo, LinkOK, LinkTypeOK
  <2>4. Waking \subseteq Waking'
    BY <2>1, <2>3 DEF Waking
  <2>5. Slots'
    BY <1>1, <2>1, <2>4, SlotsKept DEF SlotsOK
  <2>6. SendersStay'
    BY <1>7, <2>1, <2>3 DEF SlotsOK, SendersStay
  <2> QED BY <2>5, <2>6 DEF SlotsOK
<1>8. ASSUME mq_body(t) PROVE SlotsOK'
  <2>1. /\ status[t] = "READY" /\ call[t] = "entry" /\ t \notin Waking
        /\ UNCHANGED <<open, mq, side, killreq>>
    BY <1>8 DEF mq_body, At, Waking
  <2>2. CASE GoTo(t, "none") /\ UNCHANGED <<dataVars, blocked, status, intsig, fault>>
    <3>1. call'[t] = "none" /\ \A u \in Tasks \ {t} : call'[u] = call[u]
      BY <2>2 DEF GoTo, LinkOK, LinkTypeOK
    <3>2. Waking \subseteq Waking'
      BY <2>1, <2>2, <3>1 DEF Waking
    <3>3. Slots'
      BY <1>1, <2>2, <3>2, SlotsKept DEF SlotsOK, dataVars
    <3>4. SendersStay'
      BY <2>1, <2>2, <3>1 DEF SlotsOK, SendersStay
    <3> QED BY <3>3, <3>4 DEF SlotsOK
  <2>3. CASE /\ open[mq[t]] /\ ~Ready(mq[t], side[t]) /\ Block(t)
             /\ UNCHANGED <<dataVars, fault>>
    <3>1. mq[t] = Mq0
      BY <2>3 DEF DataOK, SelectOK
    <3>2. /\ call'[t] = "wait" /\ ~intsig'[t]
          /\ \A u \in Tasks \ {t} : /\ call'[u] = call[u] /\ status'[u] = status[u]
                                    /\ intsig'[u] = intsig[u]
      BY <2>3 DEF Block, GoTo, LinkOK, LinkTypeOK, RestTypeOK
    <3>3. Waking \subseteq Waking'
      BY <2>1, <3>2 DEF Waking
    <3>4. SendersStay'
      BY <2>1, <3>2 DEF SlotsOK, SendersStay
    <3>5. CASE side[t] = "send"
      <4>1. Len(msgs'[Mq0]) = MaxMsg
        BY <2>3, <3>1, <3>5 DEF Ready, Full, dataVars
      <4>2. MaxMsg \in Nat
        BY MqAssumption DEF MqAssumption
      <4>3. Waking' \in SUBSET Tasks
        BY DEF Waking
      <4>4. Cardinality(Waking') \in Nat
        BY <4>3, Count
      <4>5. MaxMsg - Len(msgs'[Mq0]) <= Cardinality(Waking')
        BY <4>1, <4>2, <4>4
      <4> QED BY <3>4, <4>5 DEF SlotsOK, Slots
    <3>6. CASE side[t] # "send"
      <4>1. blocked'[Mq0]["send"] = blocked[Mq0]["send"]
        BY <1>3, <2>3, <3>1, <3>6 DEF Block, LinkOK, LinkTypeOK
      <4>2. Slots'
        BY <1>1, <2>3, <3>3, <4>1, SlotsKept DEF SlotsOK, dataVars
      <4> QED BY <3>4, <4>2 DEF SlotsOK
    <3> QED BY <3>5, <3>6
  <2>4. CASE open[mq[t]] /\ Ready(mq[t], side[t]) /\ Transfer(t) /\ UNCHANGED intsig
    <3>1. mq[t] = Mq0
      BY <2>4 DEF DataOK, SelectOK
    <3>2. Slots'
      BY <1>1, <2>1, <2>4, <3>1, TransferSlots
    <3>3. call'[t] = "none" /\ \A u \in Tasks \ {t} : call'[u] = call[u]
      BY <2>4 DEF Transfer, GoTo, LinkOK, LinkTypeOK
    <3>4. SendersStay'
      BY <2>1, <2>4, <3>3 DEF SlotsOK, SendersStay
    <3> QED BY <3>2, <3>4 DEF SlotsOK
  <2> QED BY <1>8, <2>2, <2>3, <2>4 DEF mq_body
<1>9. ASSUME mq_resume(t) PROVE SlotsOK'
  <2>1. /\ status[t] = "READY" /\ call[t] = "wait"
        /\ UNCHANGED <<open, mq, side, intsig, killreq>>
    BY <1>9 DEF mq_resume, At
  <2>2. CASE /\ killreq[t] \/ intsig[t]
             /\ Die(t) \/ (GoTo(t, "none") /\ UNCHANGED status)
             /\ UNCHANGED <<dataVars, blocked, fault>>
    <3>1. side[t] # "send"
      BY <2>1, <2>2 DEF SlotsOK, SendersStay
    <3>2. /\ call'[t] = "none"
          /\ \A u \in Tasks \ {t} : call'[u] = call[u] /\ status'[u] = status[u]
      BY <2>2 DEF Die, GoTo, LinkOK, LinkTypeOK
    <3>3. Waking \subseteq Waking'
      BY <2>1, <3>1, <3>2 DEF Waking
    <3>4. Slots'
      BY <1>1, <2>2, <3>3, SlotsKept DEF SlotsOK, dataVars
    <3>5. SendersStay'
      BY <2>1, <3>2 DEF SlotsOK, SendersStay
    <3> QED BY <3>4, <3>5 DEF SlotsOK
  <2>3. CASE fault' = TRUE /\ UNCHANGED call
    BY <2>1, <2>3 DEF SlotsOK, Slots, SendersStay
  <2>4. CASE open[mq[t]] /\ Ready(mq[t], side[t]) /\ Transfer(t)
    <3>1. mq[t] = Mq0
      BY <2>4 DEF DataOK, SelectOK
    <3>2. Slots'
      BY <1>1, <2>1, <2>4, <3>1, TransferSlots
    <3>3. call'[t] = "none" /\ \A u \in Tasks \ {t} : call'[u] = call[u]
      BY <2>4 DEF Transfer, GoTo, LinkOK, LinkTypeOK
    <3>4. SendersStay'
      BY <2>1, <3>3 DEF SlotsOK, SendersStay
    <3> QED BY <3>2, <3>4 DEF SlotsOK
  <2> QED BY <1>9, <2>2, <2>3, <2>4 DEF mq_resume
<1>10. ASSUME NEW u \in Tasks, task_kill(t, u) \/ task_signal(t, u) PROVE SlotsOK'
  <2>1. /\ UNCHANGED <<msgs, call, side, mq>>
        /\ (Blocked(u) /\ Withdraw(u)) \/ UNCHANGED <<blocked, status, fault>>
    BY <1>10 DEF task_kill, task_signal, dataVars, callVars
  <2>2. SendersStay'
    <3>1. CASE task_kill(t, u)
      <4>1. /\ u \in Killable /\ killreq' = [killreq EXCEPT ![u] = TRUE]
            /\ UNCHANGED intsig
        BY <3>1 DEF task_kill
      <4> QED BY <2>1, <4>1 DEF SlotsOK, SendersStay, RestTypeOK
    <3>2. CASE task_signal(t, u)
      <4>1. /\ call[t] = "wait" => t \in Signallers
            /\ intsig' = [intsig EXCEPT ![t] = TRUE] /\ UNCHANGED killreq
        BY <3>2 DEF task_signal
      <4> QED BY <2>1, <4>1 DEF SlotsOK, SendersStay, RestTypeOK
    <3> QED BY <1>10, <3>1, <3>2
  <2>3. CASE UNCHANGED <<blocked, status, fault>>
    BY <2>1, <2>2, <2>3 DEF SlotsOK, Slots, Waking
  <2>4. CASE Blocked(u) /\ Withdraw(u)
    <3>1. CASE fault' = TRUE
      BY <2>2, <3>1 DEF SlotsOK, Slots
    <3>2. CASE u \in Members(blocked[Mq0][side[u]])
      <4>1. /\ blocked' = [blocked EXCEPT ![Mq0][side[u]] = Extract(u, @)]
            /\ status' = [status EXCEPT ![u] = "READY"] /\ fault' = fault
        BY <2>4, <3>2 DEF Withdraw
      <4>2. Waking \subseteq Waking'
        BY <2>1, <4>1 DEF Waking, LinkOK, LinkTypeOK
      <4>3. blocked'[Mq0]["send"] # <<>> => blocked[Mq0]["send"] # <<>>
        <5>1. CASE side[u] = "send"
          <6>1. blocked[Mq0]["send"] # <<>>
            BY <3>2, <5>1 DEF Members
          <6> QED BY <6>1
        <5>2. CASE side[u] # "send"
          BY <1>3, <4>1, <5>2 DEF LinkOK, LinkTypeOK
        <5> QED BY <5>1, <5>2
      <4>4. Slots'
        BY <1>1, <2>1, <4>1, <4>2, <4>3, SlotsKept DEF SlotsOK
      <4> QED BY <2>2, <4>4 DEF SlotsOK
    <3> QED BY <2>4, <3>1, <3>2 DEF Withdraw
  <2> QED BY <2>1, <2>3, <2>4
<1>11. \A q \in Mqs, p \in Prios :
         mq_send(t, q, p) => mq_call(t, "send", q, p) /\ t \in Senders
  BY DEF mq_send
<1>12. \A q \in Mqs : mq_receive(t, q) => prio[t] \in Prios /\ mq_call(t, "receive", q, prio[t])
  BY DEF mq_receive, DataOK, SelectOK
<1> QED
  BY <1>2, <1>4, <1>5, <1>6, <1>7, <1>8, <1>9, <1>10, <1>11, <1>12 DEF TaskStep, Sides

\* While a sender is blocked, each free slot is on its way to another, for every
\* number of tasks and every size of the queue: mq_receive, which wakes a sender
\* for each message taken, loses none as long as no woken sender is killed or
\* told that it was interrupted.
THEOREM NoSenderSleeps ==
  ASSUME OneName, ~CloseBusy, IsFiniteSet(Tasks),
         Senders \cap (Killable \cup Signallers) = {}
  PROVE  Spec => []NoSleepingSender
<1> DEFINE IInv == DataOK /\ LinkOK /\ RestTypeOK /\ SlotsOK
<1>1. Init => IInv
  <2>1. Init => SlotsOK
    BY MqAssumption DEF Init, SlotsOK, Slots, SendersStay, MqAssumption, Sides
  <2> QED BY <2>1, DataInit, LinkInit
<1>2. IInv /\ [Next]_vars => IInv'
  <2>1. IInv /\ Next => IInv'
    BY DataNext, LinkNext, SlotsNext DEF DataOK
  <2>2. IInv /\ UNCHANGED vars => IInv'
    BY DEF DataOK, SelectOK, DataTypeOK, LinkOK, LinkTypeOK, LinkedOnce, Linked,
           WaitsInside, Blocked, RestTypeOK, SlotsOK, Slots, Waking, SendersStay,
           vars, attrVars, dataVars, callVars
  <2> QED BY <2>1, <2>2
<1>3. IInv => NoSleepingSender
  <2> SUFFICES ASSUME IInv, NEW q \in Mqs, ~fault, blocked[q]["send"] # <<>>
               PROVE  MaxMsg - Len(msgs[q]) <= Cardinality(Woken(q, "send"))
    BY DEF NoSleepingSender
  <2>1. q = Mq0
    <3> DEFINE u == blocked[q]["send"][1]
    <3>1. blocked[q]["send"] \in Seq(Tasks) /\ "send" \in Sides
      BY DEF LinkOK, LinkTypeOK, Sides
    <3>2. u \in Tasks /\ u \in Members(blocked[q]["send"])
      BY <3>1 DEF Members
    <3>3. Blocked(u) /\ mq[u] = q /\ open[q]
      BY <3>1, <3>2 DEF LinkOK, Linked, WaitsInside
    <3> QED BY <3>3 DEF DataOK, SelectOK
  <2>2. Woken(q, "send") = Waking
    BY <2>1 DEF Woken, Waking, At
  <2> QED BY <2>1, <2>2 DEF SlotsOK, Slots
<1> QED BY <1>1, <1>2, <1>3, PTL DEF Spec
=============================================================================
