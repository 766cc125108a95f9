-------------------------- MODULE IqueueOpsProofs --------------------------
(* What the operations on task queues return: lemmas for the proofs about  *)
(* the components that keep their waiting tasks in an IQUEUE.              *)
EXTENDS IqueueOps, Sums, FiniteSetTheorems, SequenceTheorems, TLAPS

\* iq_insertlast adds a task that is not in the queue, and only that task.
LEMMA InsertLastProperties ==
  ASSUME NEW S, NEW q \in Seq(S), NEW p \in S,
         Distinct(q), p \notin Members(q)
  PROVE  /\ InsertLast(p, q) \in Seq(S)
         /\ Distinct(InsertLast(p, q))
         /\ Members(InsertLast(p, q)) = Members(q) \cup {p}
<1> DEFINE r == InsertLast(p, q)
<1>1. /\ r \in Seq(S)
      /\ Len(r) = Len(q) + 1
      /\ \A i \in 1 .. Len(q) : r[i] = q[i]
      /\ r[Len(q) + 1] = p
      /\ DOMAIN r = 1 .. Len(q) + 1
      /\ DOMAIN q = 1 .. Len(q)
      /\ Len(q) \in Nat
  BY DEF InsertLast
<1> HIDE DEF r
<1>2. Distinct(r)
  BY <1>1 DEF Distinct, Members
<1>3. Members(r) = Members(q) \cup {p}
  BY <1>1 DEF Members
<1> QED
  BY <1>1, <1>2, <1>3 DEF r

\* iq_insertfirst of a task that is in no queue.
LEMMA InsertFirstProperties ==
  ASSUME NEW S, NEW q \in Seq(S), NEW p \in S,
         Distinct(q), p \notin Members(q)
  PROVE  /\ InsertFirst(p, q) \in Seq(S)
         /\ Distinct(InsertFirst(p, q))
         /\ Members(InsertFirst(p, q)) = Members(q) \cup {p}
<1> DEFINE r == InsertFirst(p, q)
<1>1. /\ r \in Seq(S)
      /\ Len(r) = Len(q) + 1
      /\ r[1] = p
      /\ \A i \in 1 .. Len(q) : r[i + 1] = q[i]
      /\ DOMAIN r = 1 .. Len(q) + 1
      /\ DOMAIN q = 1 .. Len(q)
      /\ Len(q) \in Nat
  BY DEF InsertFirst
<1> DEFINE n == Len(q)
<1> HIDE DEF r, n
<1>2. \A i \in 1 .. n + 1 : i = 1 \/ (i - 1 \in 1 .. n /\ (i - 1) + 1 = i)
  BY <1>1 DEF n
<1>3. \A i \in 1 .. n : q[i] # p
  BY <1>1 DEF Members, n
<1>4. Distinct(r)
  <2> SUFFICES ASSUME NEW i \in 1 .. n + 1, NEW j \in 1 .. n + 1, r[i] = r[j]
               PROVE  i = j
    BY <1>1 DEF Distinct, n
  <2>1. CASE i = 1 \/ j = 1
    <3>1. \A h \in 1 .. n + 1 : h # 1 => r[h] # p
      <4> SUFFICES ASSUME NEW h \in 1 .. n + 1, h # 1 PROVE r[h] # p
        OBVIOUS
      <4>1. h - 1 \in 1 .. n /\ r[(h - 1) + 1] = q[h - 1] /\ (h - 1) + 1 = h
        BY <1>1, <1>2 DEF n
      <4> QED BY <1>3, <4>1
    <3> QED BY <1>1, <2>1, <3>1
  <2>2. CASE i # 1 /\ j # 1
    <3>1. i - 1 \in DOMAIN q /\ j - 1 \in DOMAIN q /\ q[i - 1] = q[j - 1]
      BY <1>1, <1>2, <2>2 DEF n
    <3>2. i - 1 = j - 1
      BY <3>1 DEF Distinct
    <3> QED BY <3>2
  <2> QED BY <2>1, <2>2
<1>5. Members(r) = Members(q) \cup {p}
  <2>1. 1 \in 1 .. n + 1 /\ \A i \in 1 .. n : i + 1 \in 1 .. n + 1
    BY <1>1 DEF n
  <2>2. Members(r) = {r[i] : i \in 1 .. n + 1} /\ Members(q) = {q[i] : i \in 1 .. n}
    BY <1>1 DEF Members, n
  <2>3. ASSUME NEW y \in Members(r) PROVE y \in Members(q) \cup {p}
    <3>1. PICK i \in 1 .. n + 1 : y = r[i]
      BY <2>2
    <3> QED BY <1>1, <1>2, <2>2, <3>1 DEF n
  <2>4. p \in Members(r)
    BY <1>1, <2>1, <2>2
  <2>5. ASSUME NEW y \in Members(q) PROVE y \in Members(r)
    <3>1. PICK i \in 1 .. n : y = q[i]
      BY <2>2
    <3> QED BY <1>1, <2>1, <2>2, <3>1 DEF n
  <2> QED BY <2>3, <2>4, <2>5
<1> QED BY <1>1, <1>4, <1>5 DEF r

\* iq_extract removes a task that is in the queue, and only that task.
LEMMA ExtractProperties ==
  ASSUME NEW S, NEW q \in Seq(S), NEW p \in Members(q), Distinct(q)
  PROVE  /\ Extract(p, q) \in Seq(S)
         /\ Distinct(Extract(p, q))
         /\ Members(Extract(p, q)) = Members(q) \ {p}
<1> DEFINE k == Position(p, q)
           r == Extract(p, q)
<1>1. k \in DOMAIN q /\ q[k] = p
  BY DEF Position, Members
<1>2. DOMAIN q = 1 .. Len(q) /\ Len(q) \in Nat
  OBVIOUS
<1>3. r = [i \in 1 .. Len(q) - 1 |-> IF i < k THEN q[i] ELSE q[i + 1]]
  BY DEF Extract
<1> HIDE DEF k, r
<1>4. k \in 1 .. Len(q) /\ Len(q) - 1 \in Nat
  BY <1>1, <1>2
<1>5. r \in Seq(S) /\ DOMAIN r = 1 .. Len(q) - 1
  BY <1>2, <1>3, <1>4
<1>6. Distinct(r)
  <2> DEFINE g(i) == IF i < k THEN i ELSE i + 1
  <2>1. \A i \in 1 .. Len(q) - 1 : g(i) \in 1 .. Len(q) /\ r[i] = q[g(i)]
    BY <1>2, <1>3, <1>4
  <2>2. \A i, j \in 1 .. Len(q) - 1 : g(i) = g(j) => i = j
    BY <1>2, <1>4
  <2> HIDE DEF g
  <2> QED
    BY <1>2, <1>5, <2>1, <2>2 DEF Distinct
<1>7. Members(r) = Members(q) \ {p}
  <2>1. ASSUME NEW x \in Members(r) PROVE x \in Members(q) \ {p}
    BY <1>1, <1>2, <1>3, <1>4, <1>5 DEF Members, Distinct
  <2>2. ASSUME NEW x \in Members(q), x # p PROVE x \in Members(r)
    <3>1. PICK i \in 1 .. Len(q) : q[i] = x
      BY <1>2 DEF Members
    <3>2. CASE i < k
      <4>1. i \in 1 .. Len(q) - 1 /\ r[i] = x
        BY <1>3, <1>4, <3>1, <3>2
      <4> QED BY <1>5, <4>1 DEF Members
    <3>3. CASE i > k
      <4>1. i - 1 \in 1 .. Len(q) - 1 /\ r[i - 1] = x
        BY <1>3, <1>4, <3>1, <3>3
      <4> QED BY <1>5, <4>1 DEF Members
    <3> QED BY <1>1, <1>4, <2>2, <3>1, <3>2, <3>3
  <2> QED BY <2>1, <2>2
<1> QED
  BY <1>5, <1>6, <1>7 DEF r

\* Extracting the first k tasks leaves the others, in order.
LEMMA DropFirstProperties ==
  ASSUME NEW S, NEW q \in Seq(S), Distinct(q), NEW k \in 0 .. Len(q)
  PROVE  /\ DropFirst(k, q) \in Seq(S)
         /\ Distinct(DropFirst(k, q))
         /\ Members(DropFirst(k, q)) = Members(q) \ {q[i] : i \in 1 .. k}
         /\ Len(DropFirst(k, q)) = Len(q) - k
         /\ k < Len(q) => DropFirst(k, q)[1] = q[k + 1]
<1> DEFINE r == DropFirst(k, q)
<1>1. DOMAIN q = 1 .. Len(q) /\ Len(q) \in Nat /\ k \in Nat
  OBVIOUS
<1>2. r = [i \in 1 .. Len(q) - k |-> q[i + k]] /\ Len(q) - k \in Nat
  BY <1>1 DEF DropFirst
<1> HIDE DEF r
<1>3. r \in Seq(S) /\ Len(r) = Len(q) - k /\ DOMAIN r = 1 .. Len(q) - k
  BY <1>1, <1>2
<1>4. Distinct(r)
  BY <1>1, <1>2, <1>3 DEF Distinct
<1>5. Members(r) = Members(q) \ {q[i] : i \in 1 .. k}
  <2>1. ASSUME NEW x \in Members(r)
        PROVE  x \in Members(q) \ {q[i] : i \in 1 .. k}
    <3>1. PICK i \in 1 .. Len(q) - k : x = q[i + k]
      BY <1>2, <1>3, <2>1 DEF Members
    <3>2. i + k \in 1 .. Len(q) /\ \A j \in 1 .. k : j # i + k
      BY <1>1, <3>1
    <3> QED BY <1>1, <3>1, <3>2 DEF Members, Distinct
  <2>2. ASSUME NEW x \in Members(q), x \notin {q[i] : i \in 1 .. k}
        PROVE  x \in Members(r)
    <3>1. PICK i \in 1 .. Len(q) : x = q[i]
      BY <1>1, <2>2 DEF Members
    <3>2. i - k \in 1 .. Len(q) - k
      BY <1>1, <2>2, <3>1
    <3>3. r[i - k] = x
      BY <1>1, <1>2, <3>1, <3>2
    <3> QED BY <1>3, <3>2, <3>3 DEF Members
  <2> QED BY <2>1, <2>2
<1>6. k < Len(q) => r[1] = q[k + 1]
  BY <1>1, <1>2
<1> QED
  BY <1>3, <1>4, <1>5, <1>6 DEF r

-----------------------------------------------------------------------------
\* A set of numbers has a least element.  (The orders 0 .. k of its elements
\* are finite sets, and strict inclusion is well-founded on those.)
LEMMA LeastElement ==
  ASSUME NEW B \in SUBSET Nat, B # {}
  PROVE  \E k \in B : \A j \in B : k <= j
<1> DEFINE T == {0 .. k : k \in B}
<1>1. T \subseteq FiniteSubsetsOf(Nat) /\ T # {}
  <2>1. \A k \in B : 0 .. k \subseteq Nat /\ IsFiniteSet(0 .. k)
    BY FS_Interval
  <2> QED BY <2>1 DEF FiniteSubsetsOf
<1>2. IsWellFoundedOn(StrictSubsetOrdering(Nat), FiniteSubsetsOf(Nat))
  BY FS_StrictSubsetOrderingWellFounded
<1>3. PICK x \in T : \A y \in T : <<y, x>> \notin StrictSubsetOrdering(Nat)
  BY <1>1, <1>2, WFMin
<1>4. PICK k \in B : x = 0 .. k
  BY <1>3
<1>5. ASSUME NEW j \in B, j < k PROVE FALSE
  <2>1. 0 .. j \in T /\ 0 .. j \in SUBSET Nat /\ x \in SUBSET Nat
    BY <1>4
  <2>2. 0 .. j \subseteq x /\ k \in x /\ k \notin 0 .. j
    BY <1>4, <1>5
  <2>3. <<0 .. j, x>> \in StrictSubsetOrdering(Nat)
    BY <2>1, <2>2 DEF StrictSubsetOrdering
  <2> QED BY <1>3, <2>1, <2>3
<1> QED BY <1>5

\* A finite one has a greatest element, by the same order on its upper parts.
LEMMA GreatestElement ==
  ASSUME NEW B \in SUBSET Nat, IsFiniteSet(B), B # {}
  PROVE  \E k \in B : \A j \in B : j <= k
<1> DEFINE Up(k) == {j \in B : j >= k}
           T == {Up(k) : k \in B}
<1>1. T \subseteq FiniteSubsetsOf(Nat) /\ T # {}
  <2>1. \A k \in B : Up(k) \subseteq Nat /\ IsFiniteSet(Up(k))
    <3>1. \A k \in B : Up(k) \subseteq B
      OBVIOUS
    <3> QED BY <3>1, FS_Subset
  <2> QED BY <2>1 DEF FiniteSubsetsOf
<1>2. IsWellFoundedOn(StrictSubsetOrdering(Nat), FiniteSubsetsOf(Nat))
  BY FS_StrictSubsetOrderingWellFounded
<1>3. PICK x \in T : \A y \in T : <<y, x>> \notin StrictSubsetOrdering(Nat)
  BY <1>1, <1>2, WFMin
<1>4. PICK k \in B : x = Up(k)
  BY <1>3
<1>5. ASSUME NEW j \in B, j > k PROVE FALSE
  <2>1. Up(j) \in T /\ Up(j) \in SUBSET Nat /\ x \in SUBSET Nat
    BY <1>4
  <2>2. Up(j) \subseteq x /\ k \in x /\ k \notin Up(j)
    <3>1. \A i \in B : i \in Nat
      OBVIOUS
    <3>2. \A i \in B : i >= j => i >= k
      BY <1>5, <3>1
    <3>3. Up(j) \subseteq Up(k)
      BY <3>2
    <3>4. k \in Up(k) /\ k \notin Up(j)
      BY <1>5, <3>1
    <3> QED BY <1>4, <3>3, <3>4
  <2>3. <<Up(j), x>> \in StrictSubsetOrdering(Nat)
    BY <2>1, <2>2 DEF StrictSubsetOrdering
  <2> QED BY <1>3, <2>1, <2>3
<1> QED BY <1>5

\* p is inserted behind the first k elements, and what the result r is then.
InsertAt(p, k, q) == SubSeq(q, 1, k) \o <<p>> \o SubSeq(q, k + 1, Len(q))
Inserted(r, p, k, q, n) ==
  /\ Len(r) = n + 1 /\ DOMAIN r = 1 .. n + 1
  /\ \A i \in 1 .. k : r[i] = q[i]
  /\ r[k + 1] = p
  /\ \A i \in k + 1 .. n : r[i + 1] = q[i]
  /\ \A i \in DOMAIN r :
       \/ (i \in 1 .. k /\ i \in 1 .. n /\ r[i] = q[i])
       \/ (i = k + 1 /\ r[i] = p)
       \/ (i > k + 1 /\ i - 1 \in 1 .. n /\ r[i] = q[i - 1])

LEMMA InsertAtProperties ==
  ASSUME NEW S, NEW q \in Seq(S), NEW p \in S, NEW n, n = Len(q),
         NEW k \in 0 .. n, NEW r, r = InsertAt(p, k, q)
  PROVE  r \in Seq(S) /\ Inserted(r, p, k, q, n)
<1>1. k \in 0 .. n /\ k \in Nat
  OBVIOUS
<1>2. r = SubSeq(q, 1, k) \o <<p>> \o SubSeq(q, k + 1, n)
  BY DEF InsertAt
<1>3. n \in Nat /\ DOMAIN q = 1 .. n /\ \A i \in 1 .. n : q[i] \in S
  OBVIOUS
<1> DEFINE a == SubSeq(q, 1, k)
           b == SubSeq(q, k + 1, n)
           m == n - k
<1>4. m \in Nat /\ n = k + m
  BY <1>1, <1>3
<1>5. /\ a \in Seq(S) /\ Len(a) = k /\ \A i \in 1 .. k : a[i] = q[i]
  <2>1. \A i \in 1 .. k : q[i] \in S
    BY <1>1, <1>3
  <2>2. /\ a \in Seq(S) /\ Len(a) = IF 1 <= k THEN k - 1 + 1 ELSE 0
        /\ \A i \in 1 .. k - 1 + 1 : a[i] = q[1 + i - 1]
    BY <1>1, <2>1, SubSeqProperties
  <2>3. \A i \in 1 .. k : i \in 1 .. k - 1 + 1 /\ 1 + i - 1 = i
    BY <1>1
  <2> HIDE DEF a, b, m
  <2>4. ASSUME NEW i \in 1 .. k PROVE a[i] = q[i]
    <3>1. i \in 1 .. k - 1 + 1 /\ 1 + i - 1 = i
      BY <2>3
    <3>2. a[i] = q[1 + i - 1]
      BY <2>2, <3>1
    <3> QED BY <3>1, <3>2
  <2>5. Len(a) = k
    <3>1. Len(a) = IF 1 <= k THEN k - 1 + 1 ELSE 0
      BY <2>2
    <3> QED BY <1>1, <3>1
  <2> QED BY <2>2, <2>4, <2>5
<1>6. /\ b \in Seq(S) /\ Len(b) = m /\ \A i \in 1 .. m : b[i] = q[k + i]
  <2>1. \A i \in k + 1 .. n : q[i] \in S
    BY <1>1, <1>3
  <2>2. /\ b \in Seq(S)
        /\ Len(b) = IF k + 1 <= n THEN n - (k + 1) + 1 ELSE 0
        /\ \A i \in 1 .. n - (k + 1) + 1 : b[i] = q[(k + 1) + i - 1]
    BY <1>1, <1>3, <2>1, SubSeqProperties
  <2> HIDE DEF m
  <2>3. (IF k + 1 <= n THEN n - (k + 1) + 1 ELSE 0) = m
    BY <1>1, <1>3, <1>4
  <2>4. \A i \in 1 .. m : i \in 1 .. n - (k + 1) + 1 /\ (k + 1) + i - 1 = k + i
    BY <1>1, <1>3, <1>4
  <2> HIDE DEF b
  <2> QED BY <2>2, <2>3, <2>4, Zenon
<1> DEFINE c == a \o <<p>>
<1> HIDE DEF a, b, m
<1>7. /\ c \in Seq(S) /\ Len(c) = k + 1
      /\ \A i \in 1 .. k : c[i] = q[i]
      /\ c[k + 1] = p
  BY <1>1, <1>5
<1> HIDE DEF c
<1>8. /\ r \in Seq(S) /\ Len(r) = k + 1 + m
       /\ \A i \in 1 .. k + 1 + m : r[i] = IF i <= k + 1 THEN c[i] ELSE b[i - (k + 1)]
  <2>1. r = c \o b
    BY <1>2 DEF a, b, c
  <2>2. /\ c \o b \in Seq(S) /\ Len(c \o b) = Len(c) + Len(b)
        /\ \A i \in 1 .. Len(c) + Len(b) :
             (c \o b)[i] = IF i <= Len(c) THEN c[i] ELSE b[i - Len(c)]
    BY <1>6, <1>7, ConcatProperties
  <2> QED BY <1>6, <1>7, <2>1, <2>2, Zenon
<1>9. DOMAIN r = 1 .. k + 1 + m
  BY <1>8
<1>10. /\ \A i \in 1 .. k : r[i] = q[i]
       /\ r[k + 1] = p
       /\ \A i \in k + 1 .. n : r[i + 1] = q[i]
  <2>1. \A i \in 1 .. k + 1 : r[i] = c[i]
    BY <1>1, <1>4, <1>8
  <2>2. ASSUME NEW i \in k + 1 .. n PROVE r[i + 1] = q[i]
    <3>1. /\ i + 1 \in 1 .. k + 1 + m /\ ~(i + 1 <= k + 1)
          /\ (i + 1) - (k + 1) = i - k /\ i - k \in 1 .. m /\ k + (i - k) = i
      BY <1>1, <1>3, <1>4
    <3>2. r[i + 1] = b[i - k]
      BY <1>8, <3>1
    <3> QED BY <1>6, <3>1, <3>2
  <2>3. \A i \in 1 .. k : i \in 1 .. k + 1
    BY <1>1
  <2>4. k + 1 \in 1 .. k + 1
    BY <1>1
  <2> QED BY <1>7, <2>1, <2>2, <2>3, <2>4
<1>11. \A i \in DOMAIN r : \/ (i \in 1 .. k /\ i \in 1 .. n /\ r[i] = q[i])
                          \/ (i = k + 1 /\ r[i] = p)
                          \/ (i > k + 1 /\ i - 1 \in 1 .. n /\ r[i] = q[i - 1])
  <2> TAKE i \in DOMAIN r
  <2>1. i \in Int /\ 1 <= i /\ i <= k + 1 + m
    BY <1>1, <1>4, <1>9
  <2>2. CASE i > k + 1
    <3>1. i - 1 \in k + 1 .. n /\ (i - 1) + 1 = i /\ i - 1 \in 1 .. n
      BY <1>1, <1>3, <1>4, <2>1, <2>2
    <3>2. r[(i - 1) + 1] = q[i - 1]
      BY <1>10, <3>1
    <3> QED BY <2>2, <3>1, <3>2
  <2>3. CASE i <= k
    BY <1>1, <1>3, <1>4, <1>10, <2>1, <2>3
  <2> QED BY <1>1, <1>10, <2>1, <2>2, <2>3
<1>12. Len(r) = n + 1 /\ DOMAIN r = 1 .. n + 1
  BY <1>1, <1>3, <1>4, <1>8, <1>9
<1>13. r \in Seq(S)
  BY <1>8
<1> HIDE DEF c
<1> QED
  BY <1>10, <1>11, <1>12, <1>13 DEF Inserted

\* It adds p, and only p, if p was not in the queue.
LEMMA InsertAtAdds ==
  ASSUME NEW S, NEW q \in Seq(S), NEW p \in S, NEW n, n = Len(q),
         NEW k \in 0 .. n, NEW r, r = InsertAt(p, k, q),
         Distinct(q), p \notin Members(q)
  PROVE  r \in Seq(S) /\ Distinct(r) /\ Members(r) = Members(q) \cup {p}
<1>1. r \in Seq(S) /\ Inserted(r, p, k, q, n)
  BY InsertAtProperties
<1>2. n \in Nat /\ DOMAIN q = 1 .. n /\ k \in 0 .. n /\ k \in Nat
  OBVIOUS
<1>3. \A i \in 1 .. n : q[i] # p
  BY <1>2 DEF Members
<1>4. Distinct(r)
  <2> SUFFICES ASSUME NEW i \in DOMAIN r, NEW j \in DOMAIN r, r[i] = r[j], i # j
               PROVE  FALSE
    BY DEF Distinct
  <2>1. i \in Int /\ j \in Int
    BY <1>1, <1>2 DEF Inserted
  <2>2. \A f, g \in 1 .. n : q[f] = q[g] => f = g
    BY <1>2 DEF Distinct
  <2> DEFINE g(h) == IF h <= k THEN h ELSE h - 1
  <2>3. ASSUME NEW h \in DOMAIN r, h # k + 1
        PROVE  h \in Int /\ g(h) \in 1 .. n /\ r[h] = q[g(h)]
    BY <1>1, <1>2, <2>3 DEF Inserted
  <2>4. \A x, y \in Int : x # k + 1 /\ y # k + 1 /\ g(x) = g(y) => x = y
    BY <1>2
  <2> HIDE DEF g
  <2>5. CASE i = k + 1 \/ j = k + 1
    BY <1>1, <1>3, <2>3, <2>5 DEF Inserted
  <2>6. CASE i # k + 1 /\ j # k + 1
    BY <2>2, <2>3, <2>4, <2>6
  <2> QED BY <2>5, <2>6
<1>5. Members(r) = Members(q) \cup {p}
  <2>1. Members(r) \subseteq Members(q) \cup {p}
    BY <1>1, <1>2 DEF Members, Inserted
  <2>2. ASSUME NEW x \in Members(q) PROVE x \in Members(r)
    <3>1. PICK i \in 1 .. n : q[i] = x
      BY <1>2 DEF Members
    <3>2. CASE i <= k
      <4>1. i \in 1 .. k /\ i \in DOMAIN r
        BY <1>1, <1>2, <3>1, <3>2 DEF Inserted
      <4> QED BY <1>1, <3>1, <4>1 DEF Members, Inserted
    <3>3. CASE i > k
      <4>1. i \in k + 1 .. n /\ i + 1 \in DOMAIN r
        BY <1>1, <1>2, <3>1, <3>3 DEF Inserted
      <4>2. r[i + 1] = x
        BY <1>1, <3>1, <4>1 DEF Inserted
      <4> QED BY <4>1, <4>2 DEF Members
    <3> QED BY <1>2, <3>1, <3>2, <3>3
  <2>3. p \in Members(r)
    <3>1. k + 1 \in DOMAIN r
      BY <1>1, <1>2 DEF Inserted
    <3> QED BY <1>1, <3>1 DEF Members, Inserted
  <2> QED BY <2>1, <2>2, <2>3
<1> QED
  BY <1>1, <1>4, <1>5 DEF Inserted

\* iq_priority_insert and iq_timespec_insert find a place.
LEMMA InsertPlace ==
  ASSUME NEW S, NEW q \in Seq(S), NEW p \in S, NEW key \in [S -> Int]
  PROVE  \E h \in 0 .. Len(q) : /\ \A j \in 1 .. h : key[q[j]] <= key[p]
                                /\ h < Len(q) => key[q[h + 1]] > key[p]
<1>1. Len(q) \in Nat /\ DOMAIN q = 1 .. Len(q) /\ \A i \in 1 .. Len(q) : q[i] \in S
  OBVIOUS
<1> DEFINE B == {n \in 0 .. Len(q) : n < Len(q) => key[q[n + 1]] > key[p]}
<1>2. Len(q) \in B /\ B \in SUBSET Nat
  BY <1>1
<1>3. PICK n \in B : \A j \in B : n <= j
  BY <1>2, LeastElement
<1>4. ASSUME NEW j \in 1 .. n PROVE key[q[j]] <= key[p]
  <2>1. j - 1 \in 0 .. Len(q) /\ j - 1 < n /\ j - 1 < Len(q) /\ (j - 1) + 1 = j
    BY <1>1, <1>3
  <2>2. ~(key[q[j]] > key[p])
    BY <1>3, <2>1
  <2>3. key[q[j]] \in Int /\ key[p] \in Int
    BY <1>1, <2>1
  <2> QED BY <2>2, <2>3
<1> QED BY <1>3, <1>4

\* They add a task that is not in the queue, and only that task.
LEMMA InsertByKeyProperties ==
  ASSUME NEW S, NEW q \in Seq(S), NEW p \in S, NEW key \in [S -> Int],
         Distinct(q), p \notin Members(q)
  PROVE  /\ InsertByKey(p, q, key) \in Seq(S)
         /\ Distinct(InsertByKey(p, q, key))
         /\ Members(InsertByKey(p, q, key)) = Members(q) \cup {p}
<1> DEFINE Fits(h) == /\ \A j \in 1 .. h : key[q[j]] <= key[p]
                      /\ h < Len(q) => key[q[h + 1]] > key[p]
<1>1. PICK k \in 0 .. Len(q) : k = CHOOSE h \in 0 .. Len(q) : Fits(h)
  BY InsertPlace
<1>2. InsertByKey(p, q, key) = InsertAt(p, k, q)
  BY <1>1 DEF InsertByKey, InsertAt
<1> QED
  BY <1>2, InsertAtAdds

\* The first of a queue leaves it.
LEMMA FirstLeavesProperties ==
  ASSUME NEW S, NEW q \in Seq(S), Distinct(q), q # <<>>
  PROVE  /\ Head(q) \in S /\ Head(q) \in Members(q)
         /\ Tail(q) \in Seq(S) /\ Distinct(Tail(q))
         /\ Members(Tail(q)) = Members(q) \ {Head(q)}
<1> DEFINE n == Len(q)
           r == Tail(q)
<1>1. /\ n \in Nat /\ n > 0 /\ DOMAIN q = 1 .. n
      /\ r \in Seq(S) /\ Len(r) = n - 1 /\ DOMAIN r = 1 .. n - 1
      /\ \A i \in 1 .. n - 1 : r[i] = q[i + 1]
      /\ Head(q) = q[1] /\ 1 \in DOMAIN q /\ q[1] \in S
  OBVIOUS
<1>2. \A i, j \in DOMAIN q : q[i] = q[j] => i = j
  BY DEF Distinct
<1> HIDE DEF n, r
<1>3. Distinct(r)
  <2> SUFFICES ASSUME NEW i \in 1 .. n - 1, NEW j \in 1 .. n - 1, r[i] = r[j]
               PROVE  i = j
    BY <1>1 DEF Distinct
  <2>1. i + 1 \in DOMAIN q /\ j + 1 \in DOMAIN q /\ q[i + 1] = q[j + 1]
    BY <1>1
  <2>2. i + 1 = j + 1
    BY <1>2, <2>1
  <2> QED BY <1>1, <2>2
<1>4. Members(r) = Members(q) \ {q[1]}
  <2>1. ASSUME NEW y \in Members(r) PROVE y \in Members(q) /\ y # q[1]
    <3>1. PICK i \in 1 .. n - 1 : y = q[i + 1]
      BY <1>1 DEF Members
    <3>2. i + 1 \in DOMAIN q /\ i + 1 # 1
      BY <1>1
    <3> QED BY <1>1, <1>2, <3>1, <3>2 DEF Members
  <2>2. ASSUME NEW y \in Members(q), y # q[1] PROVE y \in Members(r)
    <3>1. PICK i \in 1 .. n : y = q[i] /\ i # 1
      BY <1>1, <2>2 DEF Members
    <3>2. i - 1 \in 1 .. n - 1 /\ (i - 1) + 1 = i
      BY <1>1, <3>1
    <3>3. r[i - 1] = y
      BY <1>1, <3>1, <3>2
    <3> QED BY <1>1, <3>2, <3>3 DEF Members
  <2> QED BY <2>1, <2>2
<1>5. q[1] \in Members(q)
  BY <1>1 DEF Members
<1>6. r = Tail(q) /\ Head(q) = q[1]
  BY <1>1 DEF r
<1>7. q[1] \in S /\ r \in Seq(S)
  BY <1>1
<1> QED BY <1>3, <1>4, <1>5, <1>6, <1>7, Zenon

\* The queue is in the order of the keys, which iq_extract and iq_priority_insert
\* keep.
InOrder(q, key) == \A i, j \in DOMAIN q : i < j => key[q[i]] <= key[q[j]]

LEMMA ExtractKeepsOrder ==
  ASSUME NEW S, NEW q \in Seq(S), NEW p \in Members(q), NEW key, InOrder(q, key)
  PROVE  InOrder(Extract(p, q), key)
<1> DEFINE k == Position(p, q)
           r == Extract(p, q)
           n == Len(q)
           g(i) == IF i < k THEN i ELSE i + 1
<1>1. k \in DOMAIN q
  BY DEF Position, Members
<1>2. /\ n \in Nat /\ DOMAIN q = 1 .. n
      /\ r = [i \in 1 .. n - 1 |-> IF i < k THEN q[i] ELSE q[i + 1]]
  BY DEF Extract
<1> HIDE DEF k, r, n
<1>3. /\ DOMAIN r = 1 .. n - 1
      /\ \A i \in 1 .. n - 1 : g(i) \in 1 .. n /\ r[i] = q[g(i)]
      /\ \A i, j \in 1 .. n - 1 : i < j => g(i) < g(j)
  BY <1>1, <1>2
<1> HIDE DEF g
<1>4. InOrder(r, key)
  BY <1>2, <1>3 DEF InOrder
<1> QED BY <1>4 DEF r

LEMMA InsertByKeyKeepsOrder ==
  ASSUME NEW S, NEW q \in Seq(S), NEW p \in S, NEW key \in [S -> Int], InOrder(q, key)
  PROVE  InOrder(InsertByKey(p, q, key), key)
<1> DEFINE n == Len(q)
           r == InsertByKey(p, q, key)
           Fits(h) == /\ \A j \in 1 .. h : key[q[j]] <= key[p]
                      /\ h < n => key[q[h + 1]] > key[p]
<1>1. PICK k \in 0 .. n : Fits(k) /\ k = CHOOSE h \in 0 .. n : Fits(h)
  BY InsertPlace
<1>2. r = InsertAt(p, k, q)
  BY <1>1 DEF InsertByKey, InsertAt
<1>3. n \in Nat /\ DOMAIN q = 1 .. n /\ \A i \in 1 .. n : key[q[i]] \in Int
  OBVIOUS
<1>4. key[p] \in Int
  OBVIOUS
<1>5. \A i, j \in 1 .. n : i < j => key[q[i]] <= key[q[j]]
  BY <1>3 DEF InOrder
<1> HIDE DEF r, n
<1>6. Inserted(r, p, k, q, n)
  BY <1>2, InsertAtProperties DEF n
<1>7. \A i \in k + 1 .. n : key[q[i]] > key[p]
  <2> TAKE i \in k + 1 .. n
  <2>1. k + 1 \in 1 .. n /\ key[q[k + 1]] > key[p] /\ i \in 1 .. n
    BY <1>1, <1>3
  <2>2. key[q[k + 1]] <= key[q[i]]
    BY <1>3, <1>5, <2>1
  <2> QED BY <1>3, <1>4, <2>1, <2>2
<1>8. \A i \in 1 .. k : key[q[i]] <= key[p]
  BY <1>1
<1> HIDE DEF Fits
<1>9. ASSUME NEW i \in DOMAIN r, NEW j \in DOMAIN r, i < j
      PROVE  key[r[i]] <= key[r[j]]
  <2>1. i \in Int /\ j \in Int /\ k \in Int /\ 0 <= k
    BY <1>3, <1>6 DEF Inserted
  <2>2. CASE j <= k
    <3>1. /\ i \in 1 .. n /\ r[i] = q[i] /\ j \in 1 .. n /\ r[j] = q[j]
      BY <1>6, <1>9, <2>1, <2>2 DEF Inserted
    <3> QED BY <1>5, <1>9, <3>1
  <2>3. CASE j = k + 1
    <3>1. i \in 1 .. k /\ r[i] = q[i] /\ r[j] = p
      BY <1>6, <1>9, <2>1, <2>3 DEF Inserted
    <3> QED BY <1>8, <3>1
  <2>4. CASE j > k + 1
    <3>1. j - 1 \in k + 1 .. n /\ j - 1 \in 1 .. n /\ r[j] = q[j - 1]
      BY <1>3, <1>6, <2>1, <2>4 DEF Inserted
    <3>2. CASE i <= k
      <4>1. i \in 1 .. n /\ r[i] = q[i] /\ i < j - 1
        BY <1>6, <2>1, <2>4, <3>2 DEF Inserted
      <4> QED BY <1>5, <3>1, <4>1
    <3>3. CASE i = k + 1
      <4>1. r[i] = p
        BY <1>6, <3>3 DEF Inserted
      <4>2. key[q[j - 1]] > key[p]
        BY <1>7, <3>1
      <4> QED BY <1>3, <1>4, <3>1, <4>1, <4>2
    <3>4. CASE i > k + 1
      <4>1. i - 1 \in 1 .. n /\ r[i] = q[i - 1] /\ i - 1 < j - 1
        BY <1>6, <1>9, <2>1, <3>4 DEF Inserted
      <4> QED BY <1>5, <3>1, <4>1
    <3> QED BY <2>1, <3>2, <3>3, <3>4
  <2> QED BY <2>1, <2>2, <2>3, <2>4
<1> QED BY <1>9 DEF InOrder, r

-----------------------------------------------------------------------------
(* The sums of the module Sums: the sizes of bundles of units *)

LEMMA BundleHolds ==
  ASSUME NEW S, NEW g
  PROVE  \A x : x \in Bundle(S, g)
                  <=> \E t \in S : \E i \in 1 .. g[t] : x = <<t, i>>
BY DEF Bundle

LEMMA OneBundle ==
  ASSUME NEW t, NEW n \in Nat
  PROVE  IsFiniteSet({t} \X (1 .. n)) /\ Cardinality({t} \X (1 .. n)) = n
<1>1. IsFiniteSet({t}) /\ Cardinality({t}) = 1
  BY FS_Singleton
<1>2. IsFiniteSet(1 .. n) /\ Cardinality(1 .. n) = n
  BY FS_Interval
<1>3. /\ IsFiniteSet({t} \X (1 .. n))
      /\ Cardinality({t} \X (1 .. n)) = Cardinality({t}) * Cardinality(1 .. n)
  BY <1>1, <1>2, FS_Product
<1> QED BY <1>1, <1>2, <1>3

\* A task more brings its units.
LEMMA BundleAdd ==
  ASSUME NEW S, NEW g, NEW t, t \notin S, g[t] \in Nat,
         IsFiniteSet(Bundle(S, g))
  PROVE  /\ IsFiniteSet(Bundle(S \cup {t}, g))
         /\ Cardinality(Bundle(S \cup {t}, g)) = Cardinality(Bundle(S, g)) + g[t]
<1> DEFINE B == Bundle(S, g)
           O == {t} \X (1 .. g[t])
<1>1. Bundle(S \cup {t}, g) = B \cup O
  BY DEF Bundle
<1>2. B \cap O = {}
  BY BundleHolds
<1>3. IsFiniteSet(O) /\ Cardinality(O) = g[t]
  BY OneBundle
<1> HIDE DEF B, O
<1>4. Cardinality(B) \in Nat /\ IsFiniteSet(B)
  BY FS_CardinalityType DEF B
<1>5. /\ IsFiniteSet(B \cup O)
      /\ Cardinality(B \cup O) = Cardinality(B) + Cardinality(O) - Cardinality(B \cap O)
  BY <1>3, <1>4, FS_Union
<1>6. Cardinality(B \cap O) = 0
  BY <1>2, FS_EmptySet
<1>7. Cardinality(B \cup O) = Cardinality(B) + g[t]
  BY <1>3, <1>4, <1>5, <1>6
<1> QED BY <1>1, <1>5, <1>7 DEF B

\* A task of the set whose units go takes just these away.
LEMMA BundleDrop ==
  ASSUME NEW S, NEW g, NEW t \in S, g[t] \in Nat,
         IsFiniteSet(Bundle(S, g))
  PROVE  /\ IsFiniteSet(Bundle(S \ {t}, g))
         /\ Cardinality(Bundle(S \ {t}, g)) = Cardinality(Bundle(S, g)) - g[t]
<1>1. (S \ {t}) \cup {t} = S
  OBVIOUS
<1>2. Bundle(S \ {t}, g) \subseteq Bundle(S, g)
  BY DEF Bundle
<1>3. IsFiniteSet(Bundle(S \ {t}, g))
  BY <1>2, FS_Subset
<1>4. Cardinality(Bundle((S \ {t}) \cup {t}, g))
        = Cardinality(Bundle(S \ {t}, g)) + g[t]
  BY <1>3, BundleAdd
<1>5. Cardinality(Bundle(S \ {t}, g)) \in Nat
  BY <1>3, FS_CardinalityType
<1>6. Cardinality(Bundle(S, g)) = Cardinality(Bundle(S \ {t}, g)) + g[t]
  BY <1>1, <1>4
<1> QED BY <1>3, <1>5, <1>6

-----------------------------------------------------------------------------
(* Lists of events, records with a time, a handler and a pid: in the order of *)
(* the times, and one event for each handler and pid.                         *)

InTime(q) == \A i, j \in DOMAIN q : i < j => q[i].time <= q[j].time
OneEach(q) == \A i, j \in DOMAIN q :
                q[i].handler = q[j].handler /\ q[i].pid = q[j].pid => i = j
Listed(q, h, p) == \E i \in DOMAIN q : q[i].handler = h /\ q[i].pid = p
TimedList(q, T) == q \in Seq(T) /\ InTime(q) /\ OneEach(q)

LEMMA TimedFields ==
  ASSUME NEW T, \A e \in T : e.time \in Int, NEW q \in Seq(T)
  PROVE  /\ Len(q) \in Nat /\ DOMAIN q = 1 .. Len(q)
         /\ \A j \in 1 .. Len(q) : q[j] \in T /\ q[j].time \in Int
<1>1. Len(q) \in Nat /\ DOMAIN q = 1 .. Len(q) /\ \A j \in 1 .. Len(q) : q[j] \in T
  OBVIOUS
<1> QED BY <1>1

LEMMA TimedPlace ==
  ASSUME NEW T, \A e \in T : e.time \in Int, NEW q \in Seq(T), NEW t \in Int
  PROVE  \E i \in 0 .. Len(q) : /\ \A j \in 1 .. i : q[j].time < t
                                /\ i < Len(q) => q[i + 1].time >= t
<1>1. Len(q) \in Nat /\ DOMAIN q = 1 .. Len(q) /\ \A i \in 1 .. Len(q) : q[i].time \in Int
  BY TimedFields
<1> DEFINE B == {n \in 0 .. Len(q) : n < Len(q) => q[n + 1].time >= t}
<1>2. Len(q) \in B /\ B \in SUBSET Nat
  BY <1>1
<1> HIDE DEF B
<1>3. PICK i \in B : \A j \in B : i <= j
  BY <1>2, LeastElement
<1>4. i \in 0 .. Len(q) /\ (i < Len(q) => q[i + 1].time >= t)
  BY <1>3 DEF B
<1>5. ASSUME NEW j \in 1 .. i PROVE q[j].time < t
  <2>1. j - 1 \in 0 .. Len(q) /\ j - 1 < i /\ j - 1 \in Nat /\ (j - 1) + 1 = j /\ j - 1 < Len(q)
    BY <1>1, <1>4
  <2>2. j - 1 \notin B
    BY <1>3, <1>4, <2>1
  <2>3. ~(q[(j - 1) + 1].time >= t)
    BY <2>1, <2>2 DEF B
  <2> QED BY <1>1, <1>4, <2>1, <2>3
<1> QED BY <1>4, <1>5

\* Event e is not in q and belongs after the first i elements of it.
Slot(q, e, i) ==
  /\ ~Listed(q, e.handler, e.pid)
  /\ i \in 0 .. Len(q) /\ \A j \in 1 .. i : q[j].time < e.time
  /\ i < Len(q) => q[i + 1].time >= e.time

\* The set S and e (a name of its own: the provers unfold a union).
Joined(S, e) == S \cup {e}

\* A new event goes between those that come earlier and the others.
LEMMA TimedInsert ==
  ASSUME NEW T, \A e \in T : e.time \in Int, NEW q, TimedList(q, T), NEW e \in T,
         NEW i, Slot(q, e, i)
  PROVE  LET r == InsertAt(e, i, q)
         IN  /\ TimedList(r, T) /\ Members(r) = Joined(Members(q), e)
             /\ q # <<>> /\ q[1].time < e.time => r # <<>> /\ r[1] = q[1]
<1> USE DEF Slot
<1> DEFINE r == InsertAt(e, i, q)
           n == Len(q)
<1>1. /\ q \in Seq(T) /\ n \in Nat /\ DOMAIN q = 1 .. n /\ i \in Nat
      /\ \A j \in 1 .. n : q[j] \in T /\ q[j].time \in Int
      /\ e.time \in Int
  BY TimedFields DEF TimedList
<1>2. r \in Seq(T) /\ Inserted(r, e, i, q, n)
  BY <1>1, InsertAtProperties
<1> HIDE DEF r, n
<1>3. \A j \in 1 .. n : j > i => q[j].time >= e.time
  <2> SUFFICES ASSUME NEW j \in 1 .. n, j > i PROVE q[j].time >= e.time
    OBVIOUS
  <2>1. i < n /\ i + 1 \in 1 .. n /\ q[i + 1].time >= e.time
    BY <1>1 DEF n
  <2>2. CASE j = i + 1
    BY <2>1, <2>2
  <2>3. CASE i + 1 < j
    <3>1. q[i + 1].time <= q[j].time
      BY <1>1, <2>1, <2>3 DEF TimedList, InTime
    <3> QED BY <1>1, <2>1, <3>1
  <2> QED BY <1>1, <2>2, <2>3
<1>4. \A j \in 1 .. i : j \in 1 .. n /\ q[j].time < e.time
  BY <1>1 DEF n
<1>5. InTime(r)
  <2> SUFFICES ASSUME NEW a \in DOMAIN r, NEW b \in DOMAIN r, a < b
               PROVE  r[a].time <= r[b].time
    BY DEF InTime
  <2>1. a \in Int /\ b \in Int
    BY <1>1, <1>2 DEF Inserted
  <2>2. CASE a \in 1 .. i /\ r[a] = q[a]
    <3>1. CASE b \in 1 .. i /\ r[b] = q[b]
      BY <1>1, <1>4, <2>2, <3>1 DEF TimedList, InTime
    <3>2. CASE b = i + 1 /\ r[b] = e
      BY <1>1, <1>4, <2>2, <3>2
    <3>3. CASE b > i + 1 /\ b - 1 \in 1 .. n /\ r[b] = q[b - 1]
      <4>1. q[b - 1].time >= e.time
        <5>1. b - 1 \in 1 .. n /\ b - 1 > i
          BY <1>1, <2>1, <3>3
        <5> QED BY <1>3, <5>1
      <4> QED BY <1>1, <1>4, <2>2, <3>3, <4>1
    <3> QED BY <1>2, <3>1, <3>2, <3>3 DEF Inserted
  <2>3. CASE a = i + 1 /\ r[a] = e
    <3>1. b > i + 1 /\ b - 1 \in 1 .. n /\ r[b] = q[b - 1]
      BY <1>1, <1>2, <2>1, <2>3 DEF Inserted
    <3> QED BY <1>1, <1>3, <2>1, <2>3, <3>1
  <2>4. CASE a > i + 1 /\ a - 1 \in 1 .. n /\ r[a] = q[a - 1]
    <3>1. b > i + 1 /\ b - 1 \in 1 .. n /\ r[b] = q[b - 1]
      BY <1>1, <1>2, <2>1, <2>4 DEF Inserted
    <3>2. a - 1 < b - 1
      BY <1>1, <2>1, <3>1
    <3> QED BY <1>1, <2>4, <3>1, <3>2 DEF TimedList, InTime
  <2> QED BY <1>2, <2>2, <2>3, <2>4 DEF Inserted
<1>6. \A j \in 1 .. n : ~(q[j].handler = e.handler /\ q[j].pid = e.pid)
  BY <1>1 DEF Listed
<1>7. OneEach(r)
  <2> SUFFICES ASSUME NEW a \in DOMAIN r, NEW b \in DOMAIN r,
                      r[a].handler = r[b].handler, r[a].pid = r[b].pid
               PROVE  a = b
    BY DEF OneEach
  <2>1. a \in Int /\ b \in Int
    BY <1>1, <1>2 DEF Inserted
  <2>2. \A c, d \in 1 .. n : q[c].handler = q[d].handler /\ q[c].pid = q[d].pid => c = d
    BY <1>1 DEF TimedList, OneEach
  <2>3. /\ \/ a \in 1 .. n /\ a <= i /\ r[a] = q[a]
           \/ a = i + 1 /\ r[a] = e
           \/ a > i + 1 /\ a - 1 \in 1 .. n /\ r[a] = q[a - 1]
        /\ \/ b \in 1 .. n /\ b <= i /\ r[b] = q[b]
           \/ b = i + 1 /\ r[b] = e
           \/ b > i + 1 /\ b - 1 \in 1 .. n /\ r[b] = q[b - 1]
    BY <1>1, <1>2 DEF Inserted
  <2>4. CASE a = i + 1 /\ r[a] = e
    BY <1>6, <2>3, <2>4
  <2>5. CASE a \in 1 .. n /\ a <= i /\ r[a] = q[a]
    <3>1. CASE b = i + 1 /\ r[b] = e
      BY <1>6, <2>5, <3>1
    <3>2. CASE b \in 1 .. n /\ b <= i /\ r[b] = q[b]
      BY <2>2, <2>5, <3>2
    <3>3. CASE b > i + 1 /\ b - 1 \in 1 .. n /\ r[b] = q[b - 1]
      <4>1. a = b - 1
        BY <2>2, <2>5, <3>3
      <4> QED BY <1>1, <2>1, <2>5, <3>3, <4>1
    <3> QED BY <2>3, <3>1, <3>2, <3>3
  <2>6. CASE a > i + 1 /\ a - 1 \in 1 .. n /\ r[a] = q[a - 1]
    <3>1. CASE b = i + 1 /\ r[b] = e
      BY <1>6, <2>6, <3>1
    <3>2. CASE b \in 1 .. n /\ b <= i /\ r[b] = q[b]
      <4>1. a - 1 = b
        BY <2>2, <2>6, <3>2
      <4> QED BY <1>1, <2>1, <2>6, <3>2, <4>1
    <3>3. CASE b > i + 1 /\ b - 1 \in 1 .. n /\ r[b] = q[b - 1]
      <4>1. a - 1 = b - 1
        BY <2>2, <2>6, <3>3
      <4> QED BY <2>1, <4>1
    <3> QED BY <2>3, <3>1, <3>2, <3>3
  <2> QED BY <2>3, <2>4, <2>5, <2>6
<1>8. \A x : x \in Members(r) <=> x \in Members(q) \/ x = e
  <2>1. ASSUME NEW x \in Members(r) PROVE x \in Members(q) \/ x = e
    <3>1. PICK a \in DOMAIN r : x = r[a]
      BY DEF Members
    <3>2. \A j \in 1 .. n : q[j] \in Members(q)
      BY <1>1 DEF Members
    <3> QED BY <1>2, <3>1, <3>2 DEF Inserted
  <2>2. ASSUME NEW x \in Members(q) PROVE x \in Members(r)
    <3>1. PICK a \in 1 .. n : x = q[a]
      BY <1>1 DEF Members
    <3>2. CASE a <= i
      <4>1. a \in DOMAIN r /\ r[a] = q[a]
        BY <1>1, <1>2, <3>2 DEF Inserted
      <4> QED BY <3>1, <4>1 DEF Members
    <3>3. CASE a > i
      <4>1. a \in i + 1 .. n /\ a + 1 \in 1 .. n + 1
        BY <1>1, <3>3
      <4>2. a + 1 \in DOMAIN r /\ r[a + 1] = q[a]
        BY <1>2, <4>1 DEF Inserted
      <4> QED BY <3>1, <4>2 DEF Members
    <3> QED BY <1>1, <3>2, <3>3
  <2>3. e \in Members(r)
    <3>1. i + 1 \in DOMAIN r /\ r[i + 1] = e
      BY <1>1, <1>2 DEF Inserted, n
    <3> QED BY <3>1 DEF Members
  <2> QED BY <2>1, <2>2, <2>3, Zenon
<1>9. Members(r) = Joined(Members(q), e)
  BY <1>8 DEF Joined
<1>10. TimedList(r, T)
  BY <1>2, <1>5, <1>7, <1>9 DEF TimedList, Joined
<1>11. ASSUME q # <<>>, q[1].time < e.time PROVE r # <<>> /\ r[1] = q[1]
  <2>1. n > 0 /\ 1 \in 1 .. n
    BY <1>1, <1>11 DEF n
  <2>2. 1 \in 1 .. i
    BY <1>1, <1>3, <1>11, <2>1
  <2>3. r[1] = q[1] /\ 1 \in DOMAIN r
    BY <1>1, <1>2, <2>2 DEF Inserted
  <2> QED BY <2>3
<1> QED BY <1>9, <1>10, <1>11 DEF r

\* One event is taken off.
LEMMA TimedExtract ==
  ASSUME NEW T, \A e \in T : e.time \in Int, NEW q, TimedList(q, T), NEW e \in Members(q)
  PROVE  LET r == Extract(e, q)
         IN  /\ TimedList(r, T) /\ Members(r) = Members(q) \ {e}
             /\ ~Listed(r, e.handler, e.pid)
             /\ q[1] # e => r # <<>> /\ r[1] = q[1]
<1> DEFINE r == Extract(e, q)
           m == Position(e, q)
           n == Len(q)
           g(i) == IF i < m THEN i ELSE i + 1
<1>1. /\ q \in Seq(T) /\ n \in Nat /\ DOMAIN q = 1 .. n
      /\ \A j \in 1 .. n : q[j] \in T /\ q[j].time \in Int
  BY TimedFields DEF TimedList
<1>2. m \in 1 .. n /\ q[m] = e
  BY <1>1 DEF Position, Members
<1>3. Distinct(q)
  BY DEF Distinct, TimedList, OneEach
<1>4. r \in Seq(T) /\ Members(r) = Members(q) \ {e}
  BY <1>1, <1>3, ExtractProperties
<1>5. /\ Len(r) = n - 1 /\ DOMAIN r = 1 .. n - 1
      /\ \A i \in 1 .. n - 1 : r[i] = q[g(i)] /\ g(i) \in 1 .. n
  BY <1>1, <1>2 DEF Extract
<1> HIDE DEF r, m, n
<1>6. \A i, j \in 1 .. n - 1 : (i < j => g(i) < g(j)) /\ (g(i) = g(j) => i = j)
  BY <1>1, <1>2
<1> HIDE DEF g
<1>7. InTime(r)
  BY <1>1, <1>5, <1>6 DEF InTime, TimedList
<1>8. OneEach(r)
  <2> SUFFICES ASSUME NEW i \in 1 .. n - 1, NEW j \in 1 .. n - 1,
                      r[i].handler = r[j].handler, r[i].pid = r[j].pid
               PROVE  i = j
    BY <1>5 DEF OneEach
  <2>1. g(i) = g(j)
    BY <1>1, <1>5 DEF TimedList, OneEach
  <2> QED BY <1>6, <2>1
<1>9. ~Listed(r, e.handler, e.pid)
  <2> SUFFICES ASSUME NEW i \in DOMAIN r, r[i].handler = e.handler, r[i].pid = e.pid
               PROVE  FALSE
    BY DEF Listed
  <2>1. r[i] \in Members(q) /\ r[i] # e
    BY <1>4 DEF Members
  <2>2. PICK j \in 1 .. n : q[j] = r[i]
    BY <1>1, <2>1 DEF Members
  <2> QED BY <1>1, <1>2, <2>1, <2>2 DEF TimedList, OneEach
<1>10. ASSUME q[1] # e PROVE r # <<>> /\ r[1] = q[1]
  <2>1. 1 < m /\ 1 \in 1 .. n - 1
    BY <1>1, <1>2, <1>10
  <2>2. g(1) = 1 /\ 1 \in DOMAIN r
    BY <1>5, <2>1 DEF g
  <2> QED BY <1>5, <2>1, <2>2
<1>11. TimedList(r, T)
  BY <1>4, <1>7, <1>8 DEF TimedList
<1> QED BY <1>4, <1>9, <1>10, <1>11 DEF r

\* The first event is taken off: it is the earliest.
LEMMA TimedTail ==
  ASSUME NEW T, \A e \in T : e.time \in Int, NEW q, TimedList(q, T), q # <<>>
  PROVE  LET r == Tail(q)
         IN  /\ TimedList(r, T) /\ Members(r) = Members(q) \ {q[1]}
             /\ q[1] \in Members(q)
             /\ ~Listed(r, q[1].handler, q[1].pid)
             /\ \A e \in Members(q) : q[1].time <= e.time
<1> DEFINE r == Tail(q)
           n == Len(q)
<1>1. /\ q \in Seq(T) /\ n \in Nat /\ n > 0 /\ DOMAIN q = 1 .. n /\ 1 \in 1 .. n
      /\ \A j \in 1 .. n : q[j] \in T /\ q[j].time \in Int
  BY TimedFields DEF TimedList
<1>2. Distinct(q)
  BY DEF Distinct, TimedList, OneEach
<1>3. r \in Seq(T) /\ Members(r) = Members(q) \ {q[1]} /\ Head(q) = q[1]
  BY <1>1, <1>2, FirstLeavesProperties
<1>4. /\ Len(r) = n - 1 /\ DOMAIN r = 1 .. n - 1
      /\ \A i \in 1 .. n - 1 : r[i] = q[i + 1]
  BY <1>1
<1> HIDE DEF r, n
<1>5. InTime(r)
  <2> SUFFICES ASSUME NEW i \in 1 .. n - 1, NEW j \in 1 .. n - 1, i < j
               PROVE  r[i].time <= r[j].time
    BY <1>4 DEF InTime
  <2>1. i + 1 \in 1 .. n /\ j + 1 \in 1 .. n /\ i + 1 < j + 1
    BY <1>1
  <2> QED BY <1>1, <1>4, <2>1 DEF TimedList, InTime
<1>6. OneEach(r)
  <2> SUFFICES ASSUME NEW i \in 1 .. n - 1, NEW j \in 1 .. n - 1,
                      r[i].handler = r[j].handler, r[i].pid = r[j].pid
               PROVE  i = j
    BY <1>4 DEF OneEach
  <2>1. i + 1 \in 1 .. n /\ j + 1 \in 1 .. n
    BY <1>1
  <2>2. q[i + 1].handler = q[j + 1].handler /\ q[i + 1].pid = q[j + 1].pid
    BY <1>4
  <2>3. i + 1 = j + 1
    BY <1>1, <2>1, <2>2 DEF TimedList, OneEach
  <2> QED BY <2>3
<1>7. ~Listed(r, q[1].handler, q[1].pid)
  <2> SUFFICES ASSUME NEW i \in 1 .. n - 1, r[i].handler = q[1].handler, r[i].pid = q[1].pid
               PROVE  FALSE
    BY <1>4 DEF Listed
  <2>1. i + 1 \in 1 .. n /\ i + 1 # 1
    BY <1>1
  <2> QED BY <1>1, <1>4, <2>1 DEF TimedList, OneEach
<1>8. q[1] \in Members(q)
  BY <1>1 DEF Members, TimedList
<1>9. ASSUME NEW e \in Members(q) PROVE q[1].time <= e.time
  <2>1. PICK j \in 1 .. n : e = q[j]
    BY <1>1 DEF Members
  <2>2. CASE j = 1
    BY <1>1, <2>1, <2>2
  <2>3. CASE 1 < j
    BY <1>1, <2>1, <2>3 DEF TimedList, InTime
  <2> QED BY <1>1, <2>1, <2>2, <2>3
<1>10. TimedList(r, T)
  BY <1>3, <1>5, <1>6 DEF TimedList
<1> QED BY <1>3, <1>7, <1>8, <1>9, <1>10 DEF r

LEMMA ListedIs ==
  ASSUME NEW q, NEW h, NEW p
  PROVE  Listed(q, h, p) <=> \E e \in Members(q) : e.handler = h /\ e.pid = p
BY DEF Listed, Members

-----------------------------------------------------------------------------
(* Sequences and whole numbers *)

\* a is somewhere before b in the queue q.
Sooner(q, a, b) == \E i, j \in DOMAIN q : i < j /\ q[i] = a /\ q[j] = b

\* A queue that begins at its element f and goes on from its start: no task that
\* was not moved has another one before it that was, or that it did not have.
LEMMA RotationIs ==
  ASSUME NEW S, NEW q \in Seq(S), Distinct(q), NEW f \in 1 .. Len(q)
  PROVE  LET r == SubSeq(q, f, Len(q)) \o SubSeq(q, 1, f - 1)
         IN  /\ r \in Seq(S) /\ Distinct(r) /\ Members(r) = Members(q)
             /\ LET moved == {q[j] : j \in 1 .. f - 1}
                IN  \A x, y : y \notin moved /\ Sooner(r, x, y) => x \notin moved /\ Sooner(q, x, y)
<1> DEFINE n == Len(q)
           a == SubSeq(q, f, n)
           b == SubSeq(q, 1, f - 1)
           r == a \o b
           m == n - f + 1
           g(i) == IF i <= m THEN f + i - 1 ELSE i - m
<1>1. n \in Nat /\ DOMAIN q = 1 .. n /\ \A i \in 1 .. n : q[i] \in S
  OBVIOUS
<1>2. f \in Nat /\ f >= 1 /\ f <= n /\ m \in Nat /\ m >= 1 /\ m <= n
  BY <1>1
<1>3. a \in Seq(S) /\ Len(a) = m /\ \A i \in 1 .. m : a[i] = q[f + i - 1]
  <2>1. \A i \in f .. n : q[i] \in S
    BY <1>1, <1>2
  <2>2. /\ a \in Seq(S) /\ Len(a) = IF f <= n THEN n - f + 1 ELSE 0
        /\ \A i \in 1 .. n - f + 1 : a[i] = q[f + i - 1]
    BY <1>1, <1>2, <2>1, SubSeqProperties
  <2> HIDE DEF a
  <2> QED BY <1>2, <2>2
<1>4. b \in Seq(S) /\ Len(b) = f - 1 /\ \A i \in 1 .. f - 1 : b[i] = q[i]
  <2>1. \A i \in 1 .. f - 1 : q[i] \in S
    BY <1>1, <1>2
  <2>2. /\ b \in Seq(S) /\ Len(b) = IF 1 <= f - 1 THEN f - 1 - 1 + 1 ELSE 0
        /\ \A i \in 1 .. f - 1 - 1 + 1 : b[i] = q[1 + i - 1]
    BY <1>1, <1>2, <2>1, SubSeqProperties
  <2> HIDE DEF b
  <2>3. Len(b) = f - 1
    BY <1>2, <2>2
  <2>4. ASSUME NEW i \in 1 .. f - 1 PROVE b[i] = q[i]
    <3>1. i \in 1 .. f - 1 - 1 + 1 /\ 1 + i - 1 = i
      BY <1>2
    <3>2. b[i] = q[1 + i - 1]
      BY <2>2, <3>1
    <3> QED BY <3>1, <3>2
  <2> QED BY <2>2, <2>3, <2>4
<1> HIDE DEF a, b
<1>5. /\ r \in Seq(S) /\ Len(r) = m + (f - 1)
      /\ \A i \in 1 .. m + (f - 1) : r[i] = IF i <= m THEN a[i] ELSE b[i - m]
  BY <1>3, <1>4, ConcatProperties
<1> HIDE DEF r
<1>6. Len(r) = n /\ DOMAIN r = 1 .. n
  BY <1>1, <1>2, <1>5 DEF m
<1>7. \A i \in 1 .. n : g(i) \in 1 .. n /\ r[i] = q[g(i)]
  <2> SUFFICES ASSUME NEW i \in 1 .. n PROVE g(i) \in 1 .. n /\ r[i] = q[g(i)]
    OBVIOUS
  <2>1. i \in 1 .. m + (f - 1)
    BY <1>1, <1>2 DEF m
  <2>2. CASE i <= m
    <3>1. i \in 1 .. m /\ g(i) = f + i - 1 /\ g(i) \in 1 .. n
      BY <1>1, <1>2, <2>2 DEF m
    <3> HIDE DEF g
    <3> QED BY <1>3, <1>5, <2>1, <2>2, <3>1
  <2>3. CASE ~(i <= m)
    <3>1. i - m \in 1 .. f - 1 /\ g(i) = i - m /\ g(i) \in 1 .. n
      BY <1>1, <1>2, <2>3 DEF m
    <3> HIDE DEF g
    <3> QED BY <1>4, <1>5, <2>1, <2>3, <3>1
  <2> QED BY <2>2, <2>3
<1>8. \A i, j \in 1 .. n : g(i) = g(j) => i = j
  BY <1>1, <1>2 DEF m
<1>9. \A j \in 1 .. n : \E i \in 1 .. n : g(i) = j
  <2> SUFFICES ASSUME NEW j \in 1 .. n PROVE \E i \in 1 .. n : g(i) = j
    OBVIOUS
  <2>1. CASE j >= f
    <3>1. j - f + 1 \in 1 .. n /\ g(j - f + 1) = j
      BY <1>1, <1>2, <2>1 DEF m
    <3> QED BY <3>1
  <2>2. CASE j < f
    <3>1. j + m \in 1 .. n /\ g(j + m) = j
      BY <1>1, <1>2, <2>2 DEF m
    <3> QED BY <3>1
  <2> QED BY <1>1, <1>2, <2>1, <2>2
<1>14. ASSUME NEW x, NEW y, y \notin {q[j] : j \in 1 .. f - 1}, Sooner(r, x, y)
       PROVE  x \notin {q[j] : j \in 1 .. f - 1} /\ Sooner(q, x, y)
  <2>1. PICK i \in 1 .. n, j \in 1 .. n : i < j /\ r[i] = x /\ r[j] = y
    BY <1>6, <1>14 DEF Sooner
  <2>2. ASSUME j > m PROVE FALSE
    <3>1. g(j) \in 1 .. f - 1
      BY <1>1, <1>2, <2>2 DEF m
    <3> QED BY <1>7, <1>14, <2>1, <3>1
  <2>3. g(i) < g(j) /\ g(i) >= f
    BY <1>1, <1>2, <2>1, <2>2 DEF m
  <2> HIDE DEF g
  <2>4. Sooner(q, x, y)
    BY <1>1, <1>7, <2>1, <2>3 DEF Sooner
  <2>5. \A h \in 1 .. f - 1 : h \in 1 .. n /\ h # g(i)
    BY <1>1, <1>2, <2>3
  <2>6. x = q[g(i)] /\ g(i) \in 1 .. n
    BY <1>7, <2>1
  <2> QED BY <1>1, <2>4, <2>5, <2>6 DEF Distinct
<1> HIDE DEF g, n, m
<1>10. Distinct(r)
  BY <1>1, <1>6, <1>7, <1>8 DEF Distinct
<1>11. \A x : x \in Members(r) <=> x \in Members(q)
  <2>1. ASSUME NEW x \in Members(r) PROVE x \in Members(q)
    BY <1>1, <1>6, <1>7 DEF Members
  <2>2. ASSUME NEW x \in Members(q) PROVE x \in Members(r)
    <3>1. PICK j \in 1 .. n : x = q[j]
      BY <1>1 DEF Members
    <3>2. PICK i \in 1 .. n : g(i) = j
      BY <1>9, <3>1
    <3>3. r[i] = x /\ i \in DOMAIN r
      BY <1>6, <1>7, <3>1, <3>2
    <3> QED BY <3>3 DEF Members
  <2> QED BY <2>1, <2>2, Zenon
<1>12. Members(r) = Members(q)
  BY <1>11
<1>13. r \in Seq(S)
  BY <1>5
<1> QED BY <1>10, <1>12, <1>13, <1>14 DEF r, a, b, n

\* The first element, and when there is none.
LEMMA HeadMember ==
  ASSUME NEW S, NEW q \in Seq(S), q # <<>>
  PROVE  Head(q) = q[1] /\ Head(q) \in Members(q) /\ Head(q) \in S /\ 1 \in DOMAIN q
<1>1. Len(q) \in Nat /\ Len(q) > 0 /\ DOMAIN q = 1 .. Len(q) /\ Head(q) = q[1]
  OBVIOUS
<1>2. 1 \in DOMAIN q /\ q[1] \in S
  BY <1>1
<1> QED BY <1>1, <1>2 DEF Members

LEMMA EmptyMembers ==
  ASSUME NEW S, NEW q \in Seq(S)
  PROVE  q = <<>> <=> Members(q) = {}
<1>1. Len(q) \in Nat /\ DOMAIN q = 1 .. Len(q)
  OBVIOUS
<1>2. q = <<>> <=> Len(q) = 0
  BY EmptySeq
<1>3. Len(q) = 0 => Members(q) = {}
  BY <1>1 DEF Members
<1>4. Len(q) # 0 => q[1] \in Members(q)
  BY <1>1 DEF Members
<1> QED BY <1>2, <1>3, <1>4

\* The only multiple of T among the T last numbers up to n * T.
LEMMA LastMultiple ==
  ASSUME NEW T \in Int, T > 0, NEW n \in Int, NEW c \in Int, n * T - T < c, c <= n * T
  PROVE  c % T = 0 <=> c = n * T
<1> DEFINE r == c \div T
           m == c % T
<1>1. r \in Int /\ m \in Int /\ c = T * r + m /\ 0 <= m /\ m < T  OBVIOUS
<1> HIDE DEF r, m
<1>2. n * T = T * n /\ T * (n - 1) = T * n - T /\ T * n \in Int /\ T * r \in Int  BY <1>1
<1>3. r <= n
  <2> SUFFICES ASSUME n + 1 <= r PROVE FALSE  BY <1>1
  <2> QED BY <1>1, <1>2
<1>4. r < n => m # 0 /\ c # n * T
  <2> SUFFICES ASSUME r <= n - 1 PROVE m # 0 /\ c # n * T  BY <1>1
  <2> QED BY <1>1, <1>2
<1> QED BY <1>1, <1>2, <1>3, <1>4 DEF m

\* Whole quotients.
LEMMA DivIs ==
  ASSUME NEW T \in Int, T > 0, NEW q \in Nat, NEW a \in Int, q * T <= a, a < q * T + T
  PROVE  a \div T = q
<1> DEFINE r == a \div T
           m == a % T
<1>1. r \in Int /\ m \in Int /\ a = T * r + m /\ 0 <= m /\ m < T
  OBVIOUS
<1> HIDE DEF r, m
<1>2. ASSUME r < q PROVE FALSE
  <2>1. r + 1 <= q
    BY <1>1, <1>2
  <2>2. T * (r + 1) <= T * q
    BY <1>1, <2>1
  <2>3. T * (r + 1) = T * r + T /\ T * q = q * T
    BY <1>1
  <2> QED BY <1>1, <2>2, <2>3
<1>3. ASSUME r > q PROVE FALSE
  <2>1. q + 1 <= r
    BY <1>1, <1>3
  <2>2. T * (q + 1) <= T * r
    BY <1>1, <2>1
  <2>3. T * (q + 1) = T * q + T /\ T * q = q * T
    BY <1>1
  <2> QED BY <1>1, <2>2, <2>3
<1> QED BY <1>1, <1>2, <1>3 DEF r

LEMMA TurnsIs ==
  ASSUME NEW a \in Int, NEW w \in Int, w > 0
  PROVE  (IF a > 0 THEN 0 ELSE (-a) \div w + 1) \in Nat
<1>1. ASSUME ~(a > 0) PROVE (-a) \div w \in Nat
  <2>1. -a \in Int /\ -a >= 0
    BY <1>1
  <2> QED BY <2>1
<1> QED BY <1>1

\* Slices are given to a task that has no time left, until it has some.
LEMMA TurnsGive ==
  ASSUME NEW a \in Int, NEW w \in Int, w > 0, NEW n \in Nat,
         n <= IF a > 0 THEN 0 ELSE (-a) \div w + 1
  PROVE  /\ a <= w => a + n * w <= w
         /\ n = 0 => a + n * w = a
         /\ n > 0 => a + n * w > a
<1> DEFINE o == (-a) \div w
           m == (-a) % w
<1>1. o \in Int /\ m \in Int /\ -a = w * o + m /\ 0 <= m /\ m < w
  BY DEF o, m
<1> HIDE DEF o, m
<1>2. n > 0 => n * w >= w
  <2>1. n > 0 => \E h \in Nat : n = h + 1
    <3>1. n > 0 => n - 1 \in Nat /\ n = (n - 1) + 1
      OBVIOUS
    <3> QED BY <3>1
  <2> SUFFICES ASSUME NEW h \in Nat PROVE (h + 1) * w >= w
    BY <2>1
  <2>2. (h + 1) * w = h * w + w /\ h * w >= 0
    OBVIOUS
  <2> QED BY <2>2
<1>3. n = 0 => n * w = 0
  OBVIOUS
<1>4. ~(a > 0) => n * w <= w * o + w
  <2> SUFFICES ASSUME n <= o + 1 PROVE n * w <= w * o + w
    BY DEF o
  <2>1. n * w <= (o + 1) * w /\ (o + 1) * w = w * o + w
    BY <1>1
  <2> QED BY <2>1
<1> DEFINE b == n * w
           c == w * o
<1>5. b \in Int /\ c \in Int
  BY <1>1
<1>6. a > 0 => n = 0
  OBVIOUS
<1>7. (n > 0 => b >= w) /\ (n = 0 => b = 0) /\ (~(a > 0) => b <= c + w) /\ -a = c + m
  BY <1>1, <1>2, <1>3, <1>4
<1> HIDE DEF b, c
<1>8. (a <= w => a + b <= w) /\ (n = 0 => a + b = a) /\ (n > 0 => a + b > a)
  BY <1>1, <1>5, <1>6, <1>7
<1> QED BY <1>8 DEF b

-----------------------------------------------------------------------------
(* The order of a queue                                                    *)

LEMMA BeforeMembers ==
  ASSUME NEW q, NEW a, NEW b, Sooner(q, a, b)
  PROVE  a \in Members(q) /\ b \in Members(q)
BY DEF Sooner, Members

LEMMA HeadBefore ==
  ASSUME NEW S, NEW q \in Seq(S), q # <<>>, NEW b \in Members(q), b # Head(q)
  PROVE  Sooner(q, Head(q), b)
<1>1. PICK j \in DOMAIN q : b = q[j]
  BY DEF Members
<1>2. 1 \in DOMAIN q /\ Head(q) = q[1] /\ DOMAIN q = 1 .. Len(q) /\ Len(q) \in Nat
  BY HeadMember
<1>3. 1 < j
  BY <1>1, <1>2
<1> QED BY <1>1, <1>2, <1>3 DEF Sooner

\* Insertions at an end and extractions change no order of the others.
LEMMA BeforeLast ==
  ASSUME NEW S, NEW q \in Seq(S), NEW p \in S, NEW a, NEW b, b # p,
         Sooner(InsertLast(p, q), a, b)
  PROVE  Sooner(q, a, b)
<1> DEFINE r == InsertLast(p, q)
<1>1. /\ Len(q) \in Nat /\ DOMAIN q = 1 .. Len(q) /\ DOMAIN r = 1 .. Len(q) + 1
      /\ \A i \in 1 .. Len(q) : r[i] = q[i]
      /\ r[Len(q) + 1] = p
  BY DEF InsertLast
<1> HIDE DEF r
<1>2. PICK i \in DOMAIN r, j \in DOMAIN r : i < j /\ r[i] = a /\ r[j] = b
  BY DEF Sooner, r
<1>3. j # Len(q) + 1
  BY <1>1, <1>2
<1>4. i \in 1 .. Len(q) /\ j \in 1 .. Len(q)
  BY <1>1, <1>2, <1>3
<1> QED BY <1>1, <1>2, <1>4 DEF Sooner

LEMMA BeforeFirst ==
  ASSUME NEW S, NEW q \in Seq(S), NEW p \in S, NEW a, NEW b, a # p, b # p,
         Sooner(InsertFirst(p, q), a, b)
  PROVE  Sooner(q, a, b)
<1> DEFINE r == InsertFirst(p, q)
<1>1. /\ Len(q) \in Nat /\ DOMAIN q = 1 .. Len(q) /\ DOMAIN r = 1 .. Len(q) + 1
      /\ r[1] = p
      /\ \A i \in 1 .. Len(q) : r[i + 1] = q[i]
  BY DEF InsertFirst
<1> HIDE DEF r
<1>2. PICK i \in DOMAIN r, j \in DOMAIN r : i < j /\ r[i] = a /\ r[j] = b
  BY DEF Sooner, r
<1>3. i - 1 \in 1 .. Len(q) /\ j - 1 \in 1 .. Len(q) /\ i - 1 < j - 1
  BY <1>1, <1>2
<1>4. r[(i - 1) + 1] = q[i - 1] /\ r[(j - 1) + 1] = q[j - 1]
  BY <1>1, <1>3
<1>5. (i - 1) + 1 = i /\ (j - 1) + 1 = j
  BY <1>1, <1>2
<1>6. q[i - 1] = a /\ q[j - 1] = b
  BY <1>2, <1>4, <1>5
<1> QED BY <1>1, <1>3, <1>6 DEF Sooner

LEMMA BeforeExtract ==
  ASSUME NEW S, NEW q \in Seq(S), NEW p \in Members(q), NEW a, NEW b,
         Sooner(Extract(p, q), a, b)
  PROVE  Sooner(q, a, b)
<1> DEFINE r == Extract(p, q)
           m == Position(p, q)
           n == Len(q)
           g(i) == IF i < m THEN i ELSE i + 1
<1>1. n \in Nat /\ DOMAIN q = 1 .. n
  OBVIOUS
<1>2. m \in 1 .. n
  BY <1>1 DEF Position, Members
<1>3. DOMAIN r = 1 .. n - 1 /\ \A i \in 1 .. n - 1 : r[i] = q[g(i)] /\ g(i) \in 1 .. n
  BY <1>1, <1>2 DEF Extract
<1> HIDE DEF r, m, n
<1>4. \A i, j \in 1 .. n - 1 : i < j => g(i) < g(j)
  BY <1>1, <1>2
<1> HIDE DEF g
<1>5. PICK i \in 1 .. n - 1, j \in 1 .. n - 1 : i < j /\ r[i] = a /\ r[j] = b
  BY <1>3 DEF Sooner, r
<1> QED BY <1>1, <1>3, <1>4, <1>5 DEF Sooner

-----------------------------------------------------------------------------
(* Sums that are compared term by term                                     *)

LEMMA BundleFinite ==
  ASSUME NEW S, IsFiniteSet(S), NEW g, \A t \in S : g[t] \in Int
  PROVE  IsFiniteSet(Bundle(S, g))
<1> DEFINE T == {{t} \X (1 .. g[t]) : t \in S}
           f == [t \in S |-> {t} \X (1 .. g[t])]
<1>1. f \in Surjection(S, T)
  BY DEF Surjection
<1>2. IsFiniteSet(T)
  BY <1>1, FS_Surjection
<1>3. ASSUME NEW B \in T PROVE IsFiniteSet(B)
  <2>1. PICK t \in S : B = {t} \X (1 .. g[t])
    OBVIOUS
  <2>2. IsFiniteSet({t})
    BY FS_Singleton
  <2>3. IsFiniteSet(1 .. g[t])
    <3>1. g[t] \in Int /\ 1 \in Int
      OBVIOUS
    <3> QED BY <3>1, FS_Interval
  <2> QED BY <2>1, <2>2, <2>3, FS_Product
<1> HIDE DEF T
<1>4. IsFiniteSet(UNION T)
  BY <1>2, <1>3, FS_UNION
<1> QED BY <1>4 DEF Bundle, T

\* What is not more in any term, but for those of no size, is not more in all.
NotMore(a, b) == a <= b \/ a <= 0

LEMMA SumMono ==
  ASSUME NEW S, IsFiniteSet(S), NEW f, NEW g,
         \A t \in S : f[t] \in Int /\ g[t] \in Int /\ NotMore(f[t], g[t])
  PROVE  SumOf(f, S) \in Nat /\ SumOf(g, S) \in Nat /\ SumOf(f, S) <= SumOf(g, S)
<1>1. Bundle(S, f) \subseteq Bundle(S, g)
  <2> SUFFICES ASSUME NEW x \in Bundle(S, f) PROVE x \in Bundle(S, g)
    OBVIOUS
  <2>1. PICK t \in S : \E i \in 1 .. f[t] : x = <<t, i>>
    BY DEF Bundle
  <2>2. \A i \in 1 .. f[t] : i \in 1 .. g[t]
    BY DEF NotMore
  <2> QED BY <2>1, <2>2 DEF Bundle
<1>2. IsFiniteSet(Bundle(S, f)) /\ IsFiniteSet(Bundle(S, g))
  BY BundleFinite
<1> QED BY <1>1, <1>2, FS_Subset, FS_CardinalityType DEF SumOf

\* It is less by one if one term is.
LEMMA SumDrop ==
  ASSUME NEW S, IsFiniteSet(S), NEW f, NEW g, NEW x \in S, g[x] \in Int, g[x] >= 1, f[x] = g[x] - 1,
         \A t \in S : f[t] \in Int /\ g[t] \in Int /\ NotMore(f[t], g[t])
  PROVE  SumOf(f, S) + 1 <= SumOf(g, S)
<1> DEFINE F == Bundle(S, f)
           G == Bundle(S, g)
           u == <<x, g[x]>>
<1>1. u \in G /\ u \notin F
  <2>1. g[x] \in 1 .. g[x] /\ g[x] \notin 1 .. f[x]
    OBVIOUS
  <2> QED BY <2>1 DEF Bundle
<1>2. F \subseteq G
  <2> SUFFICES ASSUME NEW y \in F PROVE y \in G
    OBVIOUS
  <2>1. PICK t \in S : \E i \in 1 .. f[t] : y = <<t, i>>
    BY DEF Bundle
  <2>2. \A i \in 1 .. f[t] : i \in 1 .. g[t]
    BY DEF NotMore
  <2> QED BY <2>1, <2>2 DEF Bundle
<1>3. IsFiniteSet(F) /\ IsFiniteSet(G)
  BY BundleFinite
<1> HIDE DEF F, G, u
<1>4. Cardinality(F \cup {u}) = Cardinality(F) + 1 /\ F \cup {u} \subseteq G
  BY <1>1, <1>2, <1>3, FS_AddElement
<1>5. Cardinality(F \cup {u}) <= Cardinality(G)
  BY <1>3, <1>4, FS_Subset
<1> QED BY <1>4, <1>5 DEF SumOf, F, G
=============================================================================
