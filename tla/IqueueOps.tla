----------------------------- MODULE IqueueOps -----------------------------
(***************************************************************************)
(* The task queues of kernel/iqueue.c (IQUEUE), seen as sequences of       *)
(* distinct task identifiers, head first.  The next/prev arrays that hold  *)
(* them in the code are abstracted to the order they give.                 *)
(***************************************************************************)
EXTENDS Integers, Sequences

\* The tasks in a queue.
Members(q) == {q[i] : i \in DOMAIN q}

\* No task is linked twice in the same queue.
Distinct(q) == \A i, j \in DOMAIN q : q[i] = q[j] => i = j

\* iq_insertfirst, iq_insertlast
InsertFirst(p, q) == <<p>> \o q
InsertLast(p, q) == Append(q, p)

\* iq_extract: unlink p, wherever it is.
Position(p, q) == CHOOSE i \in DOMAIN q : q[i] = p
Extract(p, q) ==
  LET k == Position(p, q)
  IN  [i \in 1 .. Len(q) - 1 |-> IF i < k THEN q[i] ELSE q[i + 1]]

\* The queue left when its first k tasks have been extracted one by one.
DropFirst(k, q) == [i \in 1 .. Len(q) - k |-> q[i + k]]

\* iq_priority_insert and iq_timespec_insert: p goes before the first task
\* whose key is larger than its own, so tasks of equal key stay in FIFO order.
InsertByKey(p, q, key) ==
  LET k == CHOOSE k \in 0 .. Len(q) :
             /\ \A j \in 1 .. k : key[q[j]] <= key[p]
             /\ k < Len(q) => key[q[k + 1]] > key[p]
  IN  SubSeq(q, 1, k) \o <<p>> \o SubSeq(q, k + 1, Len(q))
=============================================================================
