------------------------------- MODULE SigPool -------------------------------
(***************************************************************************)
(* The descriptors of queued signals, sig_queue[] of kernel/signal.c.  A   *)
(* descriptor is in the free list, in the list of a signal, or reserved    *)
(* for a timer of kernel/time.c, which lends it to the list of its signal. *)
(* The operators work on a record:                                         *)
(*   pending    procsigpending                                             *)
(*   queued     the list sigqueued[s] of each signal                       *)
(*   free       the list sigqueue_free                                     *)
(*   reserved   the descriptors with USED_FOR_TIMER                        *)
(*   posted     those with SIGNAL_POSTED                                   *)
(*   info       what each was filled with: the number of its signal        *)
(***************************************************************************)
EXTENDS IqueueOps

CONSTANTS
  Signals,  \* their numbers
  Entries   \* the descriptors

ASSUME SignalNumbers == Signals \subseteq Nat \ {0}

\* ffs: the signal that is served first.
Lowest(S) == CHOOSE s \in S : \A r \in S : s <= r

\* The descriptor e has been read: it goes back to its timer or to the pool.
Release(p, e) ==
  IF e \in p.reserved THEN [p EXCEPT !.posted = @ \ {e}]
  ELSE [p EXCEPT !.free = InsertFirst(e, @)]

\* The first descriptor of s is taken; without one, s was sent with kill.
Dequeue(p, s) ==
  LET q == p.queued[s]
      p1 == IF Len(q) <= 1 THEN [p EXCEPT !.pending = @ \ {s}] ELSE p
  IN  IF q = <<>> THEN p1 ELSE Release([p1 EXCEPT !.queued[s] = Tail(q)], Head(q))

\* Mutant: the new descriptor is the first.
Enqueue_first(p, s, n) ==
  [p EXCEPT !.free = Tail(@), !.queued[s] = InsertFirst(Head(p.free), @),
            !.pending = @ \cup {s}, !.info[Head(p.free)] = n]
\* The first free descriptor is filled and becomes the last of s.
Enqueue(p, s, n) ==
  [p EXCEPT !.free = Tail(@), !.queued[s] = InsertLast(Head(p.free), @),
            !.pending = @ \cup {s}, !.info[Head(p.free)] = n]

\* sigaction forgets what is pending of a signal that is to be ignored.  Its
\* loop never advances the head of the list, so it is right for one descriptor.
Flush(p, s) ==
  LET p1 == [p EXCEPT !.queued[s] = <<>>, !.pending = @ \ {s}]
  IN  IF p.queued[s] = <<>> THEN p1 ELSE Release(p1, Head(p.queued[s]))

\* timer_create and timer_delete: a descriptor that is pending comes back to
\* the pool when it is delivered.
Reserve(p) == [p EXCEPT !.free = Tail(@), !.reserved = @ \cup {Head(p.free)}]
\* Mutant: it goes back at once.
Unreserve_pending(p, e) ==
  [p EXCEPT !.free = InsertFirst(e, @),
            !.reserved = @ \ {e}, !.posted = @ \ {e}]
Unreserve(p, e) ==
  [p EXCEPT !.free = IF e \in p.posted THEN @ ELSE InsertFirst(e, @),
            !.reserved = @ \ {e}, !.posted = @ \ {e}]
=============================================================================
