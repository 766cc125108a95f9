----------------------------- MODULE TaskLife ------------------------------
(***************************************************************************)
(* The life cycle of task descriptors: creation (kernel/grpcreat.c), end   *)
(* and cancellation (kernel/kill.c, kernel/cancel.c), join (kernel/join.c) *)
(* and the queue of free descriptors, for tasks of the round robin level   *)
(* (modules/rr/rr.c).  proc_table[p].<field> is the variable <field> at p. *)
(*                                                                         *)
(* A primitive is atomic, with three exceptions that are actions of their  *)
(* own: what task_join does before it disables interrupts, what it does    *)
(* after it has been blocked, and the cleanup handlers that task_makefree  *)
(* runs with interrupts enabled.                                           *)
(***************************************************************************)
EXTENDS IqueueOps, FiniteSets

\* The bound on task_makefree activations of one task: two are enough to see
\* that it runs twice.
MaxEndings == 2

CONSTANTS
  Pids,          \* the task descriptors
  NIL,           \* no task
  JoinableHandlers, \* TRUE if joinable tasks push cleanup handlers
  SingleJoiner,     \* TRUE if callers never join one task from two others
  CancelStates      \* what tasks pass to task_setcancelstate (TRUE = enable)

ASSUME TaskLifeAssumption ==
  /\ IsFiniteSet(Pids) /\ NIL \notin Pids
  /\ {JoinableHandlers, SingleJoiner} \subseteq BOOLEAN
  /\ CancelStates \subseteq BOOLEAN

VARIABLES
  status,           \* FREE, SLEEP, READY (or EXE) or WAIT_JOIN
  shadow,           \* shadow[p] # p: p has left its place to another task
  waiting_for_me,   \* the task blocked in task_join on p
  joinable,         \* TASK_JOINABLE
  wait_for_join,    \* WAIT_FOR_JOIN: p has ended and was not joined yet
  discarded,        \* DESCRIPTOR_DISCARDED: ... and is not in freedesc
  killreq, enabled, \* KILL_REQUEST, KILL_ENABLED
  cleanup,          \* p has a cleanup handler pushed
  freedesc,         \* the queue of free descriptors
  phase,            \* where p is: its own code, task_join, cleanup handler
  target,           \* the argument of the task_join p is in
  ending,           \* the activations of task_makefree of p in progress
  raised            \* XINVALID_KILL_SHADOW was raised, the system stops

controlVars == <<joinable, wait_for_join, discarded>>
cancelVars == <<killreq, enabled, cleanup>>
callVars == <<phase, target>>
vars == <<status, shadow, waiting_for_me, controlVars, cancelVars, freedesc,
          callVars, ending, raised>>

\* __kernel_init__ leaves one task running and the other descriptors free.
Init ==
  \E main \in Pids, q \in [1 .. Cardinality(Pids) - 1 -> Pids] :
    /\ Distinct(q) /\ Members(q) = Pids \ {main}
    /\ freedesc = q
    /\ status = [p \in Pids |-> IF p = main THEN "READY" ELSE "FREE"]
    /\ shadow = [p \in Pids |-> p]
    /\ waiting_for_me = [p \in Pids |-> NIL]
    /\ joinable = [p \in Pids |-> FALSE]
    /\ wait_for_join = [p \in Pids |-> FALSE]
    /\ discarded = [p \in Pids |-> FALSE]
    /\ killreq = [p \in Pids |-> FALSE]
    /\ enabled = [p \in Pids |-> TRUE]
    /\ cleanup = [p \in Pids |-> FALSE]
    /\ phase = [p \in Pids |-> "user"]
    /\ target = [p \in Pids |-> NIL]
    /\ ending = [p \in Pids |-> 0]
    /\ raised = FALSE

Running(x, where) == ~raised /\ status[x] = "READY" /\ phase[x] = where

-----------------------------------------------------------------------------
(* Creation and activation *)

\* Mutant: a zombie's descriptor is taken like any other.
Available_zombies(k) == k \in DOMAIN freedesc /\ k = 1
\* internal_create_init: the k-th free descriptor is the first usable one.
Available(k) ==
  /\ k \in DOMAIN freedesc
  /\ ~wait_for_join[freedesc[k]]
  /\ \A j \in 1 .. k - 1 : wait_for_join[freedesc[j]]

\* The zombies in front of it lose their place in the queue.
Skipped(k) == {freedesc[j] : j \in 1 .. k - 1}
\* Mutant: internal_create_init does not reset the control word.
Discard_sticky(k, taken) ==
  discarded' = [p \in Pids |-> discarded[p] \/ p \in Skipped(k)]
Discard(k, taken) ==
  discarded' = [p \in Pids |-> /\ p \notin taken
                               /\ discarded[p] \/ p \in Skipped(k)]

\* internal_create_init fills the descriptor p.
Fill(p, j) ==
  /\ joinable' = [joinable EXCEPT ![p] = j]
  /\ wait_for_join' = [wait_for_join EXCEPT ![p] = FALSE]
  /\ killreq' = [killreq EXCEPT ![p] = FALSE]
  /\ enabled' = [enabled EXCEPT ![p] = TRUE]
  /\ cleanup' = [cleanup EXCEPT ![p] = FALSE]
  /\ shadow' = [shadow EXCEPT ![p] = p]
  /\ waiting_for_me' = [waiting_for_me EXCEPT ![p] = NIL]
  /\ UNCHANGED <<callVars, ending, raised>>

\* task_createn: the new task sleeps ...
task_createn(c, j) ==
  /\ Running(c, "user")
  /\ \E k \in DOMAIN freedesc :
       /\ Available(k)
       /\ Discard(k, {freedesc[k]})
       /\ Fill(freedesc[k], j)
       /\ status' = [status EXCEPT ![freedesc[k]] = "SLEEP"]
       /\ freedesc' = DropFirst(k, freedesc)

\* ... or, when no level or resource accepts it or the guarantee fails, the
\* descriptor is put back in front (group_create_reject).
task_createn_rejected(c, j) ==
  /\ Running(c, "user")
  /\ \E k \in DOMAIN freedesc :
       /\ Available(k)
       /\ Discard(k, {freedesc[k]})
       /\ Fill(freedesc[k], j)
       /\ freedesc' = InsertFirst(freedesc[k], DropFirst(k, freedesc))
       /\ UNCHANGED status

\* No descriptor can be used: ENO_AVAIL_TASK, after all have been discarded.
task_createn_none(c) ==
  /\ Running(c, "user")
  /\ \A k \in DOMAIN freedesc : wait_for_join[freedesc[k]]
  /\ Discard(Len(freedesc) + 1, {})
  /\ freedesc' = <<>>
  /\ UNCHANGED <<status, shadow, waiting_for_me, joinable,
                 wait_for_join, cancelVars, callVars, ending, raised>>

\* task_activate: only a sleeping task is made ready.
task_activate(c, p) ==
  /\ Running(c, "user")
  /\ status[p] = "SLEEP"
  /\ status' = [status EXCEPT ![p] = "READY"]
  /\ UNCHANGED <<shadow, waiting_for_me, controlVars, cancelVars, freedesc,
                 callVars, ending, raised>>

-----------------------------------------------------------------------------
(* The end of a task *)

Cancelled(x) == killreq[x] /\ enabled[x]

\* The joiner that the end of x makes ready.
Joiner(x) ==
  IF joinable[x] /\ waiting_for_me[x] # NIL THEN {waiting_for_me[x]} ELSE {}

\* The last part of task_makefree, without interrupts: public_end.
Finish(x, stat) ==
  /\ status' = [stat EXCEPT ![x] = "FREE"]
  /\ freedesc' = InsertLast(x, freedesc)
  /\ phase' = [phase EXCEPT ![x] = "user"]
  /\ target' = [target EXCEPT ![x] = NIL]
  /\ ending' = [ending EXCEPT ![x] = 0]

\* task_makefree(x), from testcancel, task_abort or the end of the body.
Makefree(x) ==
  LET w == Joiner(x)
      stat == [p \in Pids |-> IF p \in w THEN "READY" ELSE status[p]]
      shad == [p \in Pids |-> IF p \in w THEN p ELSE shadow[p]]
  IN  /\ wait_for_join' = [wait_for_join EXCEPT ![x] = @ \/ joinable[x]]
      /\ shadow' = shad
      /\ raised' = (\E p \in Pids \ {x} : shad[p] = x)
      /\ IF raised'
           THEN status' = stat /\ UNCHANGED <<freedesc, callVars, ending>>
           ELSE IF cleanup[x]
           THEN /\ status' = stat
                /\ phase' = [phase EXCEPT ![x] = "cleanup"]
                /\ ending' = [ending EXCEPT ![x] = @ + 1]
                /\ UNCHANGED <<freedesc, target>>
           ELSE Finish(x, stat)
      /\ UNCHANGED <<waiting_for_me, joinable, discarded, cancelVars>>

\* The body returns or calls task_abort or task_testcancel.
task_end(x) == Running(x, "user") /\ Makefree(x)

\* The cleanup handler returns; it is popped, and task_makefree goes on.
cleanup_end(x) ==
  /\ Running(x, "cleanup")
  /\ cleanup' = [cleanup EXCEPT ![x] = FALSE]
  /\ Finish(x, status)
  /\ UNCHANGED <<shadow, waiting_for_me, controlVars, killreq, enabled, raised>>

\* The cleanup handler calls a primitive that is a cancellation point.
cleanup_testcancel(x) ==
  /\ Running(x, "cleanup") /\ Cancelled(x) /\ ending[x] < MaxEndings
  /\ Makefree(x)

\* task_cleanup_push and task_cleanup_pop.
task_cleanup(x, b) ==
  /\ Running(x, "user")
  /\ b /\ joinable[x] => JoinableHandlers
  /\ cleanup' = [cleanup EXCEPT ![x] = b]
  /\ UNCHANGED <<status, shadow, waiting_for_me, controlVars, killreq, enabled,
                 freedesc, callVars, ending, raised>>

task_setcancelstate(x, state) ==
  /\ Running(x, "user")
  /\ enabled' = [enabled EXCEPT ![x] = state]
  /\ UNCHANGED <<status, shadow, waiting_for_me, controlVars, killreq, cleanup,
                 freedesc, callVars, ending, raised>>

\* task_kill of i by k; a joiner is released by taskjoin_cancellation_point.
task_kill(k, i) ==
  /\ Running(k, "user")
  /\ status[i] # "FREE" /\ ~killreq[i]
  /\ killreq' = [killreq EXCEPT ![i] = TRUE]
  /\ IF status[i] = "WAIT_JOIN"
       THEN /\ waiting_for_me' = [waiting_for_me EXCEPT ![shadow[i]] = NIL]
            /\ shadow' = [shadow EXCEPT ![i] = i]
            /\ status' = [status EXCEPT ![i] = "READY"]
       ELSE UNCHANGED <<waiting_for_me, shadow, status>>
  /\ UNCHANGED <<controlVars, enabled, cleanup, freedesc, callVars, ending,
                 raised>>

-----------------------------------------------------------------------------
(* Join *)

InJoin(y, p) == phase[y] \in {"entry", "wait"} /\ target[y] = p

\* task_join up to the point where interrupts are disabled.
task_join(x, p) ==
  /\ Running(x, "user")
  /\ SingleJoiner => \A y \in Pids : ~InJoin(y, p)
  /\ IF Cancelled(x) THEN Makefree(x)
     ELSE /\ status[p] # "FREE" \/ wait_for_join[p]    \* else ESRCH
          /\ joinable[p]                               \* else EINVAL
          /\ phase' = [phase EXCEPT ![x] = "entry"]
          /\ target' = [target EXCEPT ![x] = p]
          /\ UNCHANGED <<status, shadow, waiting_for_me, controlVars,
                         cancelVars, freedesc, ending, raised>>

\* Mutant: only the immediate shadow is looked at.
ShadowChain_one_hop(p) == {shadow[p]}
\* The tasks that the deadlock check visits, starting behind p: the smallest set
\* with the shadow of p and the shadow of each of its members.
ShadowChain(p) ==
  {e \in Pids : \A C \in SUBSET Pids :
     shadow[p] \in C /\ (\A q \in C : shadow[q] \in C) => e \in C}

LeaveJoin(x) ==
  /\ phase' = [phase EXCEPT ![x] = "user"]
  /\ target' = [target EXCEPT ![x] = NIL]

\* The last part of task_join: p has ended, its descriptor can be reused.
Reap(x, p) ==
  /\ wait_for_join' = [wait_for_join EXCEPT ![p] = FALSE]
  /\ freedesc' = IF discarded[p] THEN InsertFirst(p, freedesc) ELSE freedesc
  /\ LeaveJoin(x)
  /\ UNCHANGED <<status, shadow, waiting_for_me, joinable,
                 discarded, cancelVars, ending, raised>>

\* Mutant: the target does not learn who waits for it.
BlockOn_unknown(x, p) ==
  /\ shadow' = [shadow EXCEPT ![x] = p]
  /\ UNCHANGED waiting_for_me
BlockOn(x, p) ==
  /\ waiting_for_me' = [waiting_for_me EXCEPT ![p] = x]
  /\ shadow' = [shadow EXCEPT ![x] = p]

\* The protected part of task_join: EINVAL, EDEADLK, block, or reap at once.
task_join_body(x) ==
  LET p == target[x]
  IN  /\ Running(x, "entry")
      /\ IF waiting_for_me[p] # NIL \/ x \in ShadowChain(p)
           THEN /\ LeaveJoin(x)
                /\ UNCHANGED <<status, shadow, waiting_for_me, controlVars,
                               cancelVars, freedesc, ending, raised>>
         ELSE IF ~wait_for_join[p]
           THEN /\ BlockOn(x, p)
                /\ status' = [status EXCEPT ![x] = "WAIT_JOIN"]
                /\ phase' = [phase EXCEPT ![x] = "wait"]
                /\ UNCHANGED <<target, controlVars, cancelVars, freedesc,
                               ending, raised>>
         ELSE IF Cancelled(x) THEN Makefree(x) ELSE Reap(x, p)

\* Mutant: no task_testcancel behind the wait.
resume_join_untested(x) == Running(x, "wait") /\ Reap(x, target[x])
\* A joiner that was made ready: task_testcancel, then the last part.
resume_join(x) ==
  /\ Running(x, "wait")
  /\ IF Cancelled(x) THEN Makefree(x) ELSE Reap(x, target[x])

task_joinable(x, p) ==
  /\ Running(x, "user")
  /\ status[p] # "FREE"
  /\ cleanup[p] => JoinableHandlers
  /\ joinable' = [joinable EXCEPT ![p] = TRUE]
  /\ UNCHANGED <<status, shadow, waiting_for_me, wait_for_join, discarded,
                 cancelVars, freedesc, callVars, ending, raised>>

\* task_unjoinable succeeds, and sets the bit it should clear.
task_unjoinable(x, p) ==
  /\ Running(x, "user")
  /\ status[p] # "FREE" /\ joinable[p] /\ waiting_for_me[p] = NIL
  /\ joinable' = [joinable EXCEPT ![p] = TRUE]
  /\ UNCHANGED <<status, shadow, waiting_for_me, wait_for_join, discarded,
                 cancelVars, freedesc, callVars, ending, raised>>

-----------------------------------------------------------------------------
TaskStep(x) ==
  \/ \E j \in BOOLEAN : task_createn(x, j) \/ task_createn_rejected(x, j)
  \/ task_createn_none(x)
  \/ \E p \in Pids : \/ task_activate(x, p)
                     \/ task_kill(x, p)
                     \/ task_join(x, p)
                     \/ task_joinable(x, p)
                     \/ task_unjoinable(x, p)
  \/ task_join_body(x)
  \/ resume_join(x)
  \/ task_end(x)
  \/ cleanup_end(x)
  \/ cleanup_testcancel(x)
  \/ \E b \in BOOLEAN : task_cleanup(x, b)
  \/ \E state \in CancelStates : task_setcancelstate(x, state)

Next == \E x \in Pids : TaskStep(x)

Spec == Init /\ [][Next]_vars

-----------------------------------------------------------------------------
(* Properties *)

TypeOK ==
  /\ status \in [Pids -> {"FREE", "SLEEP", "READY", "WAIT_JOIN"}]
  /\ shadow \in [Pids -> Pids]
  /\ waiting_for_me \in [Pids -> Pids \cup {NIL}]
  /\ joinable \in [Pids -> BOOLEAN]
  /\ wait_for_join \in [Pids -> BOOLEAN]
  /\ discarded \in [Pids -> BOOLEAN]
  /\ killreq \in [Pids -> BOOLEAN]
  /\ enabled \in [Pids -> BOOLEAN]
  /\ cleanup \in [Pids -> BOOLEAN]
  /\ freedesc \in Seq(Pids)
  /\ phase \in [Pids -> {"user", "entry", "wait", "cleanup"}]
  /\ target \in [Pids -> Pids \cup {NIL}]
  /\ ending \in [Pids -> 0 .. MaxEndings]
  /\ raised \in BOOLEAN

\* Every free descriptor is in the free queue exactly once, unless it is a
\* zombie that task_createn has skipped: none is lost, none is allocated
\* twice, whatever joins, kills and creations are interleaved.
FreeQueueExact ==
  /\ TypeOK
  /\ Distinct(freedesc)
  /\ \A p \in Pids :
       p \in Members(freedesc) <=>
         status[p] = "FREE" /\ ~(discarded[p] /\ wait_for_join[p])

\* A descriptor is not given to a new task while a live task is waiting to
\* join the old one, or has ended its wait and has not collected the result.
ReuseStep ==
  \A p, x \in Pids :
    status[p] = "FREE" /\ status'[p] = "SLEEP" /\ phase[x] = "wait"
      /\ status[x] # "FREE" => target[x] # p
NotReusedUnderJoin == [][ReuseStep]_vars

JoinSucceeds(x) ==
  /\ phase'[x] = "user" /\ status'[x] = "READY"
  /\ \/ phase[x] = "wait"
     \/ /\ phase[x] = "entry"
        /\ waiting_for_me[target[x]] = NIL /\ x \notin ShadowChain(target[x])

\* task_join returns success only for a task that has ended, and whose result
\* nobody has collected.
JoinStep ==
  \A x \in Pids :
    JoinSucceeds(x) => wait_for_join[target[x]] /\ status[target[x]] = "FREE"
JoinSeesEnd == [][JoinStep]_vars

\* A task blocked in task_join is the one its target will wake, and its target
\* is alive; so no task ends as the shadow of another, which stops the system.
JoinTargetAlive ==
  /\ ~raised
  /\ \A x \in Pids : status[x] = "WAIT_JOIN" =>
       /\ status[target[x]] # "FREE"
       /\ waiting_for_me[target[x]] = x
       /\ shadow[x] = target[x]

\* The joins of blocked tasks never form a cycle, so the loops that follow
\* the shadows (task_join, scheduler) end.
NoShadowCycle ==
  ~\E C \in (SUBSET Pids) \ {{}} :
     \A p \in C : shadow[p] \in C /\ shadow[p] # p

=============================================================================
