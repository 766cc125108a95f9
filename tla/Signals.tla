------------------------------- MODULE Signals -------------------------------
(***************************************************************************)
(* The signals of kernel/signal.c with the POSIX timers of kernel/time.c:  *)
(* signals for the process (kill, sigqueue, alarm, timers) and for a task, *)
(* masks and handlers, sigwait with and without a time-out, sigsuspend.    *)
(*                                                                         *)
(* The calls run with interrupts disabled, so each is one action of the    *)
(* running task, exec.  Handlers run with interrupts enabled: a task may   *)
(* be preempted in one, and the rest of the delivery follows when it       *)
(* returns.  Timers and time-outs are interrupts, and may come at any time *)
(* when they are set.                                                      *)
(***************************************************************************)
EXTENDS SigPool, FiniteSets

CONSTANTS
  Tasks,      \* their numbers
  Timers, NIL,
  SIGALRM,    \* the signal of alarm
  TimerSignal, \* the signal of the timers
  Actions,    \* the actions to consider for each signal
  Masks,      \* the masks to consider
  WaitSets,   \* the sets to wait for
  Free0,      \* the descriptors, in the order of the free list
  MaxSends,   \* bound: signals sent over the whole behaviour
  MaxCalls,   \* bound: calls that send and receive nothing
  Callers,    \* bound: the tasks that make them
  Careless    \* what callers do although the code does not survive it (Unsafe)

\* "kill": a task is killed in sigsuspend, after it was woken in sigwait, or
\* between the cancellation test of a wait and its protected part.
\* "flush": a signal with several descriptors queued is set to be ignored.
\* "timeout": a task whose sigtimedwait has timed out waits again.
\* "disarm": a timer that was set to 0 is set or deleted.
Unsafe == {"kill", "flush", "timeout", "disarm"}

NoTimer == [used |-> FALSE, signal |-> NIL, event |-> "none", periodic |-> FALSE]

ASSUME SignalsAssumption ==
  /\ Tasks \subseteq Nat /\ IsFiniteSet(Tasks) /\ NIL \notin Tasks
  /\ Callers \subseteq Tasks /\ Careless \subseteq Unsafe
  /\ {SIGALRM, TimerSignal} \subseteq Signals
  /\ Actions \in [Signals -> SUBSET {"handler", "siginfo", "ignore"}]
  /\ \A s \in Signals : Actions[s] # {}
  /\ Masks \subseteq SUBSET Signals /\ Masks # {}
  /\ WaitSets \subseteq SUBSET Signals /\ {MaxSends, MaxCalls} \subseteq Nat
  /\ Free0 \in Seq(Entries) /\ Distinct(Free0) /\ Members(Free0) = Entries

VARIABLES
  exec,       \* the running task, or NIL: the dummy task
  status,     \* proc_table[t].status; READY stands for EXE
  step,       \* "none", or the call a task is blocked in
  action,     \* sigactions[s]: SA_SIGINFO, a plain handler, or SIG_IGN
  sq,         \* the pool of descriptors, see SigPool
  sigpending, sigmask, sigwaiting, \* of each task
  sigwaiters, \* the tasks in sigwait and sigsuspend
  delay,      \* the tasks with a time-out event (delay_timer)
  expired,    \* the tasks with SIGTIMEOUT_EXPIRED
  killed,     \* the tasks with KILL_REQUEST
  frames,     \* the handlers a task is in: the signal, the mask to restore
              \* behind it, and the loop that called it
  alarm,      \* alarm_timer is set
  timer,      \* timer_table: used, its descriptor, its event, its period
  fault,      \* the code has left what is modelled
  calls,      \* how many of the calls that MaxCalls bounds were made
  sent,       \* history: signals sent so far
  last        \* history: number of the last queued signal received, of each

waitVars == <<sigwaiting, sigwaiters, delay, expired>>
handlerVars == <<sigpending, sigmask, frames, last>>
tableVars == <<action, killed, alarm, timer, fault>>
vars == <<exec, status, step, sq, waitVars, handlerVars, tableVars, calls, sent>>

Init ==
  /\ exec = NIL
  /\ status = [t \in Tasks |-> "READY"]
  /\ step = [t \in Tasks |-> "none"]
  /\ action \in {f \in [Signals -> UNION {Actions[s] : s \in Signals}] :
                   \A s \in Signals : f[s] \in Actions[s] \ {"ignore"}}
  /\ sq = [pending |-> {}, queued |-> [s \in Signals |-> <<>>], free |-> Free0,
           reserved |-> {}, posted |-> {}, info |-> [e \in Entries |-> 0]]
  /\ sigpending = [t \in Tasks |-> {}]
  /\ sigmask \in {[t \in Tasks |-> m] : m \in Masks} \* inherited
  /\ sigwaiting = [t \in Tasks |-> {}]
  /\ sigwaiters = <<>>
  /\ delay = {} /\ expired = {} /\ killed = {}
  /\ frames = [t \in Tasks |-> <<>>]
  /\ alarm = FALSE
  /\ timer = [x \in Timers |-> NoTimer]
  /\ fault = FALSE
  /\ calls = 0 /\ sent = 0
  /\ last = [s \in Signals |-> 0]

Counted == calls < MaxCalls /\ calls' = calls + 1

\* The task that runs, outside of its handlers.
Running(t) == ~fault /\ exec = t /\ frames[t] = <<>>
Calling(t) == Running(t) /\ t \in Callers /\ Counted

-----------------------------------------------------------------------------
(* Delivery *)

\* A process signal s is taken from the pool p.
Received(p, s) ==
  last' = IF p.queued[s] = <<>> THEN last
          ELSE [last EXCEPT ![s] = p.info[Head(p.queued[s])]]

\* One turn of the loops of kern_deliver_pending_signals and task_sigmask, with
\* the pool p, the task signals sp, the mask m and the handlers h of t: first the
\* process signals, then those of the task, of which the ignored ones are
\* dropped.  The handler runs with its signal blocked.
Deliver(t, p, sp, m, h, loop) ==
  LET process == p.pending \ m
      own == sp[t] \ m
      handled == {s \in own : action[s] # "ignore"}
      s == Lowest(IF process # {} THEN process ELSE handled)
      dropped == {i \in own : process = {} /\ (handled = {} \/ i < s)}
  IN  IF process \cup handled = {}
        THEN /\ sq' = p
             /\ sigpending' = [sp EXCEPT ![t] = @ \ dropped]
             /\ sigmask' = [sigmask EXCEPT ![t] = m]
             /\ frames' = [frames EXCEPT ![t] = h]
             /\ UNCHANGED last
        ELSE /\ sigpending' = [sp EXCEPT ![t] = @ \ (dropped \cup {s})]
             /\ sigmask' = [sigmask EXCEPT ![t] = m \cup {s}]
             /\ frames' = [frames EXCEPT ![t] =
                             Append(h, [sig |-> s, mask |-> m, loop |-> loop])]
             /\ IF process # {} THEN sq' = Dequeue(p, s) /\ Received(p, s)
                ELSE sq' = p /\ UNCHANGED last

\* TASK_DOING_SIGNALS
Doing(t) == \E i \in DOMAIN frames[t] : frames[t][i].loop = "pending"
DeliverPending(t, p, sp) == Deliver(t, p, sp, sigmask[t], frames[t], "pending")
NoDelivery(p, sp) ==
  sq' = p /\ sigpending' = sp /\ UNCHANGED <<sigmask, frames, last>>

\* The handler returns: the mask is restored, and the loop that called it goes on.
handler_return(t) ==
  /\ ~fault /\ exec = t /\ frames[t] # <<>>
  /\ LET n == Len(frames[t])
         f == frames[t][n]
     IN  Deliver(t, sq, sigpending, f.mask, SubSeq(frames[t], 1, n - 1), f.loop)
  /\ UNCHANGED <<exec, status, step, waitVars, tableVars, calls, sent>>

\* A task is dispatched that is not behind a wait: kern_after_dispatch.
switch(t) ==
  /\ ~fault /\ exec # t /\ status[t] = "READY" /\ step[t] = "none"
  /\ exec' = t
  /\ IF Doing(t) THEN NoDelivery(sq, sigpending) ELSE DeliverPending(t, sq, sigpending)
  /\ UNCHANGED <<status, step, waitVars, tableVars, calls, sent>>

-----------------------------------------------------------------------------
(* Sending *)

\* Mutant: the first of the queue is woken, whatever it waits for.
WaitersOf_any(s) == DOMAIN sigwaiters
WaitersOf(s) == {i \in DOMAIN sigwaiters : s \in sigwaiting[sigwaiters[i]]}

Wake(t) ==
  /\ status' = [status EXCEPT ![t] = "READY"]
  /\ sigwaiters' = Extract(t, sigwaiters)
AddPending(t, s) == [sigpending EXCEPT ![t] = @ \cup {s}]

\* Mutant: the time-out of the task that is woken stays.
WakeFor_timed(s, p) ==
  LET t == sigwaiters[Lowest(WaitersOf(s))]
  IN  /\ Wake(t)
      /\ UNCHANGED delay
      /\ NoDelivery(p, IF status[t] = "WAIT_SIGSUSPEND" THEN AddPending(t, s)
                       ELSE sigpending)
\* The first task that waits for s is woken; its time-out is deleted.
WakeFor(s, p) ==
  LET t == sigwaiters[Lowest(WaitersOf(s))]
  IN  /\ Wake(t)
      /\ delay' = delay \ {t}
      /\ NoDelivery(p, IF status[t] = "WAIT_SIGSUSPEND" THEN AddPending(t, s)
                       ELSE sigpending)

\* The first task that has s unblocked is told of it.  Outside interrupts the
\* caller then handles what it can, s included.
ToTask(s, p, irq) ==
  LET able == {t \in Tasks : status[t] # "FREE" /\ s \notin sigmask[t]}
      sp == IF able = {} THEN sigpending ELSE AddPending(Lowest(able), s)
  IN  /\ IF irq THEN NoDelivery(p, sp) ELSE DeliverPending(exec, p, sp)
      /\ UNCHANGED <<status, sigwaiters, delay>>

\* A signal for the process, already in the pool p.
Distribute(s, p, irq) ==
  /\ sent < MaxSends /\ sent' = sent + 1
  /\ IF WaitersOf(s) # {} THEN WakeFor(s, p) ELSE ToTask(s, p, irq)
  /\ UNCHANGED <<exec, step, sigwaiting, expired, calls>>

\* kill does not queue: a signal that is pending is dropped.
Killed(s, irq) ==
  /\ action[s] # "ignore" /\ s \notin sq.pending
  /\ Distribute(s, [sq EXCEPT !.pending = @ \cup {s}], irq)

kill(t, s) == Running(t) /\ Killed(s, FALSE) /\ UNCHANGED tableVars

\* sigqueue_internal drops s, for lack of SA_SIGINFO or because it is ignored.
Drops(s) == action[s] = "ignore" \/ (action[s] = "handler" /\ s \in sq.pending)

sigqueue(t, s) ==
  /\ Running(t) /\ ~Drops(s) /\ sq.free # <<>>
  /\ Distribute(s, Enqueue(sq, s, sent + 1), FALSE)
  /\ UNCHANGED tableVars

\* For one task; a task in sigwait is not woken.
task_signal(t, u, s) ==
  /\ Running(t) /\ status[u] # "FREE" /\ action[s] # "ignore"
  /\ sent < MaxSends /\ sent' = sent + 1
  /\ IF status[u] = "WAIT_SIGSUSPEND" THEN Wake(u)
     ELSE UNCHANGED <<status, sigwaiters>>
  /\ DeliverPending(t, sq, AddPending(u, s))
  /\ UNCHANGED <<exec, step, sigwaiting, delay, expired, tableVars, calls>>

-----------------------------------------------------------------------------
(* Masks and actions *)

task_sigmask(t, m) ==
  /\ Calling(t) /\ m # sigmask[t]
  /\ Deliver(t, sq, sigpending, m, frames[t], "mask")
  /\ UNCHANGED <<exec, status, step, waitVars, tableVars, sent>>

sigaction(t, s, a) ==
  /\ Calling(t) /\ a # action[s]
  /\ Len(sq.queued[s]) <= 1 \/ a # "ignore" \/ "flush" \in Careless
  /\ action' = [action EXCEPT ![s] = a]
  /\ sq' = IF a = "ignore" THEN Flush(sq, s) ELSE sq
  /\ fault' = (a = "ignore" /\ Len(sq.queued[s]) > 1)
  /\ UNCHANGED <<exec, status, step, waitVars, handlerVars, killed, alarm,
                 timer, sent>>

-----------------------------------------------------------------------------
(* Waiting *)

\* task_makefree of a task that has called task_testcancel.
Die(t) ==
  /\ status' = [status EXCEPT ![t] = "FREE"]
  /\ step' = [step EXCEPT ![t] = "none"]
  /\ exec' = NIL
  /\ UNCHANGED <<sq, waitVars, handlerVars>>

Block(t, call, st, set) ==
  /\ status' = [status EXCEPT ![t] = st]
  /\ step' = [step EXCEPT ![t] = call]
  /\ exec' = NIL
  /\ sigwaiting' = [sigwaiting EXCEPT ![t] = set]
  /\ sigwaiters' = InsertFirst(t, sigwaiters)

\* A signal of the set is taken: one of the process, or else one of the task,
\* if there is one.  A process signal is no longer one of the task if clear.
TakeOne(t, set, clear) ==
  LET process == sq.pending \cap set
      own == sigpending[t] \cap set
  IN  /\ CASE process # {} ->
                /\ sq' = Dequeue(sq, Lowest(process))
                /\ Received(sq, Lowest(process))
                /\ sigpending' = [sigpending EXCEPT ![t] =
                     IF clear THEN @ \ {Lowest(process)} ELSE @]
           [] process = {} /\ own # {} ->
                /\ sigpending' = [sigpending EXCEPT ![t] = @ \ {Lowest(own)}]
                /\ UNCHANGED <<sq, last>>
           [] OTHER -> UNCHANGED <<sq, sigpending, last>>
      /\ UNCHANGED <<sigmask, frames>>

\* The cancellation test at the entry of a wait, with interrupts enabled.
NotCancelled(t) == t \notin killed \/ "kill" \in Careless

\* sigwait, sigwaitinfo and sigtimedwait, whose callers block the set first.
sigwait(t, set, timed) ==
  /\ Running(t) /\ set \subseteq sigmask[t]
  /\ t \notin expired \/ "timeout" \in Careless
  /\ \/ t \in killed /\ Die(t)
     \/ /\ NotCancelled(t) /\ (sq.pending \cup sigpending[t]) \cap set # {}
        /\ TakeOne(t, set, TRUE)
        /\ UNCHANGED <<exec, status, step, waitVars>>
     \/ /\ NotCancelled(t) /\ (sq.pending \cup sigpending[t]) \cap set = {}
        /\ Block(t, "sigwait", "WAIT_SIG", set)
        /\ delay' = IF timed THEN delay \cup {t} ELSE delay
        /\ UNCHANGED <<sq, handlerVars, expired>>
  /\ UNCHANGED <<tableVars, calls, sent>>

\* Dispatched again; with the flag of the time-out nothing is taken.
sigwait_resume(t) ==
  /\ ~fault /\ status[t] = "READY" /\ step[t] = "sigwait"
  /\ IF t \in killed THEN Die(t)
     ELSE /\ exec' = t
          /\ step' = [step EXCEPT ![t] = "none"]
          /\ sigwaiting' = [sigwaiting EXCEPT ![t] = {}]
          /\ IF t \in expired THEN UNCHANGED <<sq, handlerVars>>
             ELSE TakeOne(t, sigwaiting[t], FALSE)
          /\ UNCHANGED <<status, sigwaiters, delay, expired>>
  /\ UNCHANGED <<tableVars, calls, sent>>

sigwait_timer(t) ==
  /\ ~fault /\ t \in delay
  /\ delay' = delay \ {t}
  /\ expired' = expired \cup {t}
  /\ Wake(t)
  /\ UNCHANGED <<exec, step, sq, sigwaiting, handlerVars, tableVars, calls, sent>>

\* sigsuspend is called for signals that have handlers and are not blocked.
sigsuspend(t, set) ==
  /\ Running(t) /\ set \cap sigmask[t] = {}
  /\ \/ t \in killed /\ Die(t)
     \/ /\ NotCancelled(t) /\ sigpending[t] \cap set # {}
        /\ DeliverPending(t, sq, sigpending)
        /\ UNCHANGED <<exec, status, step, waitVars>>
     \/ /\ NotCancelled(t) /\ sigpending[t] \cap set = {}
        /\ Block(t, "sigsuspend", "WAIT_SIGSUSPEND", set)
        /\ UNCHANGED <<sq, handlerVars, delay, expired>>
  /\ UNCHANGED <<tableVars, calls, sent>>

sigsuspend_resume(t) ==
  /\ ~fault /\ status[t] = "READY" /\ step[t] = "sigsuspend"
  /\ IF t \in killed THEN Die(t)
     ELSE /\ exec' = t
          /\ step' = [step EXCEPT ![t] = "none"]
          /\ IF sigpending[t] \cap sigwaiting[t] = {} THEN UNCHANGED <<sq, handlerVars>>
             ELSE DeliverPending(t, sq, sigpending)
          /\ UNCHANGED <<status, waitVars>>
  /\ UNCHANGED <<tableVars, calls, sent>>

\* task_kill, with signal_cancellation_point, which leaves a task in sigsuspend
\* among the waiters.
task_kill(t, u) ==
  /\ Calling(t) /\ status[u] # "FREE" /\ u \notin killed
  /\ step[u] = "none" \/ status[u] = "WAIT_SIG" \/ "kill" \in Careless
  /\ killed' = killed \cup {u}
  /\ CASE status[u] = "WAIT_SIG" -> Wake(u) /\ delay' = delay \ {u}
       [] status[u] = "WAIT_SIGSUSPEND" ->
            /\ status' = [status EXCEPT ![u] = "READY"]
            /\ UNCHANGED <<sigwaiters, delay>>
       [] OTHER -> UNCHANGED <<status, sigwaiters, delay>>
  /\ UNCHANGED <<exec, step, sq, sigwaiting, expired, handlerVars, action,
                 alarm, timer, fault, sent>>

-----------------------------------------------------------------------------
(* Timers *)

set_alarm(t, on) ==
  /\ Calling(t) /\ alarm # on
  /\ alarm' = on
  /\ UNCHANGED <<exec, status, step, sq, waitVars, handlerVars, action, killed,
                 timer, fault, sent>>

timer_alarmfire ==
  /\ ~fault /\ alarm
  /\ alarm' = FALSE
  /\ \/ Killed(SIGALRM, TRUE)
     \/ /\ action[SIGALRM] = "ignore" \/ SIGALRM \in sq.pending
        /\ UNCHANGED <<exec, status, step, sq, waitVars, handlerVars, calls, sent>>
  /\ UNCHANGED <<action, killed, timer, fault>>

SetTimer(x, r) == timer' = [timer EXCEPT ![x] = r]
\* A call on a timer, with the pool p behind it.
TimerCall(t, p) ==
  /\ Calling(t)
  /\ sq' = p
  /\ UNCHANGED <<exec, status, step, waitVars, handlerVars, action, killed,
                 alarm, sent>>

\* A descriptor of timer_table is used once: timer_delete does not give it back.
timer_create(t, x) ==
  /\ timer[x] = NoTimer /\ sq.free # <<>>
  /\ TimerCall(t, Reserve(sq))
  /\ SetTimer(x, [NoTimer EXCEPT !.used = TRUE, !.signal = Head(sq.free)])
  /\ UNCHANGED fault

\* The event of a timer is deleted first; that of a disarmed one is not its own.
Deletable(x) == timer[x].used /\ (timer[x].event # "deleted" \/ "disarm" \in Careless)
timer_settime(t, x, periodic) ==
  /\ Deletable(x)
  /\ TimerCall(t, sq)
  /\ SetTimer(x, [timer[x] EXCEPT !.event = "posted", !.periodic = periodic])
  /\ fault' = (timer[x].event = "deleted")

\* timer_settime with an it_value of 0 leaves the index of the event.
timer_disarm(t, x) ==
  /\ timer[x].used /\ timer[x].event = "posted"
  /\ TimerCall(t, sq)
  /\ SetTimer(x, [timer[x] EXCEPT !.event = "deleted"])
  /\ UNCHANGED fault

timer_delete(t, x) ==
  /\ Deletable(x)
  /\ TimerCall(t, Unreserve(sq, timer[x].signal))
  /\ SetTimer(x, [timer[x] EXCEPT !.used = FALSE, !.event = "none"])
  /\ fault' = (timer[x].event = "deleted")

\* The timer puts its descriptor in front of the free list, for sigqueue_internal
\* to take; while it is pending only the overruns are counted.
timer_timerfire(x) ==
  LET e == timer[x].signal
      lent == [sq EXCEPT !.free = InsertFirst(e, @), !.posted = @ \cup {e}]
  IN  /\ ~fault /\ timer[x].event = "posted"
      /\ SetTimer(x, IF timer[x].periodic THEN timer[x]
                     ELSE [timer[x] EXCEPT !.event = "none"])
      /\ CASE e \in sq.posted ->
                UNCHANGED <<exec, status, step, sq, waitVars, handlerVars, calls, sent>>
           [] e \notin sq.posted /\ Drops(TimerSignal) ->
                /\ sq' = lent
                /\ UNCHANGED <<exec, status, step, waitVars, handlerVars, calls, sent>>
           [] OTHER -> Distribute(TimerSignal, Enqueue(lent, TimerSignal, sent + 1), TRUE)
      /\ UNCHANGED <<action, killed, alarm, fault>>

-----------------------------------------------------------------------------
TaskStep(t) ==
  \/ handler_return(t) \/ switch(t) \/ sigwait_resume(t) \/ sigsuspend_resume(t)
  \/ \E s \in Signals :
       \/ kill(t, s) \/ sigqueue(t, s)
       \/ \E u \in Tasks : task_signal(t, u, s)
       \/ \E a \in Actions[s] : sigaction(t, s, a)
  \/ \E m \in Masks : task_sigmask(t, m)
  \/ \E set \in WaitSets : sigsuspend(t, set) \/ \E b \in BOOLEAN : sigwait(t, set, b)
  \/ \E u \in Tasks : task_kill(t, u)
  \/ \E b \in BOOLEAN : set_alarm(t, b)
  \/ \E x \in Timers :
       \/ timer_create(t, x) \/ timer_disarm(t, x) \/ timer_delete(t, x)
       \/ \E b \in BOOLEAN : timer_settime(t, x, b)

Interrupt ==
  \/ \E t \in Tasks : sigwait_timer(t)
  \/ timer_alarmfire
  \/ \E x \in Timers : timer_timerfire(x)

Next == Interrupt \/ \E t \in Tasks : TaskStep(t)

Spec == Init /\ [][Next]_vars

-----------------------------------------------------------------------------
(* Properties *)

SignalsTypeOK ==
  /\ exec \in Tasks \cup {NIL}
  /\ status \in [Tasks -> {"READY", "WAIT_SIG", "WAIT_SIGSUSPEND", "FREE"}]
  /\ step \in [Tasks -> {"none", "sigwait", "sigsuspend"}]
  /\ sq.pending \subseteq Signals /\ sq.queued \in [Signals -> Seq(Entries)]
  /\ sq.free \in Seq(Entries) /\ sq.reserved \cup sq.posted \subseteq Entries
  /\ {sigpending, sigmask, sigwaiting} \subseteq [Tasks -> SUBSET Signals]
  /\ sigwaiters \in Seq(Tasks)
  /\ delay \cup expired \cup killed \subseteq Tasks

\* Where a descriptor is.
FreePlaces(e) == {<<"free", i>> : i \in {i \in DOMAIN sq.free : sq.free[i] = e}}
QueuePlaces(e) ==
  UNION {{<<"queued", s, i>> : i \in {i \in DOMAIN sq.queued[s] : sq.queued[s][i] = e}}
         : s \in Signals}
TimerPlaces(e) ==
  {<<"timer", x>> : x \in {x \in Timers : /\ timer[x].used /\ timer[x].signal = e
                                          /\ e \notin sq.posted}}
Places(e) == FreePlaces(e) \cup QueuePlaces(e) \cup TimerPlaces(e)
\* Each descriptor is in one place: free, in the list of one signal, or held by
\* one timer; a signal with descriptors in its list is in procsigpending, where
\* every receiver looks for it.  Timers fire, are set again and deleted while
\* their signal is pending, and handlers and waits take it meanwhile.
PoolExact ==
  /\ \A e \in Entries : Cardinality(Places(e)) = 1
  /\ \A x \in Timers : timer[x].used => timer[x].signal \notin Members(sq.free)
  /\ \A s \in Signals : sq.queued[s] # <<>> => s \in sq.pending

\* The signals sent with sigqueue or by a timer are received in the order they
\* were sent, each at most once, whoever receives them.
QueueOrder ==
  \A s \in Signals : \A i \in DOMAIN sq.queued[s] :
    sq.info[sq.queued[s][i]] > IF i = 1 THEN last[s] ELSE sq.info[sq.queued[s][i - 1]]

\* While a task is in sigwait for a signal that is pending for the process, some
\* task is on its way to take it.
NoLostSigwait ==
  \A t \in Tasks : status[t] = "WAIT_SIG" =>
    \A s \in sigwaiting[t] \cap sq.pending : \E u \in Tasks :
      \/ status[u] = "READY" /\ step[u] # "none" /\ s \in sigwaiting[u]
      \/ frames[u] # <<>> /\ s \notin frames[u][1].mask

\* Every way out of a wait (signal, time-out, kill) takes the task out of the
\* queue of waiters and deletes its time-out, so that none of them comes twice.
WaitersExact ==
  /\ SignalsTypeOK
  /\ Distinct(sigwaiters)
  /\ Members(sigwaiters) = {t \in Tasks : status[t] \in {"WAIT_SIG", "WAIT_SIGSUSPEND"}}
  /\ delay \subseteq {t \in Tasks : status[t] = "WAIT_SIG"}

\* No more handlers run than signals were sent ("a signal sent to a 'process'
\* shall be delivered to only one task", kill).
HandledOnce == Cardinality({t \in Tasks : frames[t] # <<>>}) <= sent
=============================================================================
