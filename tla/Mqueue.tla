------------------------------- MODULE Mqueue -------------------------------
(***************************************************************************)
(* The POSIX message queues of kernel/mqueue.c: open and close, send and   *)
(* receive with their blocked tasks, mq_notify, mq_setattr, and what       *)
(* task_kill and task_signal do to a blocked task.                         *)
(*                                                                         *)
(* mq_send and mq_receive test the cancellation before they disable        *)
(* interrupts (step "entry") and go on behind the wait when the task is    *)
(* dispatched again (step "wait").  They do not look at the queue again:   *)
(* a task that finds nothing there uses slot -1 of the tables, and one     *)
(* whose queue was closed uses freed memory.                               *)
(***************************************************************************)
EXTENDS IqueueOps, FiniteSets

CONSTANTS
  Tasks,
  Mqs,        \* the descriptors of mq_table
  Mq0,        \* descriptor 0: what free_mq always is, and mqproc_table[].mqdes
  Names,      \* the names of queues
  Senders,    \* the tasks that send, and those that receive
  Receivers,
  Prios,      \* the priorities of messages
  priority,   \* of each task in the arrays of freedesc, which no code sets
  MaxMsg,     \* mq_maxmsg
  MaxSends,   \* bound: messages queued over the whole behaviour
  Killable,   \* the tasks that are killed
  Signallers, \* those whose handlers send signals inside a wait
  CloseBusy   \* FALSE: a queue is closed only when no task is inside it

ASSUME MqAssumption ==
  /\ Mq0 \in Mqs /\ Names # {} /\ Prios # {}
  /\ Senders \cup Receivers \cup Killable \cup Signallers \subseteq Tasks
  /\ Prios \subseteq Nat /\ priority \in [Tasks -> Nat]
  /\ MaxMsg \in Nat \ {0} /\ MaxSends \in Nat
  /\ CloseBusy \in BOOLEAN

VARIABLES
  open,        \* MQ_USED
  name,        \* mq_table[q].name
  nonblock,    \* O_NONBLOCK
  notify,      \* MQ_NOTIFICATION_PRESENT
  count,       \* mq_table[q].count
  msgs,        \* the messages linked from start: [prio, id] records
  blocked,     \* blocked_send and blocked_rcv of each queue
  status,      \* proc_table[t].status: READY stands for EXE too
  call,        \* the step of mq_send or mq_receive a task is at
  side, mq, prio, \* which of the two, and its arguments
  intsig,      \* mqproc_table[t].intsig
  killreq,     \* KILL_REQUEST
  sent,        \* history: how many messages were queued; the last one's id
  received,    \* history: the ids of the messages taken out
  fault        \* memory that is not the queue's was used: nothing behind
               \* that point is modelled

attrVars == <<open, name, nonblock, notify>>
dataVars == <<count, msgs, sent, received>>
callVars == <<call, side, mq, prio>>
vars == <<attrVars, dataVars, blocked, status, callVars, intsig, killreq, fault>>

Sides == {"send", "receive"}

Init ==
  /\ open = [q \in Mqs |-> FALSE]
  /\ name \in [Mqs -> Names]
  /\ nonblock = [q \in Mqs |-> FALSE]
  /\ notify = [q \in Mqs |-> FALSE]
  /\ count = [q \in Mqs |-> 0]
  /\ msgs = [q \in Mqs |-> <<>>]
  /\ blocked = [q \in Mqs |-> [s \in Sides |-> <<>>]]
  /\ status = [t \in Tasks |-> "READY"]
  /\ call = [t \in Tasks |-> "none"]
  /\ side = [t \in Tasks |-> "send"]
  /\ mq = [t \in Tasks |-> Mq0]
  /\ prio = [t \in Tasks |-> CHOOSE p \in Prios : TRUE]
  /\ intsig = [t \in Tasks |-> FALSE]
  /\ killreq = [t \in Tasks |-> FALSE]
  /\ sent = 0
  /\ received = {}
  /\ fault = FALSE

At(t, step) == ~fault /\ status[t] = "READY" /\ call[t] = step
GoTo(t, step) == call' = [call EXCEPT ![t] = step]
\* mq_first and start are -1.
Full(q) == Len(msgs[q]) = MaxMsg
Empty(q) == msgs[q] = <<>>

\* The status of a task blocked on one side of a queue.
WaitStatus(s) == IF s = "send" THEN "WAIT_MQSEND" ELSE "WAIT_MQRECEIVE"

-----------------------------------------------------------------------------
(* Descriptors *)

\* The queues of a descriptor are made new.
Reset(q) ==
  /\ msgs' = [msgs EXCEPT ![q] = <<>>]
  /\ count' = [count EXCEPT ![q] = 0]
  /\ blocked' = [blocked EXCEPT ![q] = [s \in Sides |-> <<>>]]

\* mq_open with O_CREAT of a name that no queue has (a name in use leads to its
\* descriptor and changes nothing).  No code links the descriptors in a free
\* list: free_mq and all the next fields stay 0, so descriptor 0 is taken and
\* initialised, in use or not.  O_NONBLOCK is stored in a bit nothing reads.
mq_open(t, n) ==
  /\ At(t, "none") /\ ~(open[Mq0] /\ name[Mq0] = n)
  /\ open' = [open EXCEPT ![Mq0] = TRUE]
  /\ name' = [name EXCEPT ![Mq0] = n]
  /\ nonblock' = [nonblock EXCEPT ![Mq0] = FALSE]
  /\ notify' = [notify EXCEPT ![Mq0] = FALSE]
  /\ Reset(Mq0)
  /\ UNCHANGED <<sent, received, status, callVars, intsig, killreq, fault>>

\* mq_unlink of a name in use: the search does not stop at its match, and what
\* lies behind the table is freed.
mq_unlink(t, n) ==
  /\ At(t, "none") /\ \E q \in Mqs : open[q] /\ name[q] = n
  /\ fault' = TRUE
  /\ UNCHANGED <<attrVars, dataVars, blocked, status, callVars, intsig, killreq>>

Inside(t, q) == call[t] # "none" /\ mq[t] = q

\* mq_close frees the descriptor at once, for all the tasks that have it open.
mq_close(t, q) ==
  /\ At(t, "none") /\ open[q]
  /\ CloseBusy \/ \A u \in Tasks : ~Inside(u, q)
  /\ open' = [open EXCEPT ![q] = FALSE]
  /\ UNCHANGED <<name, nonblock, notify, dataVars, blocked, status, callVars,
                 intsig, killreq, fault>>

mq_setattr(t, q, nb) ==
  /\ At(t, "none") /\ open[q] /\ nb # nonblock[q]
  /\ nonblock' = [nonblock EXCEPT ![q] = nb]
  /\ UNCHANGED <<open, name, notify, dataVars, blocked, status, callVars,
                 intsig, killreq, fault>>

\* mq_notify: a second registration is refused (EBUSY), NULL cancels the first.
mq_notify(t, q, register) ==
  /\ At(t, "none") /\ open[q] /\ notify[q] = ~register
  /\ notify' = [notify EXCEPT ![q] = register]
  /\ UNCHANGED <<open, name, nonblock, dataVars, blocked, status, callVars,
                 intsig, killreq, fault>>

-----------------------------------------------------------------------------
(* Blocking and waking *)

\* task_makefree of a task that has called task_testcancel.
Die(t) ==
  /\ status' = [status EXCEPT ![t] = "FREE"]
  /\ GoTo(t, "none")

Block(t) ==
  LET q == mq[t]
  IN  /\ intsig' = [intsig EXCEPT ![t] = FALSE]
      /\ status' = [status EXCEPT ![t] = WaitStatus(side[t])]
      /\ blocked' = [blocked EXCEPT ![q][side[t]] = InsertByKey(t, @, priority)]
      /\ GoTo(t, "wait")

\* Mutant: the woken task stays linked.
Wake_linked(q, s) ==
  /\ status' = [status EXCEPT ![blocked[q][s][1]] = "READY"]
  /\ UNCHANGED blocked
\* iq_getfirst and public_unblock of the first task blocked on that side.
Wake(q, s) ==
  /\ blocked' = [blocked EXCEPT ![q][s] = DropFirst(1, @)]
  /\ status' = [status EXCEPT ![blocked[q][s][1]] = "READY"]
NoWake == UNCHANGED <<blocked, status>>

-----------------------------------------------------------------------------
(* mq_send and mq_receive *)

\* The entry, with interrupts enabled afterwards.
mq_call(t, s, q, p) ==
  /\ At(t, "none")
  /\ IF killreq[t]
       THEN Die(t) /\ UNCHANGED <<side, mq, prio>>
       ELSE /\ GoTo(t, "entry")
            /\ side' = [side EXCEPT ![t] = s]
            /\ mq' = [mq EXCEPT ![t] = q]
            /\ prio' = [prio EXCEPT ![t] = p]
            /\ UNCHANGED status
  /\ UNCHANGED <<attrVars, dataVars, blocked, intsig, killreq, fault>>

mq_send(t, q, p) == t \in Senders /\ mq_call(t, "send", q, p)
mq_receive(t, q) == t \in Receivers /\ mq_call(t, "receive", q, prio[t])

\* Mutant: a message goes before those of its own priority.
Behind_lifo(q, p) == Cardinality({i \in DOMAIN msgs[q] : p < msgs[q][i].prio})
\* insert_mq_entry: the number of messages that stay before one of priority p.
Behind(q, p) == Cardinality({i \in DOMAIN msgs[q] : p <= msgs[q][i].prio})

Insert(q, p) ==
  LET i == Behind(q, p)
  IN  msgs' = [msgs EXCEPT ![q] = SubSeq(@, 1, i)
                                  \o <<[prio |-> p, id |-> sent + 1]>>
                                  \o SubSeq(@, i + 1, Len(@))]

\* The message of t is queued.  A receiver is woken, or the notification sent,
\* when it is the first that count has seen.
Put(t, q) ==
  /\ sent < MaxSends
  /\ Insert(q, prio[t])
  /\ sent' = sent + 1
  /\ count' = [count EXCEPT ![q] = @ + 1]
  /\ IF count[q] = 0 /\ blocked[q]["receive"] # <<>>
       THEN Wake(q, "receive") /\ UNCHANGED notify
       ELSE /\ notify' = [notify EXCEPT ![q] = @ /\ count[q] # 0]
            /\ NoWake
  /\ UNCHANGED received

\* Mutant: a blocked sender is woken only if the queue was full.
Freed_once(q) == blocked[q]["send"] # <<>> /\ count[q] = MaxMsg
Freed(q) == blocked[q]["send"] # <<>>

\* The first message is taken; count goes up here too.  A sender that waits is
\* woken by every receive.
Take(t, q) ==
  /\ msgs' = [msgs EXCEPT ![q] = Tail(@)]
  /\ received' = received \cup {Head(msgs[q]).id}
  /\ count' = [count EXCEPT ![q] = @ + 1]
  /\ IF Freed(q) THEN Wake(q, "send") ELSE NoWake
  /\ UNCHANGED <<sent, notify>>

Ready(q, s) == IF s = "send" THEN ~Full(q) ELSE ~Empty(q)
Transfer(t) ==
  /\ IF side[t] = "send" THEN Put(t, mq[t]) ELSE Take(t, mq[t])
  /\ GoTo(t, "none")
  /\ UNCHANGED fault

\* The protected part, up to the wait: EBADF and EAGAIN change nothing.
mq_body(t) ==
  /\ At(t, "entry")
  /\ CASE ~open[mq[t]] \/ (~Ready(mq[t], side[t]) /\ nonblock[mq[t]]) ->
            /\ GoTo(t, "none")
            /\ UNCHANGED <<notify, dataVars, blocked, status, intsig, fault>>
       [] open[mq[t]] /\ ~Ready(mq[t], side[t]) /\ ~nonblock[mq[t]] ->
            Block(t) /\ UNCHANGED <<notify, dataVars, fault>>
       [] open[mq[t]] /\ Ready(mq[t], side[t]) ->
            Transfer(t) /\ UNCHANGED intsig
  /\ UNCHANGED <<open, name, nonblock, side, mq, prio, killreq>>

\* Dispatched again: task_testcancel, EINTR, or the transfer, of a message or
\* of a free slot that may not be there any more.
mq_resume(t) ==
  /\ At(t, "wait")
  /\ CASE killreq[t] ->
            Die(t) /\ UNCHANGED <<notify, dataVars, blocked, fault>>
       [] ~killreq[t] /\ intsig[t] ->
            GoTo(t, "none") /\ UNCHANGED <<notify, dataVars, blocked, status, fault>>
       [] ~killreq[t] /\ ~intsig[t] /\ open[mq[t]] /\ Ready(mq[t], side[t]) ->
            Transfer(t)
       [] OTHER ->
            /\ fault' = TRUE
            /\ UNCHANGED <<notify, dataVars, blocked, status, call>>
  /\ UNCHANGED <<open, name, nonblock, side, mq, prio, intsig, killreq>>

-----------------------------------------------------------------------------
(* Kills and signals *)

Blocked(t) == status[t] \in {"WAIT_MQSEND", "WAIT_MQRECEIVE"}

\* The blocked task t is taken out of the queue of mqdes, which is 0 for all
\* the tasks, and made ready.
Withdraw(t) ==
  IF t \in Members(blocked[Mq0][side[t]])
    THEN /\ blocked' = [blocked EXCEPT ![Mq0][side[t]] = Extract(t, @)]
         /\ status' = [status EXCEPT ![t] = "READY"]
         /\ UNCHANGED fault
    ELSE fault' = TRUE /\ UNCHANGED <<blocked, status>>

\* task_kill, with mq_cancellation_point.
task_kill(k, t) ==
  /\ At(k, "none")
  /\ t \in Killable /\ status[t] # "FREE" /\ ~killreq[t]
  /\ killreq' = [killreq EXCEPT ![t] = TRUE]
  /\ IF Blocked(t) THEN Withdraw(t) ELSE UNCHANGED <<blocked, status, fault>>
  /\ UNCHANGED <<attrVars, dataVars, callVars, intsig>>

\* A signal for a blocked task, sent while k runs: mq_interrupted_by_signal
\* tells k, not t, that it was interrupted.  It matters if k is behind its own
\* wait, where its handlers run, and then leaves mq_send with EINTR although it
\* was woken for a free slot.
task_signal(k, t) ==
  /\ ~fault /\ status[k] = "READY" /\ Blocked(t)
  /\ call[k] = "wait" => k \in Signallers
  /\ intsig' = [intsig EXCEPT ![k] = TRUE]
  /\ Withdraw(t)
  /\ UNCHANGED <<attrVars, dataVars, callVars, killreq>>

-----------------------------------------------------------------------------
TaskStep(t) ==
  \/ \E n \in Names : mq_open(t, n) \/ mq_unlink(t, n)
  \/ \E q \in Mqs :
       \/ mq_close(t, q)
       \/ \E b \in BOOLEAN : mq_setattr(t, q, b) \/ mq_notify(t, q, b)
       \/ \E p \in Prios : mq_send(t, q, p)
       \/ mq_receive(t, q)
  \/ mq_body(t)
  \/ mq_resume(t)
  \/ \E u \in Tasks : task_kill(t, u) \/ task_signal(t, u)

Next == \E t \in Tasks : TaskStep(t)

Spec == Init /\ [][Next]_vars

-----------------------------------------------------------------------------
(* Properties *)

MqTypeOK ==
  /\ {open, nonblock, notify} \subseteq [Mqs -> BOOLEAN]
  /\ name \in [Mqs -> Names]
  /\ count \in [Mqs -> Nat]
  /\ msgs \in [Mqs -> Seq([prio : Prios, id : 1 .. MaxSends])]
  /\ \A q \in Mqs : Len(msgs[q]) <= MaxMsg
  /\ blocked \in [Mqs -> [Sides -> Seq(Tasks)]]
  /\ status \in [Tasks -> {"READY", "WAIT_MQSEND", "WAIT_MQRECEIVE", "FREE"}]
  /\ call \in [Tasks -> {"none", "entry", "wait"}]
  /\ side \in [Tasks -> Sides] /\ mq \in [Tasks -> Mqs] /\ prio \in [Tasks -> Prios]
  /\ {intsig, killreq} \subseteq [Tasks -> BOOLEAN]
  /\ sent \in 0 .. MaxSends /\ received \subseteq 1 .. sent
  /\ fault \in BOOLEAN

\* A task is linked in a queue exactly while it is blocked on that side of it,
\* and once: sends, receives, kills and signals take tasks out from different
\* places, and mq_open forgets whoever is still in the descriptor's queues.
BlockedIsQueued ==
  ~fault =>
    /\ MqTypeOK
    /\ \A q \in Mqs, s \in Sides : Distinct(blocked[q][s])
    /\ \A t \in Tasks, q \in Mqs, s \in Sides :
         t \in Members(blocked[q][s])
           <=> Blocked(t) /\ mq[t] = q /\ side[t] = s

\* Woken tasks that have not run yet.
Woken(q, s) == {t \in Tasks : At(t, "wait") /\ mq[t] = q /\ side[t] = s}

\* No lost wake-up of a sender: while one is blocked, each free slot is already
\* on its way to another one.
NoSleepingSender ==
  \A q \in Mqs :
    ~fault /\ blocked[q]["send"] # <<>>
      => MaxMsg - Len(msgs[q]) <= Cardinality(Woken(q, "send"))

\* The same for receivers ("we block the task until: a message is received",
\* mq_receive).
NoSleepingReceiver ==
  \A q \in Mqs :
    ~fault /\ blocked[q]["receive"] # <<>>
      => Len(msgs[q]) <= Cardinality(Woken(q, "receive"))

\* Who receives gets the oldest of the messages of the highest priority, and no
\* message disappears or is delivered twice, whichever tasks are woken, killed
\* or interrupted in between.
DeliveryStep(q) ==
  LET old == Members(msgs[q])
      gone == old \ Members(msgs'[q])
  IN  open[q] /\ open'[q] =>
        /\ Cardinality(gone) <= 1
        /\ \A m \in gone :
             /\ m.id \notin received /\ received' = received \cup {m.id}
             /\ \A n \in old \ {m} : \/ m.prio > n.prio
                                     \/ (m.prio = n.prio /\ m.id < n.id)
        /\ gone = {} => received' = received
DeliveryOrder == [][\A q \in Mqs : DeliveryStep(q)]_vars
=============================================================================
