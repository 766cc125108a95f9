----------------------------- MODULE SchedProofs -----------------------------
(***************************************************************************)
(* Theorems about the scheduler and its levels, for any tasks, times and   *)
(* lengths of the clock.                                                   *)
(*                                                                         *)
(* The operators of the levels take a kernel state, a record, to another.  *)
(* For each there is a lemma named after it that says which fields it may  *)
(* change (Same), how, and that the lists stay lists (Wellformed).         *)
(***************************************************************************)
EXTENDS SchedInv

------------------------------
(* The event list *)

LEMMA EventFields ==
  ASSUME NEW e \in Events
  PROVE  e.time \in Int /\ e.handler \in Handlers /\ e.pid \in Pids \cup {NIL}
BY DEF Events

LEMMA ListFields ==
  ASSUME NEW q \in Seq(Events)
  PROVE  /\ Len(q) \in Nat /\ DOMAIN q = 1 .. Len(q)
         /\ \A j \in 1 .. Len(q) : q[j] \in Events /\ q[j].time \in Int
BY EventFields

\* A new event goes between those that come earlier and the others.
LEMMA PostList ==
  ASSUME NEW q, EventList(q), NEW e \in Events, Addressed(e),
         NEW i, Slot(q, e, i)
  PROVE  LET r == InsertAt(e, i, q)
         IN  /\ EventList(r) /\ Members(r) = Members(q) \cup {e}
             /\ q # <<>> /\ q[1].time < e.time => r # <<>> /\ r[1] = q[1]
<1> DEFINE r == InsertAt(e, i, q)
<1>2. /\ TimedList(r, Events) /\ Members(r) = Joined(Members(q), e)
      /\ q # <<>> /\ q[1].time < e.time => r # <<>> /\ r[1] = q[1]
  BY EventFields, TimedInsert DEF EventList
<1> HIDE DEF r
<1> QED BY <1>2 DEF r, Joined, EventList

\* One event is taken off.
LEMMA UnlistedList ==
  ASSUME NEW q, EventList(q), NEW e \in Members(q)
  PROVE  LET r == Extract(e, q)
         IN  /\ EventList(r) /\ Members(r) = Members(q) \ {e}
             /\ ~Listed(r, e.handler, e.pid)
             /\ q[1] # e => r # <<>> /\ r[1] = q[1]
<1> DEFINE r == Extract(e, q)
<1> HIDE DEF r
<1> QED BY EventFields, TimedExtract DEF r, EventList

\* The first event is taken off: it is the earliest.
LEMMA TailList ==
  ASSUME NEW q, EventList(q), q # <<>>
  PROVE  LET r == Tail(q)
         IN  /\ EventList(r) /\ Members(r) = Members(q) \ {q[1]}
             /\ q[1] \in Members(q) /\ Addressed(q[1])
             /\ ~Listed(r, q[1].handler, q[1].pid)
             /\ \A e \in Members(q) : q[1].time <= e.time
<1> DEFINE r == Tail(q)
<1> HIDE DEF r
<1> QED BY EventFields, TimedTail DEF r, EventList

------------------------------
(* The fields of a kernel state *)

LEMMA KernelFields ==
  ASSUME NEW kk \in Kernels
  PROVE  /\ kk.status \in [Pids -> Statuses] /\ kk.exec_shadow \in Pids \cup {NIL}
         /\ kk.nopreempt \in SUBSET Pids /\ kk.capped \in SUBSET Pids
         /\ kk.avail \in [Pids -> Int] /\ kk.wcet \in [Pids -> Int]
         /\ kk.edf \in Seq(Ranked) /\ kk.rr \in Seq(RrTasks)
         /\ kk.dline \in [Ranked -> Int] /\ kk.events \in Seq(Events)
         /\ kk.resched \in BOOLEAN
         /\ kk.schedule_time \in Int /\ kk.cap_lasttime \in Int
         /\ kk.release \in [Ranked -> Int] /\ kk.adeadline \in [Edf -> Int]
         /\ kk.nact \in [Ranked -> Nat] /\ kk.late \in SUBSET Sporadic
         /\ kk.dl_miss \in [Edf -> Nat] /\ kk.U \in Int
         /\ kk.cbs_dline \in [Soft -> Int] /\ kk.asleep \in SUBSET Pids
         /\ kk.frozen \in SUBSET Freezable
         /\ kk.frozen_activations \in [Freezable -> Int]
BY DEF Kernels

LEMMA StatusNames ==
  /\ "FREE" \in Statuses /\ "SLEEP" \in Statuses /\ "READY" \in Statuses
  /\ "EXE" \in Statuses /\ "IDLE" \in Statuses /\ "WAIT" \in Statuses
  /\ "ZOMBIE" \in Statuses /\ "WAIT_NANOSLEEP" \in Statuses
BY DEF Statuses

LEMMA PidSets ==
  /\ \A p \in Soft : /\ p \in Pids /\ p \in Ranked /\ p \notin Edf /\ p \notin RrTasks
                     /\ p # Dummy /\ period[p] \in Nat /\ period[p] > 0
                     /\ cost[p] \in Nat /\ cost[p] > 0
  /\ \A p \in Edf : /\ p \in Pids /\ p \in Ranked /\ p \notin Soft /\ p \notin RrTasks
                    /\ p # Dummy /\ period[p] \in Nat /\ period[p] > 0
                    /\ rdeadline[p] \in Nat /\ rdeadline[p] > 0 /\ rdeadline[p] <= period[p]
                    /\ offset[p] \in Nat /\ cost[p] \in Nat /\ cost[p] > 0
  /\ \A p \in Ranked : p \in Pids /\ p \notin RrTasks /\ p # Dummy /\ (p \in Edf \/ p \in Soft)
  /\ \A p \in RrTasks : p \in Pids /\ p \notin Ranked /\ p # Dummy
  /\ Dummy \in Pids /\ Dummy \notin Ranked /\ Dummy \notin RrTasks
  /\ NIL \notin Pids
BY PidAssumption, EdfAssumption, CbsAssumption DEF Pids, Ranked, Edf

LEMMA OthersTrans ==
  ASSUME NEW a, NEW b, NEW c, NEW p, Others(a, b, p), Others(b, c, p)
  PROVE  Others(a, c, p)
BY DEF Others, Alike, Apart

LEMMA QuietSame ==
  ASSUME NEW r, NEW kk, NEW C, Same(r, kk, C),
         C \cap {"asleep", "frozen", "frozen_activations"} = {}
  PROVE  Quiet(r, kk)
BY DEF Quiet, Same, Fields

LEMMA ApartSame ==
  ASSUME NEW r, NEW kk, NEW p, NEW C, Same(r, kk, C),
         C \cap {"avail", "capped", "cap_lasttime", "schedule_time", "rr"} = {}
  PROVE  Apart(r, kk, p)
BY DEF Apart, Same, Fields

LEMMA StatusIs ==
  ASSUME NEW kk, Wellformed(kk), NEW p \in Pids, NEW st \in Statuses
  PROVE  LET r == Status(kk, p, st)
         IN  /\ Wellformed(r) /\ Others(r, kk, p)
             /\ Same(r, kk, {"status"})
             /\ r.status = [kk.status EXCEPT ![p] = st]
<1> DEFINE r == Status(kk, p, st)
<1>1. /\ r \in Kernels
      /\ Same(r, kk, {"status"})
      /\ r.status = [kk.status EXCEPT ![p] = st]
  BY KernelFields, PidSets DEF Wellformed, Kernels, Same, Fields, Status
<1> HIDE DEF r
<1>2. Apart(r, kk, p)  BY <1>1, ApartSame
<1> QED BY <1>1, <1>2, KernelFields, PidSets DEF r, Wellformed, Same, Fields, Others, Alike

LEMMA CBS_renewIs ==
  ASSUME NEW kk, Wellformed(kk), NEW p \in Soft, NEW t \in Int
  PROVE  LET r == CBS_renew(kk, p, t)
         IN  /\ Wellformed(r) /\ Others(r, kk, p)
             /\ Same(r, kk, {"cbs_dline", "avail"})
<1> DEFINE r == CBS_renew(kk, p, t)
<1>1. kk \in Kernels  BY DEF Wellformed
<1>2. /\ Same(r, kk, {"cbs_dline", "avail"})
      /\ r.cbs_dline = [kk.cbs_dline EXCEPT ![p] = t + period[p]]
      /\ r.avail = [kk.avail EXCEPT ![p] = kk.wcet[p]]
  BY <1>1 DEF Kernels, Same, Fields, CBS_renew
<1>3. /\ r.cbs_dline \in [Soft -> Int]
      /\ r.avail \in [Pids -> Int]
  BY <1>1, <1>2, KernelFields, PidSets
<1>4. r \in Kernels  BY <1>1, <1>3 DEF Kernels, CBS_renew
<1> HIDE DEF r
<1>7. Others(r, kk, p)  BY <1>1, <1>2, KernelFields, PidSets DEF Others, Alike, Apart, Same, Fields
<1> QED BY <1>2, <1>4, <1>7 DEF r, Wellformed, Same, Fields

LEMMA CBS_saveIs ==
  ASSUME NEW kk, Wellformed(kk), NEW p \in Soft
  PROVE  LET r == CBS_save(kk, p)
         IN  /\ Wellformed(r) /\ Others(r, kk, p)
             /\ Same(r, kk, {"nact"})
             /\ r.nact = IF p \in SaveArrivals THEN [kk.nact EXCEPT ![p] = @ + 1] ELSE kk.nact
<1> DEFINE r == CBS_save(kk, p)
<1>1. kk \in Kernels  BY DEF Wellformed
<1>2. /\ Same(r, kk, {"nact"})
      /\ r.nact = IF p \in SaveArrivals THEN [kk.nact EXCEPT ![p] = @ + 1] ELSE kk.nact
  BY <1>1 DEF Kernels, Same, Fields, CBS_save
<1>3. /\ r.nact \in [Ranked -> Nat]  BY <1>1, <1>2, KernelFields, PidSets
<1>4. r \in Kernels  BY <1>1, <1>3 DEF Kernels, CBS_save
<1> HIDE DEF r
<1>6. /\ r.status = kk.status /\ r.wcet = kk.wcet /\ r.late = kk.late
      /\ r.edf = kk.edf /\ r.rr = kk.rr /\ r.dline = kk.dline
      /\ r.release = kk.release /\ r.adeadline = kk.adeadline /\ r.events = kk.events
      /\ r.dl_miss = kk.dl_miss /\ r.U = kk.U
  BY <1>2 DEF Same, Fields
<1>7. Others(r, kk, p)
  <2>1. Apart(r, kk, p)  BY <1>2, ApartSame
  <2> QED BY <1>1, <1>2, <1>6, <2>1, KernelFields, PidSets DEF Others, Alike
<1> QED BY <1>2, <1>4, <1>7 DEF r, Wellformed, Same, Fields

LEMMA RR_createIs ==
  ASSUME NEW kk, Wellformed(kk), NEW p \in RrTasks
  PROVE  LET r == RR_create(kk, p)
         IN  /\ Wellformed(r) /\ Others(r, kk, p)
             /\ Same(r, kk, {"status", "avail", "wcet", "capped", "nopreempt"})
             /\ r.status[p] = "SLEEP" /\ r.wcet[p] = slice[p] /\ Slice(r, p)
<1> DEFINE r == RR_create(kk, p)
<1>1. kk \in Kernels  BY DEF Wellformed
<1>2. /\ Same(r, kk, {"status", "avail", "wcet", "capped", "nopreempt"})
      /\ r.status = [kk.status EXCEPT ![p] = "SLEEP"]
      /\ r.avail = [kk.avail EXCEPT ![p] = slice[p]]
      /\ r.wcet = [kk.wcet EXCEPT ![p] = slice[p]]
      /\ r.capped = kk.capped \cup {p}
      /\ r.nopreempt = kk.nopreempt \ {p}
  BY <1>1 DEF Kernels, Same, Fields, RR_create, Status
<1>3. /\ r.status \in [Pids -> Statuses]
      /\ r.avail \in [Pids -> Int]
      /\ r.wcet \in [Pids -> Int]
      /\ r.capped \in SUBSET Pids
      /\ r.nopreempt \in SUBSET Pids
  BY <1>1, <1>2, KernelFields, PidSets, RrAssumption, StatusNames
<1>4. r \in Kernels  BY <1>1, <1>3 DEF Kernels, RR_create, Status
<1> HIDE DEF r
<1>5. Wellformed(r)  BY <1>2, <1>4 DEF Wellformed, Same, Fields
<1>6. Apart(r, kk, p)  BY <1>1, <1>2, KernelFields, PidSets DEF Apart, Same, Fields
<1>7. Others(r, kk, p)  BY <1>1, <1>2, <1>6, KernelFields, PidSets DEF Others, Alike, Same, Fields
<1>8. Slice(r, p)  BY <1>1, <1>2, KernelFields, PidSets, RrAssumption DEF Slice
<1> QED BY <1>1, <1>2, <1>5, <1>7, <1>8, KernelFields, PidSets DEF r

LEMMA CBS_createIs ==
  ASSUME NEW kk, Wellformed(kk), NEW p \in Soft
  PROVE  LET r == CBS_create(kk, p)
         IN  /\ Wellformed(r) /\ Others(r, kk, p)
             /\ Same(r, kk, {"status", "avail", "wcet", "capped", "nopreempt", "nact", "cbs_dline", "asleep"})
             /\ r.status[p] = "SLEEP" /\ r.wcet[p] = cost[p]
             /\ r.nact[p] = 0 /\ r.asleep = kk.asleep \ {p}
<1> DEFINE r == CBS_create(kk, p)
<1>1. kk \in Kernels  BY DEF Wellformed
<1>2. /\ Same(r, kk, {"status", "avail", "wcet", "capped", "nopreempt", "nact", "cbs_dline", "asleep"})
      /\ r.status = [kk.status EXCEPT ![p] = "SLEEP"]
      /\ r.avail = [kk.avail EXCEPT ![p] = cost[p]]
      /\ r.wcet = [kk.wcet EXCEPT ![p] = cost[p]]
      /\ r.capped = kk.capped \cup {p}
      /\ r.nopreempt = kk.nopreempt \ {p}
      /\ r.nact = [kk.nact EXCEPT ![p] = 0]
      /\ r.cbs_dline = [kk.cbs_dline EXCEPT ![p] = 0]
      /\ r.asleep = kk.asleep \ {p}
  BY <1>1 DEF Kernels, Same, Fields, CBS_create, Status
<1>3. /\ r.status \in [Pids -> Statuses]
      /\ r.avail \in [Pids -> Int]
      /\ r.wcet \in [Pids -> Int]
      /\ r.capped \in SUBSET Pids
      /\ r.nopreempt \in SUBSET Pids
      /\ r.nact \in [Ranked -> Nat]
      /\ r.cbs_dline \in [Soft -> Int]
      /\ r.asleep \in SUBSET Pids
  BY <1>1, <1>2, KernelFields, PidSets, StatusNames
<1>4. r \in Kernels  BY <1>1, <1>3 DEF Kernels, CBS_create, Status
<1> HIDE DEF r
<1>5. Wellformed(r)  BY <1>2, <1>4 DEF Wellformed, Same, Fields
<1>6. /\ r.late = kk.late /\ r.edf = kk.edf /\ r.rr = kk.rr
      /\ r.dline = kk.dline /\ r.release = kk.release /\ r.adeadline = kk.adeadline
      /\ r.dl_miss = kk.dl_miss /\ r.U = kk.U
      /\ r.events = kk.events
  BY <1>2 DEF Same, Fields
<1>7. Others(r, kk, p)
  <2>1. Apart(r, kk, p)  BY <1>1, <1>2, <1>6, KernelFields, PidSets DEF Apart, Same, Fields
  <2> QED BY <1>1, <1>2, <1>6, <2>1, KernelFields, PidSets DEF Others, Alike
<1>8. r.status[p] = "SLEEP" /\ r.wcet[p] = cost[p] /\ r.nact[p] = 0  BY <1>1, <1>2, KernelFields, PidSets
<1> QED BY <1>2, <1>5, <1>7, <1>8 DEF r

------------------------------
(* The operators on one list *)

LEMMA PostIs ==
  ASSUME NEW kk, Wellformed(kk), NEW h \in Handlers, NEW p \in Pids \cup {NIL},
         NEW t \in Int, Addressed(Event(h, p, t)), ~Posted(kk, h, p)
  PROVE  LET r == Post(kk, h, p, t)
         IN  /\ Wellformed(r) /\ Others(r, kk, p) /\ Same(r, kk, {"events"})
             /\ Members(r.events) = Members(kk.events) \cup {Event(h, p, t)}
             /\ Posted(r, h, p)
             /\ Earlier(kk, t) => FirstStays(r, kk)
<1> DEFINE r == Post(kk, h, p, t)
           q == kk.events
           e == Event(h, p, t)
           Fits(i) == /\ \A j \in 1 .. i : q[j].time < t
                      /\ i < Len(q) => q[i + 1].time >= t
<1>1. kk \in Kernels /\ EventList(q) /\ q \in Seq(Events)  BY KernelFields DEF Wellformed
<1>2. e \in Events /\ e.handler = h /\ e.pid = p /\ e.time = t  BY DEF Event, Events
<1>3. PICK i \in 0 .. Len(q) : i = CHOOSE j \in 0 .. Len(q) : Fits(j)  BY <1>1, EventFields, TimedPlace
<1>4. Fits(i)  BY <1>1, <1>3, EventFields, TimedPlace
<1> DEFINE v == InsertAt(e, i, q)
<1>5. /\ r = [kk EXCEPT !.events = v]
      /\ Same(r, kk, {"events"}) /\ r.events = v
  <2>1. r = [kk EXCEPT !.events = v]  BY <1>1, <1>3 DEF Post, InsertAt, Event, Kernels
  <2> QED BY <1>1, <2>1 DEF Kernels, Same, Fields
<1>6. /\ EventList(r.events) /\ Members(r.events) = Members(q) \cup {e}
      /\ q # <<>> /\ q[1].time < t => r.events # <<>> /\ r.events[1] = q[1]
  <2>1. ~Listed(q, e.handler, e.pid)  BY <1>2 DEF Posted, Listed
  <2>2. Slot(q, e, i) /\ e \in Events /\ Addressed(e)  BY <1>2, <1>3, <1>4, <2>1 DEF Slot
  <2> HIDE DEF e, q, r
  <2> QED BY <1>1, <1>2, <1>5, <2>2, PostList
<1> HIDE DEF r, v
<1>7. v \in Seq(Events)  BY <1>5, <1>6 DEF EventList, TimedList
<1>8. r \in Kernels  BY <1>1, <1>5, <1>7 DEF Kernels
<1>9. Wellformed(r)
  <2>1. r.edf = kk.edf /\ r.rr = kk.rr /\ r.dline = kk.dline  BY <1>5 DEF Same, Fields
  <2> QED BY <1>6, <1>8, <2>1 DEF Wellformed
<1>10. Others(r, kk, p)
  <2>1. /\ r.status = kk.status /\ r.wcet = kk.wcet /\ r.late = kk.late
        /\ r.edf = kk.edf /\ r.rr = kk.rr /\ r.dline = kk.dline
        /\ r.release = kk.release /\ r.nact = kk.nact /\ r.adeadline = kk.adeadline
        /\ r.dl_miss = kk.dl_miss /\ r.U = kk.U
    BY <1>5 DEF Same, Fields
  <2>2. \A x \in Events : x.pid # p => x # e  BY <1>2
  <2>3. Apart(r, kk, p)  BY <1>5, ApartSame
  <2> QED BY <1>6, <2>1, <2>2, <2>3 DEF Others, Alike
<1>11. Posted(r, h, p)
  <2>1. Listed(r.events, h, p)  BY <1>2, <1>6, ListedIs
  <2> QED BY <2>1 DEF Posted, Listed
<1>12. Earlier(kk, t) => FirstStays(r, kk)  BY <1>6 DEF Earlier, FirstStays
<1> QED BY <1>5, <1>6, <1>9, <1>10, <1>11, <1>12 DEF r

LEMMA UnpostIs ==
  ASSUME NEW kk, Wellformed(kk), NEW h, NEW p
  PROVE  LET r == Unpost(kk, h, p)
         IN  /\ Wellformed(r) /\ Others(r, kk, p) /\ Same(r, kk, {"events"})
             /\ Members(r.events) = {e \in Members(kk.events) : ~(e.handler = h /\ e.pid = p)}
             /\ ~Posted(r, h, p)
             /\ kk.events # <<>> /\ ~FirstIs(kk, h, p) => FirstStays(r, kk)
<1> DEFINE r == Unpost(kk, h, p)
           q == kk.events
           Is(e) == e.handler = h /\ e.pid = p
<1>1. kk \in Kernels /\ EventList(q) /\ q \in Seq(Events)  BY KernelFields DEF Wellformed
<1>2. /\ r \in Kernels /\ Same(r, kk, {"events"}) /\ EventList(r.events)
      /\ Members(r.events) = {e \in Members(q) : ~Is(e)}
      /\ ~Listed(r.events, h, p)
      /\ q # <<>> /\ ~Is(q[1]) => r.events # <<>> /\ r.events[1] = q[1]
  <2>1. CASE ~Posted(kk, h, p)
    <3>1. r = kk  BY <2>1 DEF Unpost
    <3>2. ~Listed(q, h, p)  BY <2>1 DEF Posted, Listed
    <3> HIDE DEF r
    <3> QED BY <1>1, <3>1, <3>2, ListedIs DEF Same
  <2>2. CASE Posted(kk, h, p)
    <3>2. PICK e \in Members(q) : Is(e) /\ e = CHOOSE c \in Members(kk.events) : Is(c)
      BY <2>2 DEF Posted, Members
    <3>3. r = [kk EXCEPT !.events = Extract(e, q)]  BY <1>1, <2>2, <3>2 DEF Unpost, Kernels
    <3>4. r.events = Extract(e, q) /\ Same(r, kk, {"events"})  BY <1>1, <3>3 DEF Kernels, Same, Fields
    <3>5. /\ EventList(r.events) /\ Members(r.events) = Members(q) \ {e}
          /\ ~Listed(r.events, h, p)
          /\ q[1] # e => r.events # <<>> /\ r.events[1] = q[1]
      <4> HIDE DEF r, q
      <4> QED BY <1>1, <3>2, <3>4, UnlistedList, Zenon
    <3>6. r.events \in Seq(Events)
      <4> HIDE DEF r
      <4> QED BY <3>5 DEF EventList, TimedList
    <3>7. r \in Kernels  BY <1>1, <3>3, <3>4, <3>6 DEF Kernels
    <3>8. \A x \in Members(q) : Is(x) <=> x = e
      <4>1. ASSUME NEW x \in Members(q), Is(x) PROVE x = e
        <5>1. PICK i \in DOMAIN q, j \in DOMAIN q : x = q[i] /\ e = q[j]  BY DEF Members
        <5> QED BY <1>1, <3>2, <4>1, <5>1 DEF EventList, TimedList, OneEach
      <4> QED BY <3>2, <4>1, Zenon
    <3>9. Members(q) \ {e} = {x \in Members(q) : ~Is(x)}  BY <3>8
    <3> HIDE DEF r, q
    <3> QED BY <3>2, <3>4, <3>5, <3>7, <3>9, Zenon
  <2> QED BY <2>1, <2>2
<1> HIDE DEF r
<1>3. Wellformed(r)  BY <1>2 DEF Wellformed, Same, Fields
<1>4. Others(r, kk, p)  BY <1>2 DEF Others, Alike, Apart, Same, Fields
<1> QED BY <1>2, <1>3, <1>4 DEF r, FirstIs, FirstStays, Posted, Listed

\* A timer is set again, whether or not it was set before.
LEMMA RepostIs ==
  ASSUME NEW kk, Wellformed(kk), NEW h \in Handlers, NEW p \in Pids \cup {NIL},
         NEW t \in Int, Addressed(Event(h, p, t))
  PROVE  LET r == Post(Unpost(kk, h, p), h, p, t)
         IN  /\ Wellformed(r) /\ Others(r, kk, p) /\ Same(r, kk, {"events"})
             /\ Members(r.events) =
                  {e \in Members(kk.events) : ~(e.handler = h /\ e.pid = p)}
                    \cup {Event(h, p, t)}
             /\ Earlier(kk, t) /\ ~FirstIs(kk, h, p) => FirstStays(r, kk)
<1> DEFINE m == Unpost(kk, h, p)
           r == Post(m, h, p, t)
<1>1. /\ Wellformed(m) /\ Others(m, kk, p) /\ Same(m, kk, {"events"})
      /\ Members(m.events) = {e \in Members(kk.events) : ~(e.handler = h /\ e.pid = p)}
      /\ ~Posted(m, h, p)
      /\ kk.events # <<>> /\ ~FirstIs(kk, h, p) => FirstStays(m, kk)
  BY UnpostIs
<1> HIDE DEF m
<1>2. /\ Wellformed(r) /\ Others(r, m, p) /\ Same(r, m, {"events"})
      /\ Members(r.events) = Members(m.events) \cup {Event(h, p, t)}
      /\ Earlier(m, t) => FirstStays(r, m)
  <2>1. Wellformed(m) /\ ~Posted(m, h, p)  BY <1>1
  <2> QED BY <2>1, PostIs
<1> HIDE DEF r
<1> QED BY <1>1, <1>2, OthersTrans DEF r, m, Earlier, FirstStays, Same

\* oneshot_wake_up takes the first event off the list.
LEMMA TailIs ==
  ASSUME NEW kk, Wellformed(kk), kk.events # <<>>
  PROVE  LET r == [kk EXCEPT !.events = Tail(@)]
             e == kk.events[1]
         IN  /\ Wellformed(r) /\ Others(r, kk, e.pid) /\ Same(r, kk, {"events"})
             /\ Members(r.events) = Members(kk.events) \ {e}
             /\ e \in Members(kk.events) /\ e \in Events /\ Addressed(e)
             /\ ~Posted(r, e.handler, e.pid)
             /\ \A x \in Members(kk.events) : e.time <= x.time
             /\ r.events = Tail(kk.events)
<1> DEFINE r == [kk EXCEPT !.events = Tail(@)]
           q == kk.events
           e == q[1]
<1>1. kk \in Kernels /\ EventList(q) /\ q \in Seq(Events) /\ q # <<>>  BY KernelFields DEF Wellformed
<1>2. Same(r, kk, {"events"}) /\ r.events = Tail(q)  BY <1>1 DEF Kernels, Same, Fields
<1>3. /\ EventList(r.events) /\ Members(r.events) = Members(q) \ {e}
      /\ e \in Members(q) /\ Addressed(e)
      /\ ~Listed(r.events, e.handler, e.pid)
      /\ \A x \in Members(q) : e.time <= x.time
  <2> HIDE DEF r, q
  <2> QED BY <1>1, <1>2, TailList
<1>4. e \in Events  BY <1>1, <1>3 DEF Members
<1>6. r \in Kernels  BY <1>1, <1>3 DEF Kernels, EventList, TimedList
<1> HIDE DEF r
<1>7. Wellformed(r)  BY <1>2, <1>3, <1>6 DEF Wellformed, Same, Fields
<1>8. Others(r, kk, e.pid)  BY <1>2, <1>3 DEF Others, Alike, Apart, Same, Fields
<1> QED BY <1>2, <1>3, <1>4, <1>7, <1>8 DEF r, Posted, Listed

\* The key of a task that is not queued.
LEMMA DlineIs ==
  ASSUME NEW kk, Wellformed(kk), NEW p \in Ranked, p \notin Members(kk.edf), NEW d \in Int
  PROVE  LET r == [kk EXCEPT !.dline[p] = d]
         IN  /\ Wellformed(r) /\ Others(r, kk, p) /\ Same(r, kk, {"dline"})
             /\ r.dline = [kk.dline EXCEPT ![p] = d]
<1> DEFINE r == [kk EXCEPT !.dline[p] = d]
<1>1. kk \in Kernels  BY DEF Wellformed
<1>2. Same(r, kk, {"dline"}) /\ r.dline = [kk.dline EXCEPT ![p] = d]  BY <1>1 DEF Kernels, Same, Fields
<1>4. r \in Kernels  BY <1>1, <1>2, KernelFields DEF Kernels
<1> HIDE DEF r
<1>5. /\ r.status = kk.status /\ r.wcet = kk.wcet /\ r.late = kk.late
      /\ r.edf = kk.edf /\ r.rr = kk.rr /\ r.release = kk.release
      /\ r.nact = kk.nact /\ r.adeadline = kk.adeadline /\ r.events = kk.events
      /\ r.dl_miss = kk.dl_miss /\ r.U = kk.U
  BY <1>2 DEF Same, Fields
<1>6. InOrder(r.edf, r.dline)  BY <1>1, <1>2, <1>5, KernelFields DEF InOrder, Wellformed, Members
<1>7. Wellformed(r)  BY <1>4, <1>5, <1>6 DEF Wellformed
<1> QED BY <1>1, <1>2, <1>5, <1>7, KernelFields DEF r, Others, Alike, Apart

LEMMA EDF_insertIs ==
  ASSUME NEW kk, Wellformed(kk), NEW p \in Ranked, p \notin Members(kk.edf)
  PROVE  LET r == EDF_insert(kk, p)
         IN  /\ Wellformed(r) /\ Others(r, kk, p) /\ Same(r, kk, {"edf"})
             /\ Members(r.edf) = Members(kk.edf) \cup {p}
<1> DEFINE r == EDF_insert(kk, p)
           q == InsertByKey(p, kk.edf, kk.dline)
<1>1. kk \in Kernels /\ kk.edf \in Seq(Ranked) /\ kk.dline \in [Ranked -> Int]
      /\ Distinct(kk.edf) /\ InOrder(kk.edf, kk.dline)
  BY KernelFields DEF Wellformed
<1>2. Same(r, kk, {"edf"}) /\ r.edf = q  BY <1>1 DEF Kernels, Same, Fields, EDF_insert
<1>3. q \in Seq(Ranked) /\ Distinct(q) /\ Members(q) = Members(kk.edf) \cup {p}
  BY <1>1, InsertByKeyProperties
<1>4. InOrder(q, kk.dline)  BY <1>1, InsertByKeyKeepsOrder
<1>5. r \in Kernels  BY <1>1, <1>3 DEF Kernels, EDF_insert
<1> HIDE DEF r, q
<1>6. /\ r.status = kk.status /\ r.wcet = kk.wcet /\ r.late = kk.late
      /\ r.dline = kk.dline /\ r.rr = kk.rr /\ r.release = kk.release
      /\ r.nact = kk.nact /\ r.adeadline = kk.adeadline /\ r.events = kk.events
      /\ r.dl_miss = kk.dl_miss /\ r.U = kk.U
  BY <1>2 DEF Same, Fields
<1> QED BY <1>2, <1>3, <1>4, <1>5, <1>6, ApartSame DEF r, Others, Alike, Wellformed

LEMMA EDF_dispatchIs ==
  ASSUME NEW kk, Wellformed(kk), NEW p \in Members(kk.edf)
  PROVE  LET r == EDF_dispatch(kk, p)
         IN  /\ Wellformed(r) /\ Others(r, kk, p) /\ Same(r, kk, {"edf"})
             /\ Members(r.edf) = Members(kk.edf) \ {p}
<1> DEFINE r == EDF_dispatch(kk, p)
           q == Extract(p, kk.edf)
<1>1. kk \in Kernels /\ kk.edf \in Seq(Ranked) /\ Distinct(kk.edf) /\ InOrder(kk.edf, kk.dline)
  BY KernelFields DEF Wellformed
<1>2. Same(r, kk, {"edf"}) /\ r.edf = q  BY <1>1 DEF Kernels, Same, Fields, EDF_dispatch
<1>3. q \in Seq(Ranked) /\ Distinct(q) /\ Members(q) = Members(kk.edf) \ {p}  BY <1>1, ExtractProperties
<1>4. InOrder(q, kk.dline)  BY <1>1, ExtractKeepsOrder
<1>5. r \in Kernels  BY <1>1, <1>3 DEF Kernels, EDF_dispatch
<1> HIDE DEF r, q
<1>6. /\ r.status = kk.status /\ r.wcet = kk.wcet /\ r.late = kk.late
      /\ r.dline = kk.dline /\ r.rr = kk.rr /\ r.release = kk.release
      /\ r.nact = kk.nact /\ r.adeadline = kk.adeadline /\ r.events = kk.events
      /\ r.dl_miss = kk.dl_miss /\ r.U = kk.U
  BY <1>2 DEF Same, Fields
<1> QED BY <1>2, <1>3, <1>4, <1>5, <1>6, ApartSame DEF r, Others, Alike, Wellformed

LEMMA RR_dispatchIs ==
  ASSUME NEW kk, Wellformed(kk), NEW p \in Members(kk.rr)
  PROVE  LET r == RR_dispatch(kk, p)
         IN  /\ Wellformed(r) /\ Others(r, kk, p) /\ Same(r, kk, {"rr"})
             /\ Members(r.rr) = Members(kk.rr) \ {p}
<1> DEFINE r == RR_dispatch(kk, p)
           q == Extract(p, kk.rr)
<1>1. kk \in Kernels /\ kk.rr \in Seq(RrTasks) /\ Distinct(kk.rr)  BY KernelFields DEF Wellformed
<1>2. Same(r, kk, {"rr"}) /\ r.rr = q  BY <1>1 DEF Kernels, Same, Fields, RR_dispatch
<1>3. q \in Seq(RrTasks) /\ Distinct(q) /\ Members(q) = Members(kk.rr) \ {p}  BY <1>1, ExtractProperties
<1>4. r \in Kernels  BY <1>1, <1>3 DEF Kernels, RR_dispatch
<1> HIDE DEF r, q
<1>5. p \in RrTasks  BY <1>1 DEF Members
<1>6. Apart(r, kk, p)  BY <1>2, <1>5 DEF Apart, Same, Fields
<1> QED BY <1>2, <1>3, <1>4, <1>6 DEF r, Others, Alike, Wellformed, Same, Fields

\* A task goes to either end of the Round Robin queue.
LEMMA RrEndsIs ==
  ASSUME NEW kk, Wellformed(kk), NEW p \in RrTasks, p \notin Members(kk.rr),
         NEW q, q = InsertFirst(p, kk.rr) \/ q = InsertLast(p, kk.rr)
  PROVE  LET r == [kk EXCEPT !.rr = q]
         IN  /\ Wellformed(r) /\ Others(r, kk, p) /\ Same(r, kk, {"rr"})
             /\ Members(r.rr) = Members(kk.rr) \cup {p}
<1> DEFINE r == [kk EXCEPT !.rr = q]
<1>1. kk \in Kernels /\ kk.rr \in Seq(RrTasks) /\ Distinct(kk.rr)  BY KernelFields DEF Wellformed
<1>2. Same(r, kk, {"rr"}) /\ r.rr = q  BY <1>1 DEF Kernels, Same, Fields
<1>3. q \in Seq(RrTasks) /\ Distinct(q) /\ Members(q) = Members(kk.rr) \cup {p}
  <2>1. CASE q = InsertFirst(p, kk.rr)  BY <1>1, <2>1, InsertFirstProperties
  <2>2. CASE q = InsertLast(p, kk.rr)  BY <1>1, <2>2, InsertLastProperties
  <2> QED BY <2>1, <2>2
<1>4. r \in Kernels  BY <1>1, <1>3 DEF Kernels
<1> HIDE DEF r
<1> QED BY <1>2, <1>3, <1>4 DEF r, Others, Alike, Apart, Wellformed, Same, Fields

LEMMA OwedIs ==
  ASSUME NEW kk \in Kernels, NEW p \in Pids, kk.wcet[p] > 0
  PROVE  Owed(kk, p) \in Nat
<1>1. kk.avail[p] \in Int /\ kk.wcet[p] \in Int  BY KernelFields
<1>2. ASSUME NEW a \in Int, NEW w \in Int, w > 0, ~(a > 0) PROVE (-a) \div w \in Nat  BY <1>2
<1> QED BY <1>1, <1>2 DEF Owed

\* The loop of RR_public_scheduler turns the queue and gives slices.
LEMMA RR_schedulerIs ==
  ASSUME NEW kk, Wellformed(kk), kk.rr # <<>>, \A p \in Members(kk.rr) : kk.wcet[p] > 0
  PROVE  LET r == RR_scheduler(kk)
         IN  /\ Wellformed(r) /\ Same(r, kk, {"rr", "avail"})
             /\ Members(r.rr) = Members(kk.rr) /\ r.rr # <<>>
             /\ \A p \in Pids \ Members(kk.rr) : r.avail[p] = kk.avail[p]
             /\ \A p \in Members(kk.rr) :
                  /\ kk.avail[p] <= kk.wcet[p] => r.avail[p] <= kk.wcet[p]
                  /\ \/ r.avail[p] > kk.avail[p]
                     \/ \A x \in RrTasks : Sooner(r.rr, x, p) =>
                          Sooner(kk.rr, x, p) /\ r.avail[x] = kk.avail[x]
<1> DEFINE r == RR_scheduler(kk)
           q == kk.rr
           n == Len(q)
           owed(i) == Owed(kk, q[i])
           least(i) == \A j \in DOMAIN q : owed(i) <= owed(j)
           First(i) == least(i) /\ \A j \in 1 .. i - 1 : ~least(j)
<1>1. kk \in Kernels /\ q \in Seq(RrTasks) /\ Distinct(q)  BY KernelFields DEF Wellformed
<1>2. n \in Nat /\ n > 0 /\ DOMAIN q = 1 .. n /\ \A i \in 1 .. n : q[i] \in RrTasks  BY <1>1
<1> HIDE DEF n
<1>3. \A i \in 1 .. n : owed(i) \in Nat
  <2> TAKE i \in 1 .. n
  <2> QED BY <1>1, <1>2, PidSets, OwedIs DEF Members
<1> HIDE DEF owed
<1>4. \E i \in 1 .. n : First(i)
  <2> DEFINE B == {owed(i) : i \in 1 .. n}
             G == {i \in 1 .. n : least(i)}
  <2>1. B \in SUBSET Nat /\ B # {}  BY <1>2, <1>3
  <2>2. \E b \in B : \A c \in B : b <= c
    <3> HIDE DEF B
    <3> QED BY <2>1, LeastElement
  <2>3. G # {}  BY <1>2, <2>2
  <2>4. G \in SUBSET Nat  BY <1>2
  <2>5. PICK f \in G : \A j \in G : f <= j
    <3> HIDE DEF G
    <3> QED BY <2>3, <2>4, LeastElement
  <2>6. \A j \in 1 .. f - 1 : ~least(j)
    <3> SUFFICES ASSUME NEW j \in 1 .. f - 1, least(j) PROVE FALSE  OBVIOUS
    <3> HIDE DEF least
    <3> QED BY <1>2, <2>5
  <2> HIDE DEF least
  <2> QED BY <2>5, <2>6
<1> DEFINE f == CHOOSE i \in DOMAIN q : First(i)
<1>5. f \in 1 .. n /\ First(f)
  <2> HIDE DEF First
  <2> QED BY <1>2, <1>4
<1> DEFINE turns == Owed(kk, q[f])
           before == {q[j] : j \in 1 .. f - 1}
           av == [p \in Pids |->
                   kk.avail[p] + (IF p \in before THEN turns + 1
                                  ELSE IF p \in Members(q) THEN turns ELSE 0) * kk.wcet[p]]
           rot == SubSeq(q, f, Len(q)) \o SubSeq(q, 1, f - 1)
<1>6. r = [kk EXCEPT !.rr = rot, !.avail = av]  BY DEF RR_scheduler, owed
<1> HIDE DEF r, f
<1>7. turns \in Nat  BY <1>3, <1>5 DEF owed
<1>8. av \in [Pids -> Int]
  <2> HIDE DEF turns, before
  <2>1. \A p \in Pids : kk.avail[p] \in Int /\ kk.wcet[p] \in Int  BY <1>1, KernelFields, Zenon
  <2> QED BY <1>7, <2>1
<1>9. /\ rot \in Seq(RrTasks) /\ Distinct(rot) /\ Members(rot) = Members(q)
      /\ \A x, y : y \notin before /\ Sooner(rot, x, y) => x \notin before /\ Sooner(q, x, y)
  BY <1>1, <1>5, RotationIs DEF n
<1>10. rot # <<>>
  <2>1. q[1] \in Members(q)  BY <1>2 DEF Members
  <2> HIDE DEF rot
  <2>2. \E i \in DOMAIN rot : TRUE  BY <1>9, <2>1 DEF Members
  <2> QED BY <2>2
<1> HIDE DEF rot
<1>13. before \subseteq Members(q)  BY <1>2, <1>5 DEF Members
<1>14. \A p \in Pids : p \notin before /\ (p \in Members(q) => turns = 0) => av[p] = kk.avail[p]
  <2> SUFFICES ASSUME NEW p \in Pids PROVE kk.avail[p] + 0 * kk.wcet[p] = kk.avail[p]  OBVIOUS
  <2> QED BY <1>1, KernelFields
<1>15. ASSUME NEW p \in Members(q)
       PROVE  /\ kk.avail[p] <= kk.wcet[p] => av[p] <= kk.wcet[p]
              /\ \/ av[p] > kk.avail[p]
                 \/ \A x \in RrTasks : Sooner(rot, x, p) => Sooner(q, x, p) /\ av[x] = kk.avail[x]
  <2> DEFINE a == kk.avail[p]
             w == kk.wcet[p]
             m == IF p \in before THEN turns + 1 ELSE turns
  <2>1. PICK j \in 1 .. n : p = q[j]  BY <1>2 DEF Members
  <2>2. p \in Pids /\ a \in Int /\ w \in Int /\ w > 0 /\ m \in Nat
    BY <1>1, <1>2, <1>7, <2>1, PidSets, KernelFields
  <2>3. m <= owed(j)
    <3>1. least(f)  BY <1>5
    <3>2. CASE p \notin before  BY <1>2, <1>5, <2>1, <3>1, <3>2 DEF owed
    <3>3. CASE p \in before
      <4>1. PICK i \in 1 .. f - 1 : p = q[i]  BY <3>3
      <4>2. i \in 1 .. n /\ ~least(i)  BY <1>2, <1>5, <4>1
      <4>3. PICK h \in 1 .. n : ~(owed(i) <= owed(h))  BY <1>2, <4>2
      <4>4. owed(f) <= owed(h) /\ owed(i) \in Nat /\ owed(h) \in Nat /\ owed(f) \in Nat
        BY <1>2, <1>3, <1>5, <3>1, <4>2
      <4>5. owed(f) = turns /\ owed(j) = owed(i)  BY <2>1, <4>1 DEF owed
      <4> HIDE DEF turns, before, least
      <4> QED BY <3>3, <4>3, <4>4, <4>5
    <3> QED BY <3>2, <3>3
  <2>4. owed(j) = IF a > 0 THEN 0 ELSE (-a) \div w + 1  BY <2>1 DEF owed, Owed
  <2>5. av[p] = a + m * w  BY <1>15, <2>2
  <2> HIDE DEF a, w, m, turns, before
  <2>6. /\ a <= w => av[p] <= w
        /\ m = 0 \/ av[p] > a
    <3>1. m <= IF a > 0 THEN 0 ELSE (-a) \div w + 1  BY <2>3, <2>4
    <3> HIDE DEF av
    <3> QED BY <2>2, <2>5, <3>1, TurnsGive
  <2>7. m = 0 => p \notin before /\ turns = 0  BY <1>7 DEF m
  <2>8. ASSUME m = 0, NEW x \in RrTasks, Sooner(rot, x, p)
        PROVE  Sooner(q, x, p) /\ av[x] = kk.avail[x]
    BY <1>9, <1>14, <2>7, <2>8, PidSets
  <2> QED BY <2>6, <2>8 DEF a, w
<1> HIDE DEF av, before
<1>11. Same(r, kk, {"rr", "avail"}) /\ r.rr = rot /\ r.avail = av  BY <1>1, <1>6 DEF Kernels, Same, Fields
<1>12. r \in Kernels  BY <1>1, <1>6, <1>8, <1>9 DEF Kernels
<1>16. \A p \in Pids \ Members(q) : av[p] = kk.avail[p]  BY <1>13, <1>14
<1> QED BY <1>9, <1>10, <1>11, <1>12, <1>15, <1>16 DEF r, Wellformed, Same, Fields

------------------------------
(* The timers of a task: for each handler the times of its events, of which  *)
(* there is at most one.                                                     *)

LEMMA PostedIs ==
  ASSUME NEW kk, NEW h \in Handlers, NEW p
  PROVE  Posted(kk, h, p) <=> Timers(kk, p)[h] # {}
BY DEF Timers, Posted, Members

LEMMA TimersSame ==
  ASSUME NEW r, NEW kk, r.events = kk.events, NEW p
  PROVE  Timers(r, p) = Timers(kk, p)
BY DEF Timers

LEMMA OthersTimers ==
  ASSUME NEW r, Wellformed(r), NEW kk, Wellformed(kk), NEW p, Others(r, kk, p), NEW q, q # p
  PROVE  Timers(r, q) = Timers(kk, q)
<1>3. ASSUME NEW h
      PROVE  {c \in Members(r.events) : c.handler = h /\ c.pid = q}
               = {c \in Members(kk.events) : c.handler = h /\ c.pid = q}
  BY DEF Others, Members, Wellformed, EventList, TimedList
<1> QED BY <1>3 DEF Timers

\* The handlers are seven, and their timers are seven sets of times.
LEMMA TimersAt ==
  ASSUME NEW kk, NEW p
  PROVE  /\ DOMAIN Timers(kk, p) = Handlers
         /\ Timers(kk, p) = [h \in Handlers |-> Timers(kk, p)[h]]
BY DEF Timers

LEMMA PostTimers ==
  ASSUME NEW kk, NEW r, NEW h \in Handlers, NEW p, NEW t, ~Posted(kk, h, p),
         Members(r.events) = Members(kk.events) \cup {Event(h, p, t)}
  PROVE  Timers(r, p) = [Timers(kk, p) EXCEPT ![h] = {t}]
<1>1. Event(h, p, t).handler = h /\ Event(h, p, t).pid = p /\ Event(h, p, t).time = t  BY DEF Event
<1>3. Timers(r, p)[h] = {t}  BY <1>1 DEF Timers, Posted, Members
<1>4. ASSUME NEW g \in Handlers, g # h PROVE Timers(r, p)[g] = Timers(kk, p)[g]  BY <1>1, <1>4 DEF Timers
<1> QED BY <1>3, <1>4, TimersAt

LEMMA UnpostTimers ==
  ASSUME NEW kk, NEW r, NEW h \in Handlers, NEW p,
         Members(r.events) = {e \in Members(kk.events) : ~(e.handler = h /\ e.pid = p)}
  PROVE  Timers(r, p) = [Timers(kk, p) EXCEPT ![h] = {}]
<1>1. Timers(r, p)[h] = {}  BY DEF Timers
<1>2. ASSUME NEW g \in Handlers, g # h PROVE Timers(r, p)[g] = Timers(kk, p)[g]  BY <1>2 DEF Timers
<1> QED BY <1>1, <1>2, TimersAt

LEMMA RepostTimers ==
  ASSUME NEW kk, NEW r, NEW h \in Handlers, NEW p, NEW t,
         Members(r.events) = {e \in Members(kk.events) : ~(e.handler = h /\ e.pid = p)}
                               \cup {Event(h, p, t)}
  PROVE  Timers(r, p) = [Timers(kk, p) EXCEPT ![h] = {t}]
<1>1. Event(h, p, t).handler = h /\ Event(h, p, t).pid = p /\ Event(h, p, t).time = t  BY DEF Event
<1>2. Timers(r, p)[h] = {t}  BY <1>1 DEF Timers
<1>3. ASSUME NEW g \in Handlers, g # h PROVE Timers(r, p)[g] = Timers(kk, p)[g]  BY <1>1, <1>3 DEF Timers
<1> QED BY <1>2, <1>3, TimersAt

\* The three operations on the event list, by the timers they set or reset.
LEMMA Posting ==
  ASSUME NEW kk, Wellformed(kk), NEW h \in Handlers, NEW p \in Pids, NEW t \in Int,
         Addressed(Event(h, p, t)), Timers(kk, p)[h] = {}
  PROVE  LET r == Post(kk, h, p, t)
         IN  /\ Wellformed(r) /\ Others(r, kk, p) /\ Same(r, kk, {"events"})
             /\ Timers(r, p) = [Timers(kk, p) EXCEPT ![h] = {t}]
             /\ Earlier(kk, t) => FirstStays(r, kk)
<1> DEFINE r == Post(kk, h, p, t)
<1>1. ~Posted(kk, h, p)  BY PostedIs
<1>3. Members(r.events) = Members(kk.events) \cup {Event(h, p, t)}  BY <1>1, PostIs
<1>4. Earlier(kk, t) => FirstStays(r, kk)  BY <1>1, PostIs
<1> HIDE DEF r
<1> QED BY <1>1, <1>3, <1>4, PostTimers, PostIs DEF r

LEMMA Unposting ==
  ASSUME NEW kk, Wellformed(kk), NEW h \in Handlers, NEW p \in Pids
  PROVE  LET r == Unpost(kk, h, p)
         IN  /\ Wellformed(r) /\ Others(r, kk, p) /\ Same(r, kk, {"events"})
             /\ Timers(r, p) = [Timers(kk, p) EXCEPT ![h] = {}]
             /\ kk.events # <<>> /\ ~FirstIs(kk, h, p) => FirstStays(r, kk)
<1> DEFINE r == Unpost(kk, h, p)
<1> HIDE DEF r
<1> QED BY UnpostTimers, UnpostIs DEF r

LEMMA Reposting ==
  ASSUME NEW kk, Wellformed(kk), NEW h \in Handlers, NEW p \in Pids, NEW t \in Int,
         Addressed(Event(h, p, t))
  PROVE  LET r == Post(Unpost(kk, h, p), h, p, t)
         IN  /\ Wellformed(r) /\ Others(r, kk, p) /\ Same(r, kk, {"events"})
             /\ Timers(r, p) = [Timers(kk, p) EXCEPT ![h] = {t}]
             /\ Earlier(kk, t) /\ ~FirstIs(kk, h, p) => FirstStays(r, kk)
<1> DEFINE r == Post(Unpost(kk, h, p), h, p, t)
<1> HIDE DEF r
<1> QED BY RepostTimers, RepostIs DEF r

------------------------------
(* The invariant of one task, p.  x is the task that has the processor, or   *)
(* NIL within a primitive that has given it up; t is the time.               *)

LEMMA TaskAlike ==
  ASSUME NEW kk, NEW r, NEW q \in Pids, Alike(r, kk, q), Timers(r, q) = Timers(kk, q),
         NEW x, NEW y, q = x <=> q = y, NEW t, TaskOK(kk, x, t, q)
  PROVE  TaskOK(r, y, t, q)
BY DEF Alike, TaskOK, ReleaseOK, CbsTimersOK, EdfTimersOK, QueueOK

\* What is done for one task leaves the others as they should be.
LEMMA AllButOne ==
  ASSUME NEW kk, NEW x, NEW t, AllOK(kk, x, t), NEW r, Wellformed(r),
         NEW p \in Pids, Others(r, kk, p), NEW y, TaskOK(r, y, t, p),
         \A q \in Pids \ {p} : q = x <=> q = y
  PROVE  AllOK(r, y, t)
<1> SUFFICES ASSUME NEW q \in Pids, q # p PROVE TaskOK(r, y, t, q)  BY DEF AllOK
<1> QED BY OthersTimers, TaskAlike DEF AllOK, Others

LEMMA AllLikewise ==
  ASSUME NEW kk, NEW x, NEW t, AllOK(kk, x, t), NEW r, Wellformed(r), Likewise(r, kk)
  PROVE  AllOK(r, x, t)
BY TaskAlike DEF AllOK, Likewise

------------------------------
(* Fields that the invariant of a task does not mention.                     *)

LEMMA AsideIs ==
  ASSUME NEW kk, Wellformed(kk), NEW r \in Kernels, NEW C \in SUBSET Aside, Same(r, kk, C)
  PROVE  /\ Wellformed(r) /\ Likewise(r, kk)
         /\ \A p : Apart(r, kk, p) => Others(r, kk, p)
         /\ C \cap {"avail", "capped", "cap_lasttime", "schedule_time"} = {} => \A p : Others(r, kk, p)
<1>1. /\ Wellformed(r) /\ Likewise(r, kk)
      /\ \A p : Apart(r, kk, p) => Others(r, kk, p)
  BY TimersSame DEF Likewise, Others, Alike, Apart, Wellformed, Same, Fields, Aside
<1>2. C \cap {"avail", "capped", "cap_lasttime", "schedule_time"} = {} => \A p : Apart(r, kk, p)
  BY DEF Apart, Same, Fields, Aside
<1> QED BY <1>1, <1>2

LEMMA RechargeIs ==
  ASSUME NEW kk, Wellformed(kk), NEW p \in Pids
  PROVE  LET r == Recharge(kk, p)
         IN  /\ Wellformed(r) /\ Likewise(r, kk) /\ Others(r, kk, p)
             /\ Same(r, kk, {"avail", "capped"})
<1> DEFINE r == Recharge(kk, p)
<1>1. kk \in Kernels  BY DEF Wellformed
<1>2. /\ Same(r, kk, {"avail", "capped"})
      /\ r.avail = [kk.avail EXCEPT ![p] = kk.wcet[p]]
      /\ r.capped = IF WcetCheck THEN kk.capped \cup {p} ELSE kk.capped
  BY <1>1 DEF Kernels, Same, Fields, Recharge
<1>3. /\ r.avail \in [Pids -> Int]
      /\ r.capped \in SUBSET Pids
  BY <1>1, <1>2, KernelFields, PidSets
<1>4. r \in Kernels  BY <1>1, <1>3 DEF Kernels, Recharge
<1> HIDE DEF r
<1>5. Apart(r, kk, p)  BY <1>1, <1>2, KernelFields, PidSets DEF Apart, Same, Fields
<1> QED BY <1>2, <1>4, <1>5, AsideIs DEF r, Aside

LEMMA CBS_avail_time_checkIs ==
  ASSUME NEW kk, Wellformed(kk), NEW p \in Soft,
         kk.wcet[p] > 0
  PROVE  LET r == CBS_avail_time_check(kk, p)
         IN  /\ Wellformed(r) /\ Likewise(r, kk) /\ Others(r, kk, p)
             /\ Same(r, kk, {"cbs_dline", "avail"})
<1> DEFINE r == CBS_avail_time_check(kk, p)
           n == IF kk.avail[p] > 0 THEN 0 ELSE (-kk.avail[p]) \div kk.wcet[p] + 1
<1>1. kk \in Kernels  BY DEF Wellformed
<1>2. /\ Same(r, kk, {"cbs_dline", "avail"})
      /\ r.cbs_dline = [kk.cbs_dline EXCEPT ![p] = @ + n * period[p]]
      /\ r.avail = [kk.avail EXCEPT ![p] = @ + n * kk.wcet[p]]
  BY <1>1 DEF Kernels, Same, Fields, CBS_avail_time_check
<1>3. /\ r.cbs_dline \in [Soft -> Int]
      /\ r.avail \in [Pids -> Int]
  <2>1. kk.avail \in [Pids -> Int] /\ kk.wcet \in [Pids -> Int] /\ kk.cbs_dline \in [Soft -> Int]
        /\ p \in Pids /\ period[p] \in Nat
    BY <1>1, KernelFields, PidSets
  <2>2. n \in Nat  BY <2>1, TurnsIs
  <2> HIDE DEF n, r
  <2> QED BY <1>2, <2>1, <2>2
<1>4. r \in Kernels  BY <1>1, <1>3 DEF Kernels, CBS_avail_time_check
<1> HIDE DEF r
<1>5. Apart(r, kk, p)  BY <1>1, <1>2, KernelFields, PidSets DEF Apart, Same, Fields
<1> QED BY <1>2, <1>4, <1>5, AsideIs DEF r, Aside

LEMMA UnfreezeIs ==
  ASSUME NEW kk, Wellformed(kk), NEW p \in Pids
  PROVE  LET r == Unfreeze(kk, p)
         IN  /\ Wellformed(r) /\ Likewise(r, kk) /\ \A q : Others(r, kk, q)
             /\ Same(r, kk, {"frozen", "frozen_activations"})
<1> DEFINE r == Unfreeze(kk, p)
<1>1. kk \in Kernels  BY DEF Wellformed
<1>2. /\ Same(r, kk, {"frozen", "frozen_activations"})
      /\ r.frozen = IF p \in Freezable THEN kk.frozen \ {p} ELSE kk.frozen
      /\ r.frozen_activations = IF p \in Freezable THEN [kk.frozen_activations EXCEPT ![p] = 0] ELSE kk.frozen_activations
  BY <1>1 DEF Kernels, Same, Fields, Unfreeze
<1>3. /\ r.frozen \in SUBSET Freezable
      /\ r.frozen_activations \in [Freezable -> Int]
  BY <1>1, <1>2, KernelFields, PidSets
<1>4. r \in Kernels  BY <1>1, <1>3 DEF Kernels, Unfreeze
<1> HIDE DEF r
<1> QED BY <1>2, <1>4, AsideIs DEF r, Aside

LEMMA EDF_timer_deadlineIs ==
  ASSUME NEW kk, Wellformed(kk), NEW p \in Edf
  PROVE  LET r == EDF_timer_deadline(kk, p)
         IN  /\ Wellformed(r) /\ Others(r, kk, p)
             /\ Same(r, kk, {"dl_miss"})
             /\ r.dl_miss = [kk.dl_miss EXCEPT ![p] = kk.dl_miss[p] + 1]
<1> DEFINE r == EDF_timer_deadline(kk, p)
<1>1. kk \in Kernels  BY DEF Wellformed
<1>2. /\ Same(r, kk, {"dl_miss"})
      /\ r.dl_miss = [kk.dl_miss EXCEPT ![p] = kk.dl_miss[p] + 1]
  BY <1>1 DEF Kernels, Same, Fields, EDF_timer_deadline
<1>3. /\ r.dl_miss \in [Edf -> Nat]  BY <1>1, <1>2, KernelFields, PidSets
<1>4. r \in Kernels  BY <1>1, <1>3 DEF Kernels, EDF_timer_deadline
<1> HIDE DEF r
<1>6. /\ r.status = kk.status /\ r.wcet = kk.wcet /\ r.edf = kk.edf
      /\ r.rr = kk.rr /\ r.dline = kk.dline /\ r.release = kk.release
      /\ r.nact = kk.nact /\ r.adeadline = kk.adeadline /\ r.events = kk.events
      /\ r.late = kk.late /\ r.U = kk.U
  BY <1>2 DEF Same, Fields
<1>7. Others(r, kk, p)
  <2>1. Apart(r, kk, p)  BY <1>2, ApartSame
  <2> QED BY <1>1, <1>2, <1>6, <2>1, KernelFields, PidSets DEF Others, Alike
<1> QED BY <1>2, <1>4, <1>7 DEF r, Wellformed, Same, Fields

LEMMA BandwidthInt ==
  ASSUME NEW p \in Edf, NEW c \in Int
  PROVE  Bandwidth(p, c) \in Int
BY EdfAssumption, PidSets DEF Bandwidth

LEMMA EDF_freeIs ==
  ASSUME NEW kk, Wellformed(kk), NEW p \in Edf
  PROVE  LET r == EDF_free(kk, p)
         IN  /\ Wellformed(r) /\ Others(r, kk, p)
             /\ Same(r, kk, {"status", "U"})
             /\ r.status = [kk.status EXCEPT ![p] = "FREE"]
             /\ r.U = kk.U - Bandwidth(p, kk.wcet[p])
<1> DEFINE r == EDF_free(kk, p)
<1>1. kk \in Kernels  BY DEF Wellformed
<1>2. /\ Same(r, kk, {"status", "U"})
      /\ r.status = [kk.status EXCEPT ![p] = "FREE"]
      /\ r.U = kk.U - Bandwidth(p, kk.wcet[p])
  BY <1>1 DEF Kernels, Same, Fields, EDF_free, Status
<1>3. /\ r.status \in [Pids -> Statuses]
      /\ r.U \in Int
  BY <1>1, <1>2, KernelFields, PidSets, BandwidthInt, StatusNames
<1>4. r \in Kernels  BY <1>1, <1>3 DEF Kernels, EDF_free, Status
<1> HIDE DEF r
<1>5. Wellformed(r)  BY <1>2, <1>4 DEF Wellformed, Same, Fields
<1>6. /\ r.wcet = kk.wcet /\ r.late = kk.late /\ r.edf = kk.edf
      /\ r.rr = kk.rr /\ r.dline = kk.dline /\ r.release = kk.release
      /\ r.nact = kk.nact /\ r.adeadline = kk.adeadline /\ r.events = kk.events
      /\ r.dl_miss = kk.dl_miss
  BY <1>2 DEF Same, Fields
<1>7. Apart(r, kk, p)  BY <1>2, ApartSame
<1> QED BY <1>1, <1>2, <1>5, <1>6, <1>7, KernelFields, PidSets DEF r, Others, Alike

LEMMA SporadicOverIs ==
  ASSUME NEW kk, Wellformed(kk), NEW p \in Sporadic
  PROVE  LET r == SporadicOver(kk, p)
         IN  /\ Wellformed(r) /\ Others(r, kk, p)
             /\ Same(r, kk, {"status", "late"})
             /\ r.status = [kk.status EXCEPT ![p] = IF p \in kk.late THEN "SLEEP" ELSE "WAIT"]
             /\ r.late = kk.late \ {p}
<1> DEFINE r == SporadicOver(kk, p)
<1>1. kk \in Kernels  BY DEF Wellformed
<1>2. /\ Same(r, kk, {"status", "late"})
      /\ r.status = [kk.status EXCEPT ![p] = IF p \in kk.late THEN "SLEEP" ELSE "WAIT"]
      /\ r.late = kk.late \ {p}
  BY <1>1 DEF Kernels, Same, Fields, SporadicOver, Status
<1>3. /\ r.status \in [Pids -> Statuses]
      /\ r.late \in SUBSET Sporadic
  <2>2. kk.status \in [Pids -> Statuses] /\ kk.late \in SUBSET Sporadic  BY <1>1, KernelFields
  <2> QED BY <1>2, <2>2, StatusNames
<1>4. r \in Kernels
  <2>1. CASE p \in kk.late  BY <1>1, <1>3, <2>1 DEF Kernels, SporadicOver, Status
  <2>2. CASE p \notin kk.late  BY <1>1, <1>3, <2>2 DEF Kernels, SporadicOver, Status
  <2> QED BY <2>1, <2>2
<1> HIDE DEF r
<1>5. Wellformed(r)  BY <1>2, <1>4 DEF Wellformed, Same, Fields
<1>6. Apart(r, kk, p)  BY <1>2, ApartSame
<1>7. Others(r, kk, p)  BY <1>1, <1>2, <1>6, KernelFields, PidSets DEF Others, Alike, Same, Fields
<1> QED BY <1>1, <1>2, <1>5, <1>7, KernelFields, PidSets DEF r

LEMMA ReschedIs ==
  ASSUME NEW kk, Wellformed(kk), NEW b \in BOOLEAN
  PROVE  LET r == [kk EXCEPT !.resched = b]
         IN  /\ Wellformed(r) /\ Likewise(r, kk) /\ \A q : Others(r, kk, q)
             /\ Same(r, kk, {"resched"})
             /\ r.resched = b
<1> DEFINE r == [kk EXCEPT !.resched = b]
<1>1. r \in Kernels /\ Same(r, kk, {"resched"}) /\ r.resched = b
  BY KernelFields, PidSets DEF Wellformed, Kernels, Same, Fields
<1> HIDE DEF r
<1> QED BY <1>1, AsideIs DEF r, Aside

LEMMA NopreemptIs ==
  ASSUME NEW kk, Wellformed(kk), NEW P \in SUBSET Pids
  PROVE  LET r == [kk EXCEPT !.nopreempt = P]
         IN  /\ Wellformed(r) /\ Likewise(r, kk) /\ \A q : Others(r, kk, q)
             /\ Same(r, kk, {"nopreempt"})
             /\ r.nopreempt = P
<1> DEFINE r == [kk EXCEPT !.nopreempt = P]
<1>1. r \in Kernels /\ Same(r, kk, {"nopreempt"}) /\ r.nopreempt = P
  BY KernelFields, PidSets DEF Wellformed, Kernels, Same, Fields
<1> HIDE DEF r
<1> QED BY <1>1, AsideIs DEF r, Aside

LEMMA AsleepIs ==
  ASSUME NEW kk, Wellformed(kk), NEW P \in SUBSET Pids
  PROVE  LET r == [kk EXCEPT !.asleep = P]
         IN  /\ Wellformed(r) /\ Likewise(r, kk) /\ \A q : Others(r, kk, q)
             /\ Same(r, kk, {"asleep"})
             /\ r.asleep = P
<1> DEFINE r == [kk EXCEPT !.asleep = P]
<1>1. r \in Kernels /\ Same(r, kk, {"asleep"}) /\ r.asleep = P
  BY KernelFields, PidSets DEF Wellformed, Kernels, Same, Fields
<1> HIDE DEF r
<1> QED BY <1>1, AsideIs DEF r, Aside

LEMMA ScheduleTimeIs ==
  ASSUME NEW kk, Wellformed(kk), NEW u \in Int
  PROVE  LET r == [kk EXCEPT !.schedule_time = u]
         IN  /\ Wellformed(r) /\ Likewise(r, kk) /\ Same(r, kk, {"schedule_time"})
             /\ r.schedule_time = u
<1> DEFINE r == [kk EXCEPT !.schedule_time = u]
<1>1. r \in Kernels /\ Same(r, kk, {"schedule_time"}) /\ r.schedule_time = u
  BY KernelFields, PidSets DEF Wellformed, Kernels, Same, Fields
<1> HIDE DEF r
<1> QED BY <1>1, AsideIs DEF r, Aside

LEMMA LastTimeIs ==
  ASSUME NEW kk, Wellformed(kk), NEW u \in Int
  PROVE  LET r == [kk EXCEPT !.cap_lasttime = u]
         IN  /\ Wellformed(r) /\ Likewise(r, kk) /\ Same(r, kk, {"cap_lasttime"})
             /\ r.cap_lasttime = u
<1> DEFINE r == [kk EXCEPT !.cap_lasttime = u]
<1>1. r \in Kernels /\ Same(r, kk, {"cap_lasttime"}) /\ r.cap_lasttime = u
  BY KernelFields, PidSets DEF Wellformed, Kernels, Same, Fields
<1> HIDE DEF r
<1> QED BY <1>1, AsideIs DEF r, Aside

LEMMA ShadowIs ==
  ASSUME NEW kk, Wellformed(kk), NEW x \in Pids \cup {NIL}
  PROVE  LET r == [kk EXCEPT !.exec_shadow = x]
         IN  /\ Wellformed(r) /\ Likewise(r, kk) /\ \A q : Others(r, kk, q)
             /\ Same(r, kk, {"exec_shadow"})
             /\ r.exec_shadow = x
<1> DEFINE r == [kk EXCEPT !.exec_shadow = x]
<1>1. r \in Kernels /\ Same(r, kk, {"exec_shadow"}) /\ r.exec_shadow = x
  BY KernelFields, PidSets DEF Wellformed, Kernels, Same, Fields
<1> HIDE DEF r
<1> QED BY <1>1, AsideIs DEF r, Aside

LEMMA EDF_createIs ==
  ASSUME NEW kk, Wellformed(kk), NEW p \in Edf, MAX_BANDWIDTH - kk.U > Bandwidth(p, cost[p])
  PROVE  LET r == EDF_create(kk, p)
         IN  /\ Wellformed(r) /\ Others(r, kk, p)
             /\ Same(r, kk, {"status", "U", "late", "nact", "dl_miss", "nopreempt", "wcet",
                             "avail", "capped"})
             /\ r.status = [kk.status EXCEPT ![p] = "SLEEP"]
             /\ r.late = kk.late \ {p} /\ r.U = kk.U + Bandwidth(p, cost[p])
             /\ r.nopreempt = kk.nopreempt \ {p}
             /\ r.nact = [kk.nact EXCEPT ![p] = 0] /\ r.dl_miss = [kk.dl_miss EXCEPT ![p] = 0]
             /\ WcetCheck => r.wcet[p] = cost[p]
<1> DEFINE r == EDF_create(kk, p)
           st == [kk.status EXCEPT ![p] = "SLEEP"]
           u == kk.U + Bandwidth(p, cost[p])
           na == [kk.nact EXCEPT ![p] = 0]
           dl == [kk.dl_miss EXCEPT ![p] = 0]
           wc == [kk.wcet EXCEPT ![p] = IF WcetCheck THEN cost[p] ELSE @]
           av == [kk.avail EXCEPT ![p] = IF WcetCheck THEN cost[p] ELSE @]
           ca == IF WcetCheck THEN kk.capped \cup {p} ELSE kk.capped \ {p}
           la == kk.late \ {p}
           np == kk.nopreempt \ {p}
           m == [kk EXCEPT !.status = st, !.U = u, !.late = la, !.nact = na]
<1>1. kk \in Kernels /\ p \in Pids /\ p \in Ranked /\ cost[p] \in Int  BY PidSets DEF Wellformed
<1>2. r = [m EXCEPT !.dl_miss = dl, !.nopreempt = np, !.wcet = wc,
                    !.avail = av, !.capped = ca]
  BY <1>1 DEF Kernels, EDF_create, Status
<1>3. /\ st \in [Pids -> Statuses] /\ na \in [Ranked -> Nat] /\ dl \in [Edf -> Nat]
      /\ wc \in [Pids -> Int] /\ av \in [Pids -> Int] /\ ca \in SUBSET Pids
      /\ WcetCheck => wc[p] = cost[p]
  BY <1>1, KernelFields, StatusNames
<1>4. u \in Int /\ la \in SUBSET Sporadic /\ np \in SUBSET Pids  BY <1>1, KernelFields, BandwidthInt
<1> HIDE DEF r, st, u, na, dl, wc, av, ca, la, np
<1>5. r \in Kernels
  <2>1. m \in Kernels  BY <1>1, <1>3, <1>4 DEF Kernels
  <2> HIDE DEF m
  <2> QED BY <1>2, <1>3, <1>4, <2>1 DEF Kernels
<1>6. /\ Same(r, kk, {"status", "U", "late", "nact", "dl_miss", "nopreempt", "wcet",
                      "avail", "capped"})
      /\ r.status = st /\ r.U = u /\ r.late = la /\ r.nact = na
      /\ r.nopreempt = np /\ r.wcet = wc /\ r.dl_miss = dl
      /\ r.avail = av /\ r.capped = ca
  BY <1>1, <1>2, Zenon DEF Kernels, Same, Fields
<1>7. /\ r.edf = kk.edf /\ r.rr = kk.rr /\ r.dline = kk.dline
      /\ r.release = kk.release /\ r.adeadline = kk.adeadline /\ r.events = kk.events
  BY <1>6 DEF Same, Fields
<1>8. Wellformed(r)  BY <1>5, <1>7 DEF Wellformed
<1>9. Others(r, kk, p)
  <2>1. \A q \in Pids \ {p} : st[q] = kk.status[q] /\ wc[q] = kk.wcet[q]  BY <1>1, KernelFields DEF st, wc
  <2>4. \A q \in Pids \ {p} : Alike(r, kk, q)
    BY <1>1, <1>6, <1>7, <2>1, KernelFields DEF Alike, na, dl, la
  <2>5. r.cap_lasttime = kk.cap_lasttime /\ r.schedule_time = kk.schedule_time  BY <1>6 DEF Same, Fields
  <2>6. Apart(r, kk, p)  BY <1>1, <1>6, <1>7, <2>5, KernelFields, PidSets DEF Apart, av, ca
  <2> QED BY <1>7, <2>4, <2>6 DEF Others
<1> QED BY <1>3, <1>6, <1>8, <1>9 DEF r, st, u, la, np, na, dl

LEMMA LikewiseTrans ==
  ASSUME NEW a, NEW b, NEW c, Likewise(a, b), Likewise(b, c)
  PROVE  Likewise(a, c)
BY DEF Likewise, Alike

\* The event that would stop the running task is deleted.
LEMMA UncappedIs ==
  ASSUME NEW kk, Wellformed(kk)
  PROVE  LET r == Unpost(kk, "capacity", NIL)
         IN  /\ Wellformed(r) /\ Likewise(r, kk) /\ Same(r, kk, {"events"})
             /\ ~Posted(r, "capacity", NIL)
<1> DEFINE r == Unpost(kk, "capacity", NIL)
<1>1. /\ Wellformed(r) /\ Others(r, kk, NIL) /\ Same(r, kk, {"events"})
      /\ ~Posted(r, "capacity", NIL)
  BY UnpostIs
<1> HIDE DEF r
<1>2. Likewise(r, kk)
  <2> SUFFICES ASSUME NEW q \in Pids
               PROVE  Alike(r, kk, q) /\ Timers(r, q) = Timers(kk, q)
    BY DEF Likewise
  <2> QED BY <1>1, PidSets, OthersTimers DEF Others
<1> QED BY <1>1, <1>2 DEF r

\* The running task is charged: neither the tasks nor their timers change.
LEMMA kern_epilogue_macroIs ==
  ASSUME NEW kk, Wellformed(kk), kk.exec_shadow \in Pids, now \in Int
  PROVE  LET r == kern_epilogue_macro(kk)
             x == kk.exec_shadow
         IN  /\ Wellformed(r) /\ Likewise(r, kk)
             /\ Same(r, kk, {"schedule_time", "avail", "events"})
             /\ r.schedule_time = now /\ ~Posted(r, "capacity", NIL)
             /\ r.avail = [kk.avail EXCEPT ![x] =
                             @ - IF x \in kk.capped THEN now - kk.cap_lasttime ELSE 0]
<1> DEFINE x == kk.exec_shadow
           charged == IF x \in kk.capped THEN now - kk.cap_lasttime ELSE 0
           m == [kk EXCEPT !.schedule_time = now, !.avail[x] = @ - charged]
           r == Unpost(m, "capacity", NIL)
<1>1. kk \in Kernels  BY DEF Wellformed
<1>2. /\ Same(m, kk, {"schedule_time", "avail"}) /\ m.schedule_time = now
      /\ m.avail = [kk.avail EXCEPT ![x] = @ - charged]
  BY <1>1 DEF Kernels, Same, Fields
<1>3. m.schedule_time \in Int /\ m.avail \in [Pids -> Int]
  <2>1. charged \in Int /\ kk.avail \in [Pids -> Int]  BY <1>1, KernelFields
  <2> HIDE DEF charged, m
  <2> QED BY <1>2, <2>1
<1>4. m \in Kernels  BY <1>1, <1>3 DEF Kernels
<1>5. r = kern_epilogue_macro(kk)  BY DEF kern_epilogue_macro
<1> HIDE DEF m
<1>7. Wellformed(m) /\ Likewise(m, kk)  BY <1>2, <1>4, AsideIs DEF Aside
<1>8. /\ Wellformed(r) /\ Likewise(r, m) /\ Same(r, m, {"events"})
      /\ ~Posted(r, "capacity", NIL)
  BY <1>7, UncappedIs
<1> HIDE DEF r
<1> QED BY <1>2, <1>5, <1>7, <1>8, LikewiseTrans DEF Same, Fields

------------------------------
(* A task goes to the queue of its level.  ReadyInEdf, ReadyInRr: p has       *)
(* become READY and is in that queue, with what was in it.                    *)

\* EDF_unblock and EDF_private_epilogue
LEMMA EDF_unblockIs ==
  ASSUME NEW kk, Wellformed(kk), NEW p \in Ranked, p \notin Members(kk.edf)
  PROVE  LET r == EDF_unblock(kk, p)
         IN  /\ Wellformed(r) /\ Others(r, kk, p) /\ Same(r, kk, {"edf", "status"})
             /\ ReadyInEdf(r, kk, p)
<1> DEFINE m == EDF_insert(kk, p)
           r == Status(m, p, "READY")
<1>1. /\ Wellformed(m) /\ Others(m, kk, p) /\ Same(m, kk, {"edf"})
      /\ Members(m.edf) = Members(kk.edf) \cup {p}
  BY EDF_insertIs
<1> HIDE DEF m
<1>2. /\ Wellformed(r) /\ Others(r, m, p) /\ Same(r, m, {"status"})
      /\ r.status = [m.status EXCEPT ![p] = "READY"]
  BY <1>1, StatusIs, StatusNames, PidSets
<1> HIDE DEF r
<1> QED BY <1>1, <1>2, OthersTrans DEF EDF_unblock, r, m, Same, ReadyInEdf, Fields

LEMMA EDF_private_insertIs ==
  ASSUME NEW kk, Wellformed(kk), NEW p \in Ranked, p \notin Members(kk.edf), NEW d \in Int
  PROVE  LET r == EDF_private_insert(kk, p, d)
         IN  /\ Wellformed(r) /\ Others(r, kk, p) /\ Same(r, kk, {"dline", "edf", "status"})
             /\ ReadyInEdf(r, kk, p)
<1> DEFINE m == [kk EXCEPT !.dline[p] = d]
           r == EDF_unblock(m, p)
<1>1. Wellformed(m) /\ Others(m, kk, p) /\ Same(m, kk, {"dline"})  BY DlineIs
<1>2. r = EDF_private_insert(kk, p, d)  BY DEF EDF_private_insert, EDF_unblock
<1> HIDE DEF m
<1>3. m.status = kk.status /\ m.edf = kk.edf  BY <1>1 DEF Same, Fields
<1>4. /\ Wellformed(r) /\ Others(r, m, p) /\ Same(r, m, {"edf", "status"})
      /\ ReadyInEdf(r, m, p)
  BY <1>1, <1>3, EDF_unblockIs
<1> HIDE DEF r
<1>5. Others(r, kk, p)  BY <1>1, <1>4, OthersTrans
<1> QED BY <1>1, <1>2, <1>3, <1>4, <1>5 DEF Same, ReadyInEdf

LEMMA EDF_epilogueIs ==
  ASSUME NEW kk, Wellformed(kk), NEW p \in Ranked, p \notin Members(kk.edf)
  PROVE  LET r == EDF_epilogue(kk, p)
         IN  /\ Wellformed(r) /\ Others(r, kk, p) /\ Same(r, kk, {"capped", "edf", "status"})
             /\ ReadyInEdf(r, kk, p)
<1> DEFINE over == WcetCheck /\ kk.avail[p] <= 0
           c == IF over THEN kk.capped \ {p} ELSE kk.capped
           m == [kk EXCEPT !.capped = c]
           r == EDF_unblock(m, p)
<1>1. kk \in Kernels /\ kk.capped \in SUBSET Pids  BY KernelFields DEF Wellformed
<1>2. r = EDF_epilogue(kk, p)  BY <1>1 DEF EDF_epilogue, EDF_unblock, Kernels
<1>3. c \in SUBSET Pids  BY <1>1
<1> HIDE DEF over, c
<1>4. m \in Kernels /\ Same(m, kk, {"capped"}) /\ m.capped = c  BY <1>1, <1>3 DEF Kernels, Same, Fields
<1>5. Wellformed(m) /\ Others(m, kk, p)
  <2>1. \A q \in RrTasks \ {p} : q \in c <=> q \in kk.capped  BY DEF c
  <2> HIDE DEF m
  <2>2. Apart(m, kk, p)  BY <1>4, <2>1 DEF Apart, Same, Fields
  <2> QED BY <1>4, <2>2, AsideIs DEF Aside
<1> HIDE DEF m
<1>6. m.status = kk.status /\ m.edf = kk.edf  BY <1>4 DEF Same, Fields
<1>7. /\ Wellformed(r) /\ Others(r, m, p) /\ Same(r, m, {"edf", "status"})
      /\ ReadyInEdf(r, m, p)
  BY <1>5, <1>6, EDF_unblockIs
<1> HIDE DEF r
<1> QED BY <1>2, <1>4, <1>5, <1>6, <1>7, OthersTrans DEF Same, ReadyInEdf

LEMMA RR_unblockIs ==
  ASSUME NEW kk, Wellformed(kk), NEW p \in RrTasks, p \notin Members(kk.rr)
  PROVE  LET r == RR_unblock(kk, p)
         IN  /\ Wellformed(r) /\ Others(r, kk, p) /\ Same(r, kk, {"rr", "status"})
             /\ ReadyInRr(r, kk, p) /\ r.rr = InsertLast(p, kk.rr)
<1> DEFINE m == [kk EXCEPT !.rr = InsertLast(p, kk.rr)]
           r == Status(m, p, "READY")
<1>1. /\ Wellformed(m) /\ Others(m, kk, p) /\ Same(m, kk, {"rr"})
      /\ Members(m.rr) = Members(kk.rr) \cup {p} /\ m.rr = InsertLast(p, kk.rr)
  BY RrEndsIs DEF Wellformed, Kernels
<1>2. r = RR_unblock(kk, p)  BY DEF RR_unblock
<1> HIDE DEF m
<1>3. /\ Wellformed(r) /\ Others(r, m, p) /\ Same(r, m, {"status"})
      /\ r.status = [m.status EXCEPT ![p] = "READY"]
  BY <1>1, StatusIs, StatusNames, PidSets
<1> HIDE DEF r
<1> QED BY <1>1, <1>2, <1>3, OthersTrans DEF Same, ReadyInRr, Fields

LEMMA RR_epilogueIs ==
  ASSUME NEW kk, Wellformed(kk), NEW p \in RrTasks, p \notin Members(kk.rr)
  PROVE  LET r == RR_epilogue(kk, p)
         IN  /\ Wellformed(r) /\ Others(r, kk, p) /\ Same(r, kk, {"avail", "rr", "status"})
             /\ ReadyInRr(r, kk, p)
<1>1. kk \in Kernels /\ kk.avail \in [Pids -> Int] /\ kk.wcet \in [Pids -> Int] /\ p \in Pids
  BY KernelFields, PidSets DEF Wellformed
<1> DEFINE a == IF kk.avail[p] <= 0 THEN [kk.avail EXCEPT ![p] = @ + kk.wcet[p]] ELSE kk.avail
           c == [kk EXCEPT !.avail = a]
           q == IF kk.avail[p] <= 0 THEN InsertLast(p, kk.rr) ELSE InsertFirst(p, kk.rr)
           m == [c EXCEPT !.rr = q]
           r == Status(m, p, "READY")
<1>2. r = RR_epilogue(kk, p)
  <2>1. CASE kk.avail[p] <= 0  BY <1>1, <2>1 DEF RR_epilogue, Kernels, Status
  <2>2. CASE ~(kk.avail[p] <= 0)  BY <1>1, <2>2 DEF RR_epilogue, Kernels, Status
  <2> QED BY <2>1, <2>2
<1>3. a \in [Pids -> Int] /\ (q = InsertLast(p, kk.rr) \/ q = InsertFirst(p, kk.rr))  BY <1>1
<1> HIDE DEF a, q
<1>4. c \in Kernels /\ Same(c, kk, {"avail"}) /\ c.rr = kk.rr /\ c.avail = a
  BY <1>1, <1>3 DEF Kernels, Same, Fields
<1>5. Wellformed(c) /\ Others(c, kk, p)
  <2>1. \A z \in RrTasks \ {p} : a[z] = kk.avail[z]  BY <1>1, PidSets DEF a
  <2> HIDE DEF c
  <2> QED BY <1>4, <2>1, AsideIs DEF Aside, Apart, Same, Fields
<1> HIDE DEF c
<1>6. /\ Wellformed(m) /\ Others(m, c, p) /\ Same(m, c, {"rr"})
      /\ Members(m.rr) = Members(kk.rr) \cup {p}
  BY <1>3, <1>4, <1>5, RrEndsIs
<1> HIDE DEF m
<1>7. /\ Wellformed(r) /\ Others(r, m, p) /\ Same(r, m, {"status"})
      /\ r.status = [m.status EXCEPT ![p] = "READY"]
  BY <1>1, <1>6, StatusIs, StatusNames
<1> HIDE DEF r
<1> QED BY <1>2, <1>4, <1>5, <1>6, <1>7, OthersTrans DEF Same, ReadyInRr, Fields

------------------------------
(* The CBS level *)

LEMMA ExtractWaiting ==
  ASSUME NEW kk, NEW p, kk.status[p] # "READY"
  PROVE  EDF_private_extract(kk, p) = kk
BY DEF EDF_private_extract

LEMMA CBS_insertIs ==
  ASSUME NEW kk, Wellformed(kk), NEW p \in Soft, p \notin Members(kk.edf)
  PROVE  LET r == CBS_insert(kk, p)
         IN  /\ Wellformed(r) /\ Others(r, kk, p) /\ Same(r, kk, {"dline", "edf", "status"})
             /\ ReadyInEdf(r, kk, p)
BY KernelFields, PidSets, EDF_private_insertIs DEF CBS_insert, Wellformed

\* What CBS_insert does after a change of the server.
LEMMA ServerThenInsert ==
  ASSUME NEW kk, NEW p \in Soft, p \notin Members(kk.edf),
         NEW m, Wellformed(m), Likewise(m, kk), Others(m, kk, p),
         Same(m, kk, {"cbs_dline", "avail"})
  PROVE  LET r == CBS_insert(m, p)
         IN  /\ Wellformed(r) /\ Others(r, kk, p)
             /\ Same(r, kk, {"cbs_dline", "avail", "dline", "edf", "status"})
             /\ ReadyInEdf(r, kk, p)
<1> DEFINE r == CBS_insert(m, p)
<1>1. m.status = kk.status /\ m.edf = kk.edf  BY DEF Same, Fields
<1> HIDE DEF r
<1> QED BY <1>1, CBS_insertIs, OthersTrans DEF r, Same, ReadyInEdf

LEMMA LikewiseSelf ==
  ASSUME NEW kk, NEW p
  PROVE  Likewise(kk, kk) /\ Others(kk, kk, p)
BY DEF Likewise, Others, Alike, Apart

LEMMA CBS_renewLikewise ==
  ASSUME NEW kk, Wellformed(kk), NEW p \in Soft, NEW t \in Int
  PROVE  LET r == CBS_renew(kk, p, t)
         IN  /\ Wellformed(r) /\ Likewise(r, kk) /\ Others(r, kk, p)
             /\ Same(r, kk, {"cbs_dline", "avail"})
<1> DEFINE r == CBS_renew(kk, p, t)
<1> HIDE DEF r
<1> QED BY CBS_renewIs, AsideIs DEF r, Aside, Wellformed

LEMMA CBS_activationIs ==
  ASSUME NEW kk, Wellformed(kk), NEW p \in Soft, p \notin Members(kk.edf), NEW t \in Int
  PROVE  LET r == CBS_activation(kk, p, t)
         IN  /\ Wellformed(r) /\ Others(r, kk, p)
             /\ Same(r, kk, {"cbs_dline", "avail", "dline", "edf", "status"})
             /\ ReadyInEdf(r, kk, p)
<1> DEFINE m == IF Exhaustible(kk, p, t) THEN CBS_renew(kk, p, t) ELSE kk
<1>1. /\ Wellformed(m) /\ Likewise(m, kk) /\ Others(m, kk, p)
      /\ Same(m, kk, {"cbs_dline", "avail"})
  <2>1. CASE Exhaustible(kk, p, t)  BY <2>1, CBS_renewLikewise
  <2>2. CASE ~Exhaustible(kk, p, t)  BY <2>2, LikewiseSelf DEF Same
  <2> QED BY <2>1, <2>2
<1>2. CBS_activation(kk, p, t) = CBS_insert(m, p)  BY DEF CBS_activation
<1> HIDE DEF m
<1> QED BY <1>1, <1>2, ServerThenInsert

LEMMA CBS_epilogueIs ==
  ASSUME NEW kk, Wellformed(kk), NEW p \in Soft, p \notin Members(kk.edf),
         kk.status[p] # "READY", kk.wcet[p] > 0
  PROVE  LET r == CBS_epilogue(kk, p)
         IN  /\ Wellformed(r) /\ Others(r, kk, p)
             /\ Same(r, kk, {"cbs_dline", "avail", "dline", "edf", "status"})
             /\ ReadyInEdf(r, kk, p)
<1>1. CASE kk.avail[p] <= 0
  <2> DEFINE m == CBS_avail_time_check(kk, p)
  <2>1. CBS_epilogue(kk, p) = CBS_insert(m, p)  BY <1>1, ExtractWaiting DEF CBS_epilogue
  <2>2. /\ Wellformed(m) /\ Likewise(m, kk) /\ Others(m, kk, p)
        /\ Same(m, kk, {"cbs_dline", "avail"})
    BY CBS_avail_time_checkIs
  <2> HIDE DEF m
  <2> QED BY <2>1, <2>2, ServerThenInsert
<1>2. CASE ~(kk.avail[p] <= 0)
  <2> DEFINE r == EDF_unblock(kk, p)
  <2>1. CBS_epilogue(kk, p) = r  BY <1>2 DEF CBS_epilogue, EDF_private_epilogue, EDF_unblock
  <2>2. /\ Wellformed(r) /\ Others(r, kk, p) /\ Same(r, kk, {"edf", "status"})
        /\ ReadyInEdf(r, kk, p)
    BY EDF_unblockIs, PidSets
  <2> HIDE DEF r
  <2> QED BY <2>1, <2>2 DEF Same
<1> QED BY <1>1, <1>2

\* A task whose server's deadline has passed keeps its place among the ready.
LEMMA CBS_renewedIs ==
  ASSUME NEW kk, Wellformed(kk), NEW p \in Soft, p \in Members(kk.edf),
         kk.status[p] = "READY"
  PROVE  LET r == CBS_renewed(kk, p)
         IN  /\ Wellformed(r) /\ Others(r, kk, p)
             /\ Same(r, kk, {"cbs_dline", "avail", "dline", "edf"})
             /\ Members(r.edf) = Members(kk.edf)
<1> DEFINE a == EDF_dispatch(kk, p)
           b == CBS_renew(a, p, kk.schedule_time)
           r == CBS_insert(b, p)
<1>1. CBS_renewed(kk, p) = r  BY DEF CBS_renewed, EDF_private_extract, EDF_dispatch
<1>2. kk.schedule_time \in Int /\ p \in Pids /\ kk.status \in [Pids -> Statuses]
  BY KernelFields, PidSets DEF Wellformed
<1>3. /\ Wellformed(a) /\ Others(a, kk, p) /\ Same(a, kk, {"edf"})
      /\ Members(a.edf) = Members(kk.edf) \ {p}
  BY EDF_dispatchIs
<1> HIDE DEF a
<1>4. /\ Wellformed(b) /\ Others(b, a, p) /\ Likewise(b, a) /\ Same(b, a, {"cbs_dline", "avail"})
  BY <1>2, <1>3, CBS_renewLikewise
<1> HIDE DEF b
<1>5. /\ Wellformed(r) /\ Others(r, a, p)
      /\ Same(r, a, {"cbs_dline", "avail", "dline", "edf", "status"})
      /\ ReadyInEdf(r, a, p)
  BY <1>3, <1>4, ServerThenInsert
<1> HIDE DEF r
<1> QED BY <1>1, <1>2, <1>3, <1>5, OthersTrans DEF Same, ReadyInEdf, Fields

\* The loop of public_eligible has its states one after the other.
LEMMA RunExists ==
  ASSUME NEW kk, NEW q, NEW n \in Nat
  PROVE  \E f : f = [i \in 0 .. n |-> IF i = 0 THEN kk ELSE CBS_renewed(f[i - 1], q[i])]
<1> DEFINE Run(f, m) == f = [i \in 0 .. m |-> IF i = 0 THEN kk ELSE CBS_renewed(f[i - 1], q[i])]
           B == {m \in Nat : ~ \E f : Run(f, m)}
<1>1. SUFFICES ASSUME B # {} PROVE FALSE  OBVIOUS
<1>2. PICK m \in B : \A j \in B : m <= j
  <2>1. B \in SUBSET Nat  OBVIOUS
  <2> HIDE DEF B
  <2> QED BY <1>1, <2>1, LeastElement
<1>3. m \in Nat /\ ~ \E f : Run(f, m)  BY <1>2
<1>4. CASE m = 0
  <2> DEFINE f == [i \in 0 .. 0 |-> kk]
  <2>2. Run(f, 0)  OBVIOUS
  <2> QED BY <1>3, <1>4, <2>2
<1>5. CASE m > 0
  <2>1. m - 1 \in Nat /\ ~(m <= m - 1)  BY <1>3, <1>5
  <2>2. PICK f : Run(f, m - 1)  BY <1>2, <2>1
  <2> DEFINE g == [i \in 0 .. m |-> IF i = m THEN CBS_renewed(f[m - 1], q[m]) ELSE f[i]]
             h == [i \in 0 .. m |-> IF i = 0 THEN kk ELSE CBS_renewed(g[i - 1], q[i])]
  <2>3. ASSUME NEW i \in 0 .. m PROVE g[i] = h[i]
    <3>1. CASE i = m  BY <1>3, <1>5, <3>1
    <3>2. CASE i # m
      <4>1. i \in 0 .. m - 1 /\ g[i] = f[i]  BY <1>3, <3>2
      <4>2. f[i] = IF i = 0 THEN kk ELSE CBS_renewed(f[i - 1], q[i])  BY <2>2, <4>1
      <4>3. CASE i = 0  BY <4>1, <4>2, <4>3
      <4>4. CASE i # 0
        <5>2. g[i - 1] = f[i - 1]  BY <1>3, <4>1, <4>4
        <5>3. h[i] = CBS_renewed(g[i - 1], q[i])  BY <4>4
        <5> HIDE DEF g, h
        <5> QED BY <4>1, <4>2, <4>4, <5>2, <5>3
      <4> QED BY <4>3, <4>4
    <3> QED BY <3>1, <3>2
  <2>4. g = h
    <3>1. g = [i \in 0 .. m |-> g[i]] /\ h = [i \in 0 .. m |-> h[i]]  OBVIOUS
    <3> HIDE DEF g, h
    <3> QED BY <2>3, <3>1
  <2> QED BY <1>3, <2>4
<1> QED BY <1>3, <1>4, <1>5

LEMMA EligibleIs ==
  ASSUME NEW kk, Wellformed(kk), \A p \in Soft : p \in Members(kk.edf) => kk.status[p] = "READY"
  PROVE  Kept(Eligible(kk), kk)
<1> DEFINE q == kk.edf
           Stops(i) == /\ \A j \in 1 .. i : Ineligible(kk, q[j])
                       /\ i < Len(q) => ~Ineligible(kk, q[i + 1])
           n == CHOOSE i \in 0 .. Len(q) : Stops(i)
<1>1. kk \in Kernels /\ q \in Seq(Ranked) /\ Len(q) \in Nat /\ DOMAIN q = 1 .. Len(q)
  BY KernelFields DEF Wellformed
<1>2. \E i \in 0 .. Len(q) : Stops(i)
  <2> DEFINE B == {i \in 0 .. Len(q) : i < Len(q) => ~Ineligible(kk, q[i + 1])}
  <2>1. Len(q) \in B /\ B \in SUBSET Nat  BY <1>1
  <2>2. PICK i \in B : \A j \in B : i <= j
    <3> HIDE DEF B
    <3> QED BY <2>1, LeastElement
  <2>3. ASSUME NEW j \in 1 .. i PROVE Ineligible(kk, q[j])
    <3>1. j - 1 \in 0 .. Len(q) /\ j - 1 < i /\ (j - 1) + 1 = j /\ j - 1 < Len(q)  BY <1>1, <2>2
    <3> QED BY <2>1, <2>2, <3>1
  <2> QED BY <2>2, <2>3
<1>3. n \in 0 .. Len(q) /\ Stops(n)
  <2> HIDE DEF Stops
  <2> QED BY <1>2
<1> HIDE DEF n
<1>4. \A j \in 1 .. n : q[j] \in Soft /\ q[j] \in Members(q) /\ kk.status[q[j]] = "READY"
  BY <1>1, <1>3 DEF Ineligible, Members
<1>5. n \in Nat  BY <1>1, <1>3
<1> DEFINE after == CHOOSE f : f = [i \in 0 .. n |-> IF i = 0 THEN kk
                                                     ELSE CBS_renewed(f[i - 1], q[i])]
<1>6. after = [i \in 0 .. n |-> IF i = 0 THEN kk ELSE CBS_renewed(after[i - 1], q[i])]  BY <1>5, RunExists
<1>7. Eligible(kk) = after[n]  BY DEF Eligible, n
<1> HIDE DEF after
<1>8. ASSUME NEW m, Kept(m, kk), NEW j \in 1 .. n PROVE Kept(CBS_renewed(m, q[j]), kk)
  <2> DEFINE r == CBS_renewed(m, q[j])
  <2>2. /\ Wellformed(r) /\ Others(r, m, q[j])
        /\ Same(r, m, {"cbs_dline", "avail", "dline", "edf"})
        /\ Members(r.edf) = Members(m.edf)
    BY <1>4, <1>8, CBS_renewedIs DEF Kept, Same, Fields
  <2> HIDE DEF r
  <2> QED BY <1>4, <1>8, <2>2, PidSets DEF r, Kept, Same, Others, Alike, Apart
<1> DEFINE B == {i \in 0 .. n : ~Kept(after[i], kk)}
<1>9. B = {}
  <2> SUFFICES ASSUME B # {} PROVE FALSE  OBVIOUS
  <2>1. B \in SUBSET Nat  BY <1>5
  <2>2. PICK i \in B : \A j \in B : i <= j
    <3> HIDE DEF B
    <3> QED BY <2>1, LeastElement
  <2>3. i \in 0 .. n /\ ~Kept(after[i], kk)  BY <2>2
  <2>4. CASE i = 0  BY <1>5, <1>6, <2>3, <2>4 DEF Kept, Same
  <2>5. CASE i # 0
    <3>1. i - 1 \in 0 .. n /\ i - 1 < i /\ i \in 1 .. n /\ ~(i <= i - 1)  BY <1>5, <2>3, <2>5
    <3>2. Kept(after[i - 1], kk)  BY <2>2, <3>1
    <3>3. after[i] = CBS_renewed(after[i - 1], q[i])  BY <1>6, <2>3, <2>5
    <3> QED BY <1>8, <2>3, <3>1, <3>2, <3>3
  <2> QED BY <2>4, <2>5
<1> QED BY <1>5, <1>7, <1>9

------------------------------
(* scheduler() *)

LEMMA AllSame ==
  ASSUME NEW kk, NEW x, NEW t, AllOK(kk, x, t), NEW r, Wellformed(r),
         Same(r, kk, Aside \cup {"dline", "edf", "rr", "nact", "adeadline"}),
         Members(r.edf) = Members(kk.edf), Members(r.rr) = Members(kk.rr)
  PROVE  AllOK(r, x, t)
<1> SUFFICES ASSUME NEW q \in Pids PROVE TaskOK(r, x, t, q)  BY DEF AllOK
<1>1. /\ r.status = kk.status /\ r.wcet = kk.wcet /\ r.late = kk.late
      /\ r.release = kk.release /\ r.events = kk.events
  BY DEF Same, Fields, Aside
<1> QED BY <1>1, TimersSame DEF TaskOK, EdfTimersOK, CbsTimersOK, ReleaseOK, QueueOK, AllOK

\* The processor is given to the task p of a queue, or to the dummy task.
LEMMA ShadowThen ==
  ASSUME NEW m, NEW x, NEW t, AllOK(m, x, t), NEW p \in Pids
  PROVE  LET r == [m EXCEPT !.exec_shadow = p]
         IN  AllOK(r, x, t) /\ Same(r, m, {"exec_shadow"}) /\ r.exec_shadow = p
<1> DEFINE r == [m EXCEPT !.exec_shadow = p]
<1> HIDE DEF r
<1> QED BY ShadowIs, AllLikewise DEF r, AllOK

LEMMA SelectIs ==
  ASSUME NEW kk, NEW t, AllOK(kk, NIL, t)
  PROVE  LET r == Select(kk)
         IN  /\ AllOK(r, NIL, t) /\ Same(r, kk, SelectFields) /\ Chosen(r)
             /\ \A q \in Edf : r.dline[q] = kk.dline[q]
<1> DEFINE r == Select(kk)
<1>1. kk \in Kernels /\ Wellformed(kk) /\ kk.edf \in Seq(Ranked) /\ kk.rr \in Seq(RrTasks)
  BY KernelFields DEF AllOK, Wellformed
<1>2. \A p \in Pids : QueueOK(kk, NIL, p) /\ p # NIL  BY PidSets DEF AllOK, TaskOK
<1>4. \A p \in Members(kk.rr) : kk.wcet[p] > 0
  <2> SUFFICES ASSUME NEW p \in Members(kk.rr) PROVE kk.wcet[p] > 0  BY Zenon
  <2> QED BY <1>1, <1>2, PidSets DEF QueueOK, Members
<1>5. CASE kk.edf # <<>>
  <2> DEFINE m == Eligible(kk)
  <2>1. r = [m EXCEPT !.exec_shadow = Head(m.edf)]  BY <1>5 DEF Select
  <2>2. /\ Wellformed(m) /\ Same(m, kk, {"cbs_dline", "avail", "dline", "edf"})
        /\ Members(m.edf) = Members(kk.edf) /\ \A q \in Edf : m.dline[q] = kk.dline[q]
    BY <1>1, <1>2, PidSets, EligibleIs DEF Kept, QueueOK
  <2> HIDE DEF m
  <2>5. m.edf \in Seq(Ranked) /\ m.edf # <<>>
    BY <1>1, <1>5, <2>2, EmptyMembers, KernelFields DEF Wellformed
  <2>6. Head(m.edf) \in Pids  BY <2>5, HeadMember, PidSets
  <2>7. /\ AllOK(r, NIL, t) /\ r.exec_shadow = Head(m.edf) /\ Same(r, m, {"exec_shadow"})
    BY <2>1, <2>2, <2>6, AllSame, ShadowThen DEF Same, Fields, Aside
  <2> HIDE DEF r
  <2> QED BY <2>2, <2>5, <2>7 DEF Chosen, r, Same, Fields, SelectFields
<1>6. CASE kk.edf = <<>> /\ kk.rr # <<>>
  <2> DEFINE m == RR_scheduler(kk)
  <2>1. r = [m EXCEPT !.exec_shadow = Head(m.rr)]  BY <1>6 DEF Select
  <2>2. /\ Wellformed(m) /\ Same(m, kk, {"rr", "avail"})
        /\ Members(m.rr) = Members(kk.rr) /\ m.rr # <<>>
    BY <1>1, <1>4, <1>6, RR_schedulerIs
  <2> HIDE DEF m
  <2>3. /\ m.edf = kk.edf /\ m.dline = kk.dline
        /\ Same(m, kk, Aside \cup {"dline", "edf", "rr", "nact", "adeadline"})
    BY <2>2 DEF Same, Fields, Aside
  <2>4. AllOK(m, NIL, t)  BY <2>2, <2>3, AllSame
  <2>7. /\ AllOK(r, NIL, t) /\ r.exec_shadow = Head(m.rr) /\ Same(r, m, {"exec_shadow"})
    BY <2>1, <2>2, <2>4, KernelFields, HeadMember, PidSets, ShadowThen DEF Wellformed
  <2> HIDE DEF r
  <2> QED BY <1>6, <2>2, <2>3, <2>7 DEF Chosen, r, Same, Fields, SelectFields
<1>7. CASE kk.edf = <<>> /\ kk.rr = <<>>
  <2> HIDE DEF r
  <2> QED BY <1>7, PidSets, ShadowThen DEF Chosen, r, Same, Fields, SelectFields, Select
<1> QED BY <1>5, <1>6, <1>7

LEMMA ScheduledTrans ==
  ASSUME NEW a, NEW b, NEW c, Scheduled(a, b), Scheduled(b, c)
  PROVE  Scheduled(a, c)
BY DEF Scheduled, Same, Unmoved

\* public_dispatch takes the task off its queue.
LEMMA public_dispatchIs ==
  ASSUME NEW kk, NEW t, AllOK(kk, NIL, t), Chosen(kk), NEW p, p = kk.exec_shadow
  PROVE  LET r == public_dispatch(Status(kk, p, "EXE"), p)
         IN  /\ p \in Pids
             /\ AllOK(r, p, t) /\ FirstRuns(r) /\ Scheduled(r, kk) /\ Others(r, kk, p)
             /\ Same(r, kk, {"status", "edf", "rr"})
<1> DEFINE m == Status(kk, p, "EXE")
           r == public_dispatch(m, p)
<1>1. /\ Wellformed(kk) /\ kk \in Kernels /\ kk.edf \in Seq(Ranked) /\ kk.rr \in Seq(RrTasks)
      /\ kk.dline \in [Ranked -> Int] /\ kk.status \in [Pids -> Statuses]
  BY KernelFields DEF AllOK, Wellformed
<1>2. /\ p \in Pids
      /\ \/ p \in Members(kk.edf) /\ p \in Ranked /\ p = kk.edf[1] /\ kk.edf # <<>>
         \/ p \in Members(kk.rr) /\ p \in RrTasks /\ kk.edf = <<>>
         \/ p = Dummy /\ kk.edf = <<>> /\ kk.rr = <<>>
  BY <1>1, HeadMember, PidSets DEF Chosen
<1>3. TaskOK(kk, NIL, t, p) /\ p # NIL  BY <1>2, PidSets DEF AllOK
<1>4. /\ Wellformed(m) /\ Others(m, kk, p) /\ Same(m, kk, {"status"})
      /\ m.status = [kk.status EXCEPT ![p] = "EXE"]
  BY <1>1, <1>2, StatusIs, StatusNames
<1> HIDE DEF m
<1>5. m.edf = kk.edf /\ m.rr = kk.rr /\ m.dline = kk.dline  BY <1>4 DEF Same, Fields
<1>6. /\ Wellformed(r) /\ Others(r, m, p) /\ Same(r, m, {"edf", "rr"})
      /\ Members(r.edf) = Members(kk.edf) \ {p} /\ Members(r.rr) = Members(kk.rr) \ {p}
  <2>1. CASE p \in Ranked
    <3> DEFINE d == EDF_dispatch(m, p)
    <3>1. r = d  BY <2>1, PidSets DEF public_dispatch, CBS_dispatch, EDF_private_dispatch, EDF_dispatch
    <3>2. p \in Members(m.edf) /\ p \notin Members(kk.rr)  BY <1>1, <1>2, <1>5, <2>1, PidSets DEF Members
    <3>3. /\ Wellformed(d) /\ Others(d, m, p) /\ Same(d, m, {"edf"})
          /\ Members(d.edf) = Members(m.edf) \ {p}
      BY <1>4, <3>2, EDF_dispatchIs
    <3> HIDE DEF d, r
    <3> QED BY <1>5, <3>1, <3>2, <3>3 DEF Same, Fields
  <2>2. CASE p \in RrTasks
    <3> DEFINE d == RR_dispatch(m, p)
    <3>1. r = d  BY <2>2, PidSets DEF public_dispatch
    <3>2. p \in Members(m.rr) /\ p \notin Members(kk.edf)  BY <1>1, <1>2, <1>5, <2>2, PidSets DEF Members
    <3>3. /\ Wellformed(d) /\ Others(d, m, p) /\ Same(d, m, {"rr"})
          /\ Members(d.rr) = Members(m.rr) \ {p}
      BY <1>4, <3>2, RR_dispatchIs
    <3> HIDE DEF d, r
    <3> QED BY <1>5, <3>1, <3>2, <3>3 DEF Same, Fields
  <2>3. CASE p = Dummy
    <3>1. r = m  BY <2>3, PidSets DEF public_dispatch
    <3> HIDE DEF r
    <3> QED BY <1>1, <1>4, <1>5, <2>3, <3>1, LikewiseSelf, PidSets DEF Members, Same
  <2> QED BY <1>2, <2>1, <2>2, <2>3
<1> HIDE DEF r
<1>7. Others(r, kk, p) /\ Same(r, kk, {"status", "edf", "rr"})  BY <1>4, <1>6, OthersTrans DEF Same
<1>8. /\ r.status = [kk.status EXCEPT ![p] = "EXE"] /\ r.wcet = kk.wcet /\ r.late = kk.late
      /\ r.release = kk.release /\ r.dline = kk.dline /\ r.exec_shadow = p
      /\ r.events = kk.events
  BY <1>4, <1>6, <1>7 DEF Same, Fields
<1>9. Timers(r, p) = Timers(kk, p)  BY <1>8, TimersSame
<1>10. r.status[p] = "EXE" /\ (p # Dummy => kk.status[p] \in CanRun)
  BY <1>1, <1>2, <1>3, <1>8 DEF TaskOK, QueueOK, CanRun
<1>11. TaskOK(r, p, t, p)
  <2>1. QueueOK(r, p, p)  BY <1>3, <1>6, <1>8, <1>10 DEF TaskOK, QueueOK, CanRun
  <2>2. p \in Edf => EdfTimersOK(r, p)
    BY <1>3, <1>8, <1>9, <1>10, PidSets DEF TaskOK, EdfTimersOK, CanRun, InJobs
  <2>3. p \in Soft => CbsTimersOK(r, p)  BY <1>3, <1>9, <1>10, PidSets DEF TaskOK, CbsTimersOK, CanRun
  <2>4. p \in Ranked => ReleaseOK(r, t, p)  BY <1>3, <1>8, <1>9 DEF TaskOK, ReleaseOK
  <2>5. Timers(r, p)["delay"] = {}  BY <1>3, <1>9, <1>10 DEF TaskOK, CanRun, QueueOK
  <2> QED BY <1>10, <2>1, <2>2, <2>3, <2>4, <2>5 DEF TaskOK
<1>12. AllOK(r, p, t)  BY <1>2, <1>6, <1>7, <1>11, PidSets, AllButOne
<1>13. FirstRuns(r)
  <2>1. CASE p \in Ranked
    <3>1. ASSUME NEW q \in Members(r.edf) PROVE kk.dline[p] <= kk.dline[q]
      <4>1. PICK j \in DOMAIN kk.edf : q = kk.edf[j]  BY <1>6, <3>1 DEF Members
      <4>2. p = kk.edf[1] /\ InOrder(kk.edf, kk.dline) /\ kk.edf # <<>>
        BY <1>1, <1>2, <2>1, PidSets DEF Wellformed
      <4>3. 1 \in DOMAIN kk.edf /\ j \in Nat /\ j >= 1 /\ kk.dline[p] \in Int  BY <1>1, <2>1, <4>1, <4>2
      <4>4. CASE j = 1  BY <4>1, <4>2, <4>3, <4>4
      <4>5. CASE 1 < j  BY <4>1, <4>2, <4>3, <4>5 DEF InOrder
      <4> QED BY <4>3, <4>4, <4>5
    <3> QED BY <1>8, <2>1, <3>1, PidSets DEF FirstRuns
  <2>2. CASE kk.edf = <<>>
    <3>2. p = Dummy => r.rr = <<>>
      <4>1. SUFFICES ASSUME p = Dummy PROVE r.rr = <<>>  OBVIOUS
      <4>2. kk.rr = <<>>  BY <1>1, <1>2, <4>1, PidSets DEF Members
      <4> QED BY <1>1, <1>6, <4>2, KernelFields, EmptyMembers DEF Wellformed
    <3> QED BY <1>1, <1>6, <1>8, <2>2, <3>2, EmptyMembers DEF FirstRuns
  <2> QED BY <1>2, <2>1, <2>2
<1>14. Scheduled(r, kk)
  <2>1. ASSUME NEW q \in Pids \ {Dummy} PROVE Unmoved(r, kk, q)
    <3>1. CASE q = p  BY <1>8, <1>9, <1>10, <2>1, <3>1 DEF Unmoved, CanRun
    <3>2. CASE q # p  BY <1>1, <1>2, <1>8, <3>2, TimersSame DEF Unmoved
    <3> QED BY <3>1, <3>2
  <2> QED BY <1>7, <2>1 DEF Scheduled, Same, Fields, UnmovedFields
<1> QED BY <1>2, <1>7, <1>12, <1>13, <1>14 DEF r, m

LEMMA LikewiseUnmoved ==
  ASSUME NEW r, NEW kk, Likewise(r, kk), NEW q \in Pids
  PROVE  Unmoved(r, kk, q)
BY PidSets DEF Unmoved, Alike, Likewise

LEMMA DispatchIs ==
  ASSUME NEW kk, NEW t, AllOK(kk, NIL, t), Chosen(kk), ~Posted(kk, "capacity", NIL)
  PROVE  LET r == Dispatch(kk)
         IN  /\ r.exec_shadow = kk.exec_shadow /\ r.exec_shadow \in Pids
             /\ AllOK(r, r.exec_shadow, t) /\ FirstRuns(r) /\ Scheduled(r, kk)
<1> DEFINE p == kk.exec_shadow
           d == public_dispatch(Status(kk, p, "EXE"), p)
           c == [d EXCEPT !.cap_lasttime = kk.schedule_time]
           u == kk.schedule_time + kk.avail[p]
           r == Dispatch(kk)
<1>1. /\ p \in Pids /\ AllOK(d, p, t) /\ FirstRuns(d) /\ Scheduled(d, kk) /\ Others(d, kk, p)
      /\ Same(d, kk, {"status", "edf", "rr"})
  BY public_dispatchIs
<1>2. r = IF p \in kk.capped THEN Post(c, "capacity", NIL, u) ELSE c  BY DEF Dispatch
<1> HIDE DEF r, d
<1>3. u \in Int /\ kk.schedule_time \in Int  BY <1>1, KernelFields DEF AllOK, Wellformed
<1> HIDE DEF u
<1>4. Wellformed(c) /\ Likewise(c, d) /\ Same(c, d, {"cap_lasttime"})  BY <1>1, <1>3, LastTimeIs DEF AllOK
<1> HIDE DEF c
<1>6. ~Posted(c, "capacity", NIL)  BY <1>1, <1>4 DEF Posted, Same, Fields
<1>7. Wellformed(r) /\ Likewise(r, d) /\ Same(r, d, {"cap_lasttime", "events"})
  <2>1. CASE p \notin kk.capped  BY <1>2, <1>4, <2>1 DEF Same
  <2>2. CASE p \in kk.capped
    <3>2. Wellformed(r) /\ Others(r, c, NIL) /\ Same(r, c, {"events"})
      BY <1>2, <1>3, <1>4, <1>6, <2>2, PostIs DEF Handlers, Addressed, Event
    <3>3. ASSUME NEW q \in Pids PROVE Alike(r, d, q) /\ Timers(r, q) = Timers(d, q)
      BY <1>4, <3>2, PidSets, OthersTimers DEF Alike, Others, Likewise
    <3> QED BY <1>4, <3>2, <3>3 DEF Likewise, Same
  <2> QED BY <2>1, <2>2
<1>11. Scheduled(r, d)  BY <1>7, LikewiseUnmoved DEF Scheduled, Same, Fields, UnmovedFields
<1> QED BY <1>1, <1>7, <1>11, ScheduledTrans, AllLikewise DEF r, FirstRuns, Same, Fields

LEMMA SelectDispatchIs ==
  ASSUME NEW kk, NEW t, AllOK(kk, NIL, t), ~Posted(kk, "capacity", NIL)
  PROVE  LET r == Dispatch(Select(kk))
         IN  Resumed(r, t) /\ Scheduled(r, kk)
<1> DEFINE m == Select(kk)
           r == Dispatch(m)
<1>1. /\ AllOK(m, NIL, t) /\ Same(m, kk, SelectFields) /\ Chosen(m)
      /\ \A q \in Edf : m.dline[q] = kk.dline[q]
  BY SelectIs
<1> HIDE DEF m
<1>2. m.events = kk.events /\ m.status = kk.status  BY <1>1 DEF Same, Fields, SelectFields
<1> HIDE DEF r
<1>5. Scheduled(m, kk)
  BY <1>1, <1>2, TimersSame
     DEF Scheduled, Unmoved, Same, Fields, UnmovedFields, SelectFields
<1> QED BY <1>1, <1>2, <1>5, DispatchIs, ScheduledTrans DEF r, m, Resumed, Posted

\* The running task goes back to the queue of its level.
LEMMA public_epilogueIs ==
  ASSUME NEW kk, NEW p \in Pids, NEW t, AllOK(kk, p, t)
  PROVE  LET r == public_epilogue(kk, p)
         IN  AllOK(r, NIL, t) /\ Scheduled(r, kk) /\ Others(r, kk, p)
<1> DEFINE r == public_epilogue(kk, p)
           C == {"cbs_dline", "avail", "capped", "dline", "edf", "rr", "status"}
<1>1. /\ TaskOK(kk, p, t, p) /\ Wellformed(kk) /\ p # NIL
      /\ kk.status \in [Pids -> Statuses] /\ kk.status[p] = "EXE"
  BY PidSets, KernelFields DEF AllOK, Wellformed, TaskOK, QueueOK
<1>2. (p \in Ranked => p \notin Members(kk.edf)) /\ (p \in RrTasks => p \notin Members(kk.rr))
  BY <1>1 DEF TaskOK, QueueOK
<1>3. /\ Wellformed(r) /\ Others(r, kk, p) /\ Same(r, kk, C)
      /\ r.status = [kk.status EXCEPT ![p] = IF p = Dummy THEN "SLEEP" ELSE "READY"]
      /\ p \in Ranked => p \in Members(r.edf)
      /\ p \in RrTasks => p \in Members(r.rr)
      /\ p \in Edf => r.dline[p] = kk.dline[p]
  <2>1. CASE p \in Edf
    <3> DEFINE m == EDF_epilogue(kk, p)
    <3>1. r = m  BY <2>1, PidSets DEF public_epilogue
    <3>2. /\ Wellformed(m) /\ Others(m, kk, p) /\ Same(m, kk, {"capped", "edf", "status"})
          /\ ReadyInEdf(m, kk, p)
      BY <1>1, <1>2, <2>1, PidSets, EDF_epilogueIs
    <3> HIDE DEF r, m
    <3> QED BY <2>1, <3>1, <3>2, PidSets DEF ReadyInEdf, Same, Fields
  <2>2. CASE p \in Soft
    <3> DEFINE m == CBS_epilogue(kk, p)
    <3>1. r = m  BY <2>2, PidSets DEF public_epilogue
    <3>2. /\ Wellformed(m) /\ Others(m, kk, p)
          /\ Same(m, kk, {"cbs_dline", "avail", "dline", "edf", "status"})
          /\ ReadyInEdf(m, kk, p)
      BY <1>1, <1>2, <2>2, PidSets, CBS_epilogueIs DEF TaskOK, QueueOK
    <3> HIDE DEF r, m
    <3> QED BY <2>2, <3>1, <3>2, PidSets DEF ReadyInEdf, Same, Fields
  <2>3. CASE p \in RrTasks
    <3> DEFINE m == RR_epilogue(kk, p)
    <3>1. r = m  BY <2>3, PidSets DEF public_epilogue
    <3>2. /\ Wellformed(m) /\ Others(m, kk, p) /\ Same(m, kk, {"avail", "rr", "status"})
          /\ ReadyInRr(m, kk, p)
      BY <1>1, <1>2, <2>3, RR_epilogueIs
    <3> HIDE DEF r, m
    <3> QED BY <2>3, <3>1, <3>2, PidSets DEF ReadyInRr, Same, Fields
  <2>4. CASE p = Dummy
    <3> DEFINE m == Status(kk, p, "SLEEP")
    <3>1. r = m  BY <2>4, PidSets DEF public_epilogue
    <3>2. /\ Wellformed(m) /\ Others(m, kk, p) /\ Same(m, kk, {"status"})
          /\ m.status = [kk.status EXCEPT ![p] = "SLEEP"]
      BY <1>1, StatusIs, StatusNames
    <3> HIDE DEF r, m
    <3> QED BY <2>4, <3>1, <3>2, PidSets DEF Same
  <2> QED BY <2>1, <2>2, <2>3, <2>4 DEF Pids, Ranked
<1> HIDE DEF r
<1>4. /\ r.wcet = kk.wcet /\ r.late = kk.late /\ r.release = kk.release
      /\ r.events = kk.events
  BY <1>3 DEF Same, Fields
<1>5. Timers(r, p) = Timers(kk, p)  BY <1>4, TimersSame
<1>6. TaskOK(r, NIL, t, p)
  <2>1. r.status[p] = IF p = Dummy THEN "SLEEP" ELSE "READY"  BY <1>1, <1>3
  <2>2. QueueOK(r, NIL, p)  BY <1>1, <1>3, <1>4, <2>1, PidSets DEF TaskOK, QueueOK
  <2>3. p \in Edf => EdfTimersOK(r, p)  BY <1>1, <1>4, <1>5, <2>1, PidSets DEF TaskOK, EdfTimersOK, InJobs
  <2>5. p \in Ranked => ReleaseOK(r, t, p)  BY <1>1, <1>4, <1>5 DEF TaskOK, ReleaseOK
  <2> QED BY <1>1, <1>5, <2>1, <2>2, <2>3, <2>5, PidSets DEF TaskOK, CbsTimersOK
<1>8. Scheduled(r, kk)
  <2>1. ASSUME NEW q \in Pids \ {Dummy} PROVE Unmoved(r, kk, q)
    <3>1. q \in Edf => r.dline[q] = kk.dline[q]  BY <1>3, PidSets DEF Others, Alike, Apart
    <3>2. CASE q = p  BY <1>1, <1>3, <1>5, <3>1, <3>2 DEF Unmoved, CanRun
    <3>3. CASE q # p  BY <1>1, <1>3, <1>4, <3>1, <3>3, TimersSame DEF Unmoved
    <3> QED BY <3>2, <3>3
  <2> QED BY <1>3, <2>1 DEF Scheduled, Same, Fields, UnmovedFields
<1> QED BY <1>3, <1>6, <1>8, PidSets, AllButOne DEF r

LEMMA LikewiseScheduled ==
  ASSUME NEW r, NEW kk, Likewise(r, kk), NEW C, Same(r, kk, C), C \cap UnmovedFields = {}
  PROVE  Scheduled(r, kk)
BY LikewiseUnmoved DEF Scheduled, Same

\* No task has the processor.
LEMMA schedulerFree ==
  ASSUME NEW kk, NEW t, AllOK(kk, NIL, t), kk.exec_shadow = NIL,
         ~Posted(kk, "capacity", NIL)
  PROVE  LET r == scheduler(kk)
         IN  Settled(r, t) /\ Scheduled(r, kk)
<1> DEFINE r == scheduler(kk)
<1>1. r = Dispatch(Select(kk))  BY KernelFields, PidSets DEF scheduler, AllOK, Wellformed
<1> HIDE DEF r
<1> QED BY <1>1, SelectDispatchIs DEF Resumed, Settled, r

\* The event that stops the running task belongs to no task.
LEMMA CapacityStays ==
  ASSUME NEW r, Wellformed(r), NEW kk, NEW p \in Pids, Others(r, kk, p),
         ~Posted(kk, "capacity", NIL)
  PROVE  ~Posted(r, "capacity", NIL)
<1>1. SUFFICES ASSUME NEW i \in DOMAIN r.events, r.events[i].handler = "capacity",
                      r.events[i].pid = NIL
               PROVE  FALSE
  BY DEF Posted
<1>3. r.events[i] \in Members(kk.events)  BY <1>1, KernelFields, ListFields, PidSets
                                             DEF Others, Wellformed, Members
<1> QED BY <1>1, <1>3 DEF Members, Posted

\* The running task gives way to a better one.
LEMMA schedulerAgain ==
  ASSUME NEW kk, NEW t, kk.exec_shadow \in Pids, AllOK(kk, kk.exec_shadow, t), now \in Int,
         kk.exec_shadow \notin kk.nopreempt
  PROVE  LET r == scheduler(kk)
         IN  Settled(r, t) /\ Scheduled(r, kk)
<1> DEFINE x == kk.exec_shadow
           a == kern_epilogue_macro(kk)
           b == public_epilogue(a, x)
           r == Dispatch(Select(b))
<1>1. scheduler(kk) = r  BY PidSets DEF scheduler
<1>2. /\ Wellformed(a) /\ Likewise(a, kk) /\ Same(a, kk, {"schedule_time", "avail", "events"})
      /\ ~Posted(a, "capacity", NIL)
  BY kern_epilogue_macroIs DEF AllOK
<1> HIDE DEF a
<1>4. AllOK(b, NIL, t) /\ Scheduled(b, a) /\ Others(b, a, x)  BY <1>2, AllLikewise,
                                                                 public_epilogueIs
<1> HIDE DEF b
<1>6. Resumed(r, t) /\ Scheduled(r, b)  BY <1>2, <1>4, CapacityStays, SelectDispatchIs
                                           DEF AllOK
<1> HIDE DEF r
<1> QED BY <1>1, <1>2, <1>4, <1>6, LikewiseScheduled, ScheduledTrans
           DEF Resumed, Settled, UnmovedFields

LEMMA schedulerIs ==
  ASSUME NEW kk, NEW t, kk.exec_shadow \in Pids, AllOK(kk, kk.exec_shadow, t), now \in Int
  PROVE  LET r == scheduler(kk)
         IN  Settled(r, t) /\ Scheduled(r, kk)
<1>1. CASE kk.exec_shadow \notin kk.nopreempt  BY <1>1, schedulerAgain
<1>2. CASE kk.exec_shadow \in kk.nopreempt
  <2>2. Likewise(kk, kk) /\ Same(kk, kk, {})  BY DEF Likewise, Alike, Same
  <2> QED BY <1>2, <2>2, LikewiseScheduled, PidSets DEF Settled, scheduler
<1> QED BY <1>1, <1>2

LEMMA GiveUpIs ==
  ASSUME NEW kk, NEW t, AllOK(kk, NIL, t), ~Posted(kk, "capacity", NIL)
  PROVE  LET r == GiveUp(kk)
         IN  Settled(r, t) /\ Scheduled(r, kk)
<1> DEFINE m == [kk EXCEPT !.exec_shadow = NIL]
<1>1. Wellformed(m) /\ Likewise(m, kk) /\ Same(m, kk, {"exec_shadow"}) /\ m.exec_shadow = NIL
  BY ShadowIs DEF AllOK
<1>2. GiveUp(kk) = scheduler(m)  BY DEF GiveUp
<1> HIDE DEF m
<1>6. Scheduled(m, kk)  BY <1>1, LikewiseScheduled DEF UnmovedFields
<1> QED BY <1>1, <1>2, <1>6, AllLikewise, schedulerFree, ScheduledTrans
           DEF Posted, Same, Fields

------------------------------
(* Releases of the EDF level *)

LEMMA NactIs ==
  ASSUME NEW kk, Wellformed(kk), NEW p \in Ranked, NEW n \in Nat
  PROVE  LET r == [kk EXCEPT !.nact[p] = n]
         IN  /\ Wellformed(r) /\ Others(r, kk, p)
             /\ Same(r, kk, {"nact"})
             /\ r.nact = [kk.nact EXCEPT ![p] = n]
<1> DEFINE r == [kk EXCEPT !.nact[p] = n]
<1>1. /\ r \in Kernels
      /\ Same(r, kk, {"nact"})
      /\ r.nact = [kk.nact EXCEPT ![p] = n]
  BY KernelFields, PidSets DEF Wellformed, Kernels, Same, Fields
<1> HIDE DEF r
<1>2. Wellformed(r)  BY <1>1 DEF Wellformed, Same, Fields
<1>3. /\ r.status = kk.status /\ r.wcet = kk.wcet /\ r.late = kk.late
      /\ r.edf = kk.edf /\ r.rr = kk.rr /\ r.dline = kk.dline
      /\ r.release = kk.release /\ r.adeadline = kk.adeadline /\ r.events = kk.events
      /\ r.dl_miss = kk.dl_miss /\ r.U = kk.U
  BY <1>1 DEF Same, Fields
<1> QED BY <1>1, <1>2, <1>3, KernelFields, PidSets DEF r, Wellformed, Others, Alike, Apart

LEMMA ReleaseIs ==
  ASSUME NEW kk, Wellformed(kk), NEW p \in Ranked, NEW u \in Int
  PROVE  LET r == [kk EXCEPT !.release[p] = u]
         IN  /\ Wellformed(r) /\ Others(r, kk, p)
             /\ Same(r, kk, {"release"})
             /\ r.release = [kk.release EXCEPT ![p] = u]
<1> DEFINE r == [kk EXCEPT !.release[p] = u]
<1>1. /\ r \in Kernels
      /\ Same(r, kk, {"release"})
      /\ r.release = [kk.release EXCEPT ![p] = u]
  BY KernelFields, PidSets DEF Wellformed, Kernels, Same, Fields
<1> HIDE DEF r
<1>2. Wellformed(r)  BY <1>1 DEF Wellformed, Same, Fields
<1>3. /\ r.status = kk.status /\ r.wcet = kk.wcet /\ r.late = kk.late
      /\ r.edf = kk.edf /\ r.rr = kk.rr /\ r.dline = kk.dline
      /\ r.nact = kk.nact /\ r.adeadline = kk.adeadline /\ r.events = kk.events
      /\ r.dl_miss = kk.dl_miss /\ r.U = kk.U
  BY <1>1 DEF Same, Fields
<1> QED BY <1>1, <1>2, <1>3, KernelFields, PidSets DEF r, Wellformed, Others, Alike, Apart

LEMMA AdeadlineIs ==
  ASSUME NEW kk, Wellformed(kk), NEW p \in Edf, NEW u \in Int
  PROVE  LET r == [kk EXCEPT !.adeadline[p] = u]
         IN  /\ Wellformed(r) /\ Others(r, kk, p)
             /\ Same(r, kk, {"adeadline"})
             /\ r.adeadline = [kk.adeadline EXCEPT ![p] = u]
<1> DEFINE r == [kk EXCEPT !.adeadline[p] = u]
<1>1. /\ r \in Kernels
      /\ Same(r, kk, {"adeadline"})
      /\ r.adeadline = [kk.adeadline EXCEPT ![p] = u]
  BY KernelFields, PidSets DEF Wellformed, Kernels, Same, Fields
<1> HIDE DEF r
<1>2. Wellformed(r)  BY <1>1 DEF Wellformed, Same, Fields
<1>3. /\ r.status = kk.status /\ r.wcet = kk.wcet /\ r.late = kk.late
      /\ r.edf = kk.edf /\ r.rr = kk.rr /\ r.dline = kk.dline
      /\ r.release = kk.release /\ r.nact = kk.nact /\ r.events = kk.events
      /\ r.dl_miss = kk.dl_miss /\ r.U = kk.U
  BY <1>1 DEF Same, Fields
<1> QED BY <1>1, <1>2, <1>3, KernelFields, PidSets DEF r, Wellformed, Others, Alike, Apart

\* A job becomes ready with the deadline that was set aside for it.
LEMMA EDF_assignIs ==
  ASSUME NEW kk, Wellformed(kk), NEW p \in Edf, p \notin Members(kk.edf)
  PROVE  LET r == EDF_assign(kk, p)
         IN  /\ Wellformed(r) /\ Others(r, kk, p) /\ Same(r, kk, {"dline", "adeadline", "edf"})
             /\ Members(r.edf) = Members(kk.edf) \cup {p}
             /\ r.dline = [kk.dline EXCEPT ![p] = kk.adeadline[p]]
             /\ r.adeadline = [kk.adeadline EXCEPT ![p] = kk.adeadline[p] + period[p]]
<1> DEFINE d == kk.adeadline[p]
           a == [kk EXCEPT !.dline[p] = d]
           u == d + period[p]
           b == [a EXCEPT !.adeadline[p] = u]
           r == EDF_insert(b, p)
<1>1. d \in Int /\ u \in Int /\ period[p] \in Int /\ p \in Ranked  BY KernelFields, PidSets DEF Wellformed
<1>3. EDF_assign(kk, p) = r  BY DEF EDF_assign, Wellformed, Kernels
<1> HIDE DEF d, u
<1>4. /\ Wellformed(a) /\ Others(a, kk, p) /\ Same(a, kk, {"dline"})
      /\ a.dline = [kk.dline EXCEPT ![p] = d]
  BY <1>1, DlineIs
<1> HIDE DEF a
<1>5. /\ Wellformed(b) /\ Others(b, a, p) /\ Same(b, a, {"adeadline"})
      /\ b.adeadline = [a.adeadline EXCEPT ![p] = u]
  BY <1>1, <1>4, AdeadlineIs
<1> HIDE DEF b
<1>6. b.edf = kk.edf /\ b.dline = a.dline /\ a.adeadline = kk.adeadline  BY <1>4, <1>5 DEF Same, Fields
<1>7. /\ Wellformed(r) /\ Others(r, b, p) /\ Same(r, b, {"edf"})
      /\ Members(r.edf) = Members(b.edf) \cup {p}
  BY <1>1, <1>5, <1>6, EDF_insertIs
<1> HIDE DEF r
<1>8. Same(r, kk, {"dline", "adeadline", "edf"})  BY <1>4, <1>5, <1>7 DEF Same
<1>9. r.dline = b.dline /\ r.adeadline = b.adeadline  BY <1>7 DEF Same, Fields
<1>10. Others(r, kk, p)  BY <1>4, <1>5, <1>7, OthersTrans
<1> QED BY <1>3, <1>4, <1>5, <1>6, <1>7, <1>8, <1>9, <1>10 DEF d, u

LEMMA DeadlineTimerIs ==
  ASSUME NEW p \in Edf
  PROVE  DeadlineTimer(p) \in Nat /\ DeadlineTimer(p) < period[p]
BY PidSets DEF DeadlineTimer

LEMMA EDF_releaseIs ==
  ASSUME NEW kk, Wellformed(kk), NEW p \in Edf,
         kk.status[p] = "IDLE" => p \notin Members(kk.edf)
  PROVE  LET r == EDF_release(kk, p)
         IN  /\ Wellformed(r) /\ Others(r, kk, p) /\ Same(r, kk, ReleaseFields)
             /\ Released(r, kk, p)
             /\ Earlier(kk, kk.release[p] + DeadlineTimer(p)) /\ ~FirstIs(kk, "deadline", p)
                /\ ~FirstIs(kk, "endperiod", p) => FirstStays(r, kk)
<1> DEFINE t == kk.release[p]
           d == t + DeadlineTimer(p)
           u == t + period[p]
           a == Post(Unpost(kk, "deadline", p), "deadline", p, d)
           s == Status(a, p, "READY")
           i == EDF_assign(s, p)
           j == [i EXCEPT !.resched = TRUE]
           n == a.nact[p] + 1
           l == [a EXCEPT !.nact[p] = n]
           b == IF a.status[p] = "IDLE" THEN j ELSE l
           c == [b EXCEPT !.release[p] = u]
           r == Post(Unpost(c, "endperiod", p), "endperiod", p, u)
<1>1. EDF_release(kk, p) = r
  <2>1. a.nact[p] = a.nact[p] /\ l = [a EXCEPT !.nact[p] = @ + 1]
    <3> HIDE DEF a
    <3> QED BY DEF l
  <2> QED BY <2>1 DEF EDF_release
<1>2. /\ t \in Int /\ d \in Int /\ u \in Int /\ p \in Ranked /\ p \in Pids /\ d < u
      /\ kk.status \in [Pids -> Statuses] /\ kk.nact \in [Ranked -> Nat]
  BY KernelFields, PidSets, DeadlineTimerIs DEF Wellformed
<1> HIDE DEF t, d, u
<1>3. /\ "deadline" \in Handlers /\ Addressed(Event("deadline", p, d))
      /\ "endperiod" \in Handlers /\ Addressed(Event("endperiod", p, u))
  BY DEF Handlers, Addressed, Event
<1>4. /\ Wellformed(a) /\ Others(a, kk, p) /\ Same(a, kk, {"events"})
      /\ Timers(a, p) = [Timers(kk, p) EXCEPT !["deadline"] = {d}]
      /\ Earlier(kk, d) /\ ~FirstIs(kk, "deadline", p) => FirstStays(a, kk)
  BY <1>2, <1>3, Reposting
<1> HIDE DEF a
<1>5. /\ a.status = kk.status /\ a.edf = kk.edf /\ a.nact = kk.nact /\ a.release = kk.release
      /\ a.dline = kk.dline /\ a.adeadline = kk.adeadline
  BY <1>4 DEF Same, Fields
<1>6. /\ Wellformed(b) /\ Others(b, kk, p) /\ Same(b, kk, ReleaseFields \ {"release"})
      /\ b.events = a.events /\ b.release = kk.release
      /\ kk.status[p] = "IDLE" =>
           /\ ReadyInEdf(b, kk, p) /\ b.resched = TRUE
           /\ b.dline = [kk.dline EXCEPT ![p] = kk.adeadline[p]]
           /\ b.adeadline = [kk.adeadline EXCEPT ![p] = kk.adeadline[p] + period[p]]
           /\ b.nact = kk.nact
      /\ kk.status[p] # "IDLE" =>
           /\ Same(b, kk, {"events", "nact"})
           /\ b.nact = [kk.nact EXCEPT ![p] = kk.nact[p] + 1]
  <2>1. CASE kk.status[p] = "IDLE"
    <3>1. b = j  BY <1>5, <2>1
    <3>2. /\ Wellformed(s) /\ Others(s, a, p) /\ Same(s, a, {"status"})
          /\ s.status = [a.status EXCEPT ![p] = "READY"]
      BY <1>2, <1>4, StatusIs, StatusNames
    <3> HIDE DEF s
    <3>3. s.edf = a.edf /\ s.dline = a.dline /\ s.adeadline = a.adeadline  BY <3>2 DEF Same, Fields
    <3>4. /\ Wellformed(i) /\ Others(i, s, p) /\ Same(i, s, {"dline", "adeadline", "edf"})
          /\ Members(i.edf) = Members(s.edf) \cup {p}
          /\ i.dline = [s.dline EXCEPT ![p] = s.adeadline[p]]
          /\ i.adeadline = [s.adeadline EXCEPT ![p] = s.adeadline[p] + period[p]]
      <4>1. p \notin Members(s.edf)  BY <1>5, <2>1, <3>3
      <4> QED BY <3>2, <4>1, EDF_assignIs
    <3> HIDE DEF i
    <3>5. /\ Wellformed(j) /\ Others(j, i, p) /\ Same(j, i, {"resched"}) /\ j.resched = TRUE
      BY <3>4, ReschedIs
    <3> HIDE DEF j, b
    <3>6. /\ j.edf = i.edf /\ j.dline = i.dline /\ j.adeadline = i.adeadline
          /\ i.status = s.status /\ j.status = i.status
          /\ j.events = i.events /\ i.events = s.events /\ s.events = a.events
          /\ j.nact = i.nact /\ i.nact = s.nact /\ s.nact = a.nact
          /\ j.release = i.release /\ i.release = s.release /\ s.release = a.release
      BY <3>2, <3>4, <3>5 DEF Same, Fields
    <3>7. Others(j, kk, p)  BY <1>4, <3>2, <3>4, <3>5, OthersTrans
    <3>8. Same(j, kk, ReleaseFields \ {"release"})  BY <1>4, <3>2, <3>4, <3>5 DEF Same, ReleaseFields
    <3>9. ReadyInEdf(j, kk, p)  BY <1>5, <3>2, <3>3, <3>4, <3>6 DEF ReadyInEdf
    <3> QED BY <1>5, <2>1, <3>1, <3>3, <3>4, <3>5, <3>6, <3>7, <3>8, <3>9
  <2>2. CASE kk.status[p] # "IDLE"
    <3>1. b = l  BY <1>5, <2>2
    <3>2. n \in Nat /\ n = kk.nact[p] + 1  BY <1>2, <1>5
    <3> HIDE DEF n
    <3>3. /\ Wellformed(l) /\ Others(l, a, p) /\ Same(l, a, {"nact"})
          /\ l.nact = [a.nact EXCEPT ![p] = n]
      BY <1>2, <1>4, <3>2, NactIs
    <3> HIDE DEF l, b
    <3>4. Others(l, kk, p) /\ Same(l, kk, {"events", "nact"})  BY <1>4, <3>3, OthersTrans DEF Same
    <3> QED BY <1>5, <2>2, <3>1, <3>2, <3>3, <3>4 DEF Same, Fields, ReleaseFields
  <2> QED BY <2>1, <2>2
<1> HIDE DEF b
<1>7. /\ Wellformed(c) /\ Others(c, b, p) /\ Same(c, b, {"release"})
      /\ c.release = [b.release EXCEPT ![p] = u]
  BY <1>2, <1>6, ReleaseIs
<1> HIDE DEF c
<1>8. /\ Wellformed(r) /\ Others(r, c, p) /\ Same(r, c, {"events"})
      /\ Timers(r, p) = [Timers(c, p) EXCEPT !["endperiod"] = {u}]
      /\ Earlier(c, u) /\ ~FirstIs(c, "endperiod", p) => FirstStays(r, c)
  BY <1>2, <1>3, <1>7, Reposting
<1> HIDE DEF r
<1>9. /\ c.events = a.events /\ r.status = b.status /\ r.edf = b.edf /\ r.resched = b.resched
      /\ r.dline = b.dline /\ r.adeadline = b.adeadline /\ r.nact = b.nact
      /\ r.release = c.release
  BY <1>6, <1>7, <1>8 DEF Same, Fields
<1>10. Released(r, kk, p)
  <2>1. Timers(c, p) = Timers(a, p)  BY <1>9, TimersSame
  <2>2. Timers(r, p) = [[Timers(kk, p) EXCEPT !["deadline"] = {d}] EXCEPT !["endperiod"] = {u}]
    BY <1>4, <1>8, <2>1
  <2>3. ReadyInEdf(b, kk, p) => ReadyInEdf(r, kk, p)  BY <1>9 DEF ReadyInEdf
  <2>4. Same(b, kk, {"events", "nact"}) => Same(r, kk, {"events", "nact", "release"})
    BY <1>7, <1>8 DEF Same
  <2>5. r.release = [kk.release EXCEPT ![p] = u]  BY <1>6, <1>7, <1>9
  <2> QED BY <1>6, <1>9, <2>2, <2>3, <2>4, <2>5 DEF Released, d, u, t
<1>11. Others(r, kk, p) /\ Same(r, kk, ReleaseFields)
  BY <1>6, <1>7, <1>8, OthersTrans DEF Same, ReleaseFields
<1>12. Earlier(kk, d) /\ ~FirstIs(kk, "deadline", p) /\ ~FirstIs(kk, "endperiod", p)
         => FirstStays(r, kk)
  <2>1. HAVE Earlier(kk, d) /\ ~FirstIs(kk, "deadline", p) /\ ~FirstIs(kk, "endperiod", p)
  <2>3. kk.events[1].time \in Int
    BY <2>1, KernelFields, ListFields, EmptySeq, LenProperties DEF Earlier, Wellformed
  <2> QED BY <1>2, <1>4, <1>8, <1>9, <2>1, <2>3 DEF FirstStays, Earlier, FirstIs
<1> QED BY <1>1, <1>8, <1>10, <1>11, <1>12 DEF d, t

------------------------------
(* The operations of the EDF level on the invariant of the task *)

\* The handlers of a level are for its tasks.
LEMMA OwnTimers ==
  ASSUME NEW kk, Wellformed(kk)
  PROVE  /\ \A p \in Edf : Timers(kk, p)["reactivate"] = {} /\ Timers(kk, p)["zombie"] = {}
         /\ \A p \in Soft : /\ Timers(kk, p)["deadline"] = {} /\ Timers(kk, p)["offset"] = {}
                            /\ Timers(kk, p)["endperiod"] = {}
<1>1. ASSUME NEW p, NEW h \in Handlers, NEW a \in Timers(kk, p)[h]
      PROVE  Addressed(Event(h, p, a))
  <2>1. PICK e \in Members(kk.events) : e.handler = h /\ e.pid = p /\ e.time = a  BY <1>1 DEF Timers
  <2> QED BY <2>1 DEF Addressed, Event, Wellformed, EventList, TimedList
<1>2. ASSUME NEW p \in Edf PROVE Timers(kk, p)["reactivate"] = {} /\ Timers(kk, p)["zombie"] = {}
  BY <1>1, PidSets DEF Handlers, Addressed, Event
<1>3. ASSUME NEW p \in Soft
      PROVE  /\ Timers(kk, p)["deadline"] = {} /\ Timers(kk, p)["offset"] = {}
             /\ Timers(kk, p)["endperiod"] = {}
  BY <1>1, PidSets DEF Handlers, Addressed, Event
<1> QED BY <1>2, <1>3

\* A job of an idle task is released, or that of one in a job is counted.
LEMMA ReleaseTask ==
  ASSUME NEW kk, Wellformed(kk), NEW x, NEW t \in Int, NEW p \in Edf, QueueOK(kk, x, p),
         kk.status[p] \in InJobs \cup {"IDLE"}, p \notin kk.late, kk.release[p] >= t,
         Timers(kk, p)["delay"] # {} <=> kk.status[p] = "WAIT_NANOSLEEP",
         Timers(kk, p)["offset"] = {}
  PROVE  LET r == EDF_release(kk, p)
         IN  TaskOK(r, x, t, p)
<1> DEFINE r == EDF_release(kk, p)
           T == Timers(kk, p)
           u == kk.release[p]
           d == u + DeadlineTimer(p)
           e == u + period[p]
<1>2. /\ Wellformed(r) /\ Others(r, kk, p) /\ Same(r, kk, ReleaseFields)
      /\ Released(r, kk, p)
  BY PidSets, EDF_releaseIs DEF QueueOK
<1> HIDE DEF r
<1>3. /\ p \in Pids /\ p \in Ranked /\ p # Dummy /\ p \notin RrTasks /\ p \notin Soft
      /\ u \in Int /\ d < e /\ e >= t /\ DOMAIN T = Handlers
      /\ kk.status \in [Pids -> Statuses] /\ kk.release \in [Ranked -> Int]
  BY PidSets, KernelFields, DeadlineTimerIs, TimersAt DEF Wellformed
<1>4. /\ Timers(r, p) = [[T EXCEPT !["deadline"] = {d}] EXCEPT !["endperiod"] = {e}]
      /\ r.release[p] = e
  BY <1>2, <1>3 DEF Released
<1> HIDE DEF u, d, e
<1>5. /\ Timers(r, p)["deadline"] = {d} /\ Timers(r, p)["endperiod"] = {e}
      /\ Timers(r, p)["offset"] = {} /\ Timers(r, p)["delay"] = T["delay"]
      /\ Timers(r, p)["reactivate"] = {}
  <2> HIDE DEF T
  <2> QED BY <1>3, <1>4, OwnTimers DEF Handlers, T
<1>6. r.wcet = kk.wcet /\ r.late = kk.late /\ r.rr = kk.rr  BY <1>2 DEF Same, Fields, ReleaseFields
<1>7. r.status[p] = IF kk.status[p] = "IDLE" THEN "READY" ELSE kk.status[p]
  <2>1. CASE kk.status[p] = "IDLE"  BY <1>2, <1>3, <2>1 DEF Released, ReadyInEdf
  <2>2. CASE kk.status[p] # "IDLE"  BY <1>2, <2>2 DEF Released, Same, Fields
  <2> QED BY <2>1, <2>2
<1>8. p \in Members(r.edf) <=> (p \in Members(kk.edf) \/ kk.status[p] = "IDLE")
  <2>1. CASE kk.status[p] = "IDLE"  BY <1>2, <1>3, <2>1 DEF Released, ReadyInEdf
  <2>2. CASE kk.status[p] # "IDLE"  BY <1>2, <2>2 DEF Released, Same, Fields
  <2> QED BY <2>1, <2>2
<1>9. QueueOK(r, x, p)  BY <1>3, <1>6, <1>7, <1>8 DEF QueueOK, InJobs
<1>10. EdfTimersOK(r, p)  BY <1>3, <1>5, <1>6, <1>7 DEF EdfTimersOK, InJobs
<1>11. ReleaseOK(r, t, p)  BY <1>3, <1>4, <1>5 DEF ReleaseOK, ReleaseTimers
<1> QED BY <1>3, <1>5, <1>7, <1>9, <1>10, <1>11 DEF TaskOK, r

\* oneshot_wake_up takes the first event of the list, which is the only one for
\* its handler and task.
LEMMA Firing ==
  ASSUME NEW kk, Wellformed(kk), kk.events # <<>>
  PROVE  LET r == [kk EXCEPT !.events = Tail(@)]
             e == kk.events[1]
         IN  /\ Wellformed(r) /\ Others(r, kk, e.pid) /\ Same(r, kk, {"events"})
             /\ e.handler \in Handlers /\ Addressed(e) /\ e \in Members(kk.events)
             /\ e.time \in Int
             /\ Timers(r, e.pid) = [Timers(kk, e.pid) EXCEPT ![e.handler] = {}]
             /\ Timers(kk, e.pid)[e.handler] = {e.time}
             /\ \A h \in Handlers : \A a \in Timers(kk, e.pid)[h] : e.time <= a
             /\ r.events = Tail(kk.events)
<1> DEFINE r == [kk EXCEPT !.events = Tail(@)]
           e == kk.events[1]
           h == e.handler
           p == e.pid
<1>1. /\ Wellformed(r) /\ Others(r, kk, p) /\ Same(r, kk, {"events"})
      /\ Members(r.events) = Members(kk.events) \ {e}
      /\ e \in Members(kk.events) /\ e \in Events /\ Addressed(e)
      /\ ~Posted(r, h, p) /\ \A c \in Members(kk.events) : e.time <= c.time
      /\ r.events = Tail(kk.events)
  BY TailIs
<1> HIDE DEF r, e
<1>2. h \in Handlers /\ e.time \in Int  BY <1>1, EventFields
<1>3. ASSUME NEW c \in Members(kk.events), c.handler = h, c.pid = p PROVE c = e
  <2>1. SUFFICES ASSUME c \in Members(r.events) PROVE FALSE  BY <1>1
  <2>2. PICK i \in DOMAIN r.events : c = r.events[i]  BY <2>1 DEF Members
  <2> QED BY <1>1, <1>3, <2>2 DEF Posted
<1>4. e.handler = h /\ e.pid = p  OBVIOUS
<1> HIDE DEF h, p
<1>5. Timers(r, p) = [Timers(kk, p) EXCEPT ![h] = {}]
  <2>1. ASSUME NEW c
        PROVE  c \in Members(r.events) <=> c \in Members(kk.events) /\ ~(c.handler = h /\ c.pid = p)
    BY <1>1, <1>3, <1>4
  <2> QED BY <1>2, <2>1, UnpostTimers
<1>6. Timers(kk, p)[h] = {e.time}
  <2>1. ASSUME NEW c
        PROVE  c \in {b \in Members(kk.events) : b.handler = h /\ b.pid = p} <=> c = e
    BY <1>1, <1>3, <1>4
  <2> QED BY <1>2, <2>1 DEF Timers
<1>7. \A g \in Handlers : \A a \in Timers(kk, p)[g] : e.time <= a  BY <1>1 DEF Timers
<1> QED BY <1>1, <1>2, <1>5, <1>6, <1>7 DEF r, e, h, p

LEMMA NextSame ==
  ASSUME NEW r, NEW m, NEW t, r.events = m.events
  PROVE  NextStays(r, m, t)
BY DEF NextStays, Earlier, FirstStays

LEMMA FirstTimers ==
  ASSUME NEW m, Wellformed(m), NEW h \in Handlers, NEW p, Timers(m, p)[h] = {}
  PROVE  ~FirstIs(m, h, p)
<1> SUFFICES ASSUME FirstIs(m, h, p) PROVE FALSE  OBVIOUS
<1>1. m.events[1] \in Members(m.events)
  BY KernelFields, ListFields, EmptySeq DEF FirstIs, Wellformed, Members
<1> QED BY <1>1 DEF FirstIs, Timers

LEMMA NextReleased ==
  ASSUME NEW m, Wellformed(m), NEW p \in Edf,
         m.status[p] = "IDLE" => p \notin Members(m.edf),
         Timers(m, p)["deadline"] = {}, Timers(m, p)["endperiod"] = {},
         NEW t \in Int, m.release[p] >= t
  PROVE  NextStays(EDF_release(m, p), m, t)
<1>1. ~FirstIs(m, "deadline", p) /\ ~FirstIs(m, "endperiod", p)  BY FirstTimers DEF Handlers
<1>2. ASSUME DeadlineTimer(p) > 0, Earlier(m, t + 1)
      PROVE  Earlier(m, m.release[p] + DeadlineTimer(p))
  <2>1. m.events[1].time \in Int
    BY <1>2, KernelFields, ListFields, EmptySeq, LenProperties DEF Earlier, Wellformed
  <2>2. m.release[p] \in Int /\ DeadlineTimer(p) \in Nat
    BY KernelFields, PidSets, DeadlineTimerIs DEF Wellformed
  <2> QED BY <1>2, <2>1, <2>2 DEF Earlier
<1> QED BY <1>1, <1>2, EDF_releaseIs DEF NextStays

LEMMA HeardSame ==
  ASSUME NEW r, NEW kk, NEW C, Same(r, kk, C),
         C \cap {"exec_shadow", "nopreempt"} = {},
         r.resched = TRUE \/ C \cap {"resched", "edf", "rr", "dline"} = {}
  PROVE  Heard(r, kk)
BY DEF Heard, Same, Fields

LEMMA LateIs ==
  ASSUME NEW kk, Wellformed(kk), NEW p \in Sporadic
  PROVE  LET r == [kk EXCEPT !.late = @ \cup {p}]
         IN  /\ Wellformed(r) /\ Others(r, kk, p)
             /\ Same(r, kk, {"late"})
             /\ r.late = kk.late \cup {p}
<1> DEFINE r == [kk EXCEPT !.late = @ \cup {p}]
<1> HIDE DEF r
<1> QED BY KernelFields, PidSets DEF r, Wellformed, Same, Fields, Others, Alike, Apart, Kernels

LEMMA endperiodIs ==
  ASSUME NEW kk, NEW x, NEW t \in Int, AllOK(kk, x, t), kk.events # <<>>,
         kk.events[1].handler = "endperiod"
  PROVE  LET p == kk.events[1].pid
             m == [kk EXCEPT !.events = Tail(@)]
             r == EDF_timer_endperiod(m, p)
         IN  /\ p \in Edf /\ AllOK(r, x, t) /\ Heard(r, kk) /\ NextStays(r, m, t)
             /\ Others(r, kk, p) /\ Quiet(r, kk)
<1> DEFINE e == kk.events[1]
           p == e.pid
           m == [kk EXCEPT !.events = Tail(@)]
           r == EDF_timer_endperiod(m, p)
           T == Timers(kk, p)
           st == kk.status[p]
<1>1. /\ Wellformed(m) /\ Others(m, kk, p) /\ Same(m, kk, {"events"})
      /\ Addressed(e) /\ e.time \in Int
      /\ Timers(m, p) = [T EXCEPT !["endperiod"] = {}]
      /\ T["endperiod"] = {e.time}
      /\ \A h \in Handlers : \A a \in T[h] : e.time <= a
  BY Firing DEF AllOK
<1>3. p \in Edf  BY <1>1 DEF Addressed
<1> HIDE DEF e, m
<1>4. /\ p \in Pids /\ p \in Ranked /\ p # Dummy /\ p \notin RrTasks /\ p \notin Soft
      /\ DOMAIN T = Handlers /\ kk.status \in [Pids -> Statuses] /\ kk.late \subseteq Sporadic
      /\ p \in Periodic \/ p \in Sporadic
  BY <1>3, PidSets, KernelFields, TimersAt DEF AllOK, Wellformed, Edf
<1>5. /\ QueueOK(kk, x, p) /\ EdfTimersOK(kk, p) /\ ReleaseOK(kk, t, p)
      /\ T["delay"] # {} <=> st = "WAIT_NANOSLEEP"
  BY <1>3, <1>4 DEF AllOK, TaskOK
<1>6. /\ m.status = kk.status /\ m.late = kk.late /\ m.release = kk.release
      /\ m.wcet = kk.wcet /\ m.edf = kk.edf /\ m.rr = kk.rr
  BY <1>1 DEF Same, Fields
<1>7. /\ Timers(m, p)["endperiod"] = {} /\ Timers(m, p)["deadline"] = T["deadline"]
      /\ Timers(m, p)["offset"] = T["offset"] /\ Timers(m, p)["delay"] = T["delay"]
      /\ Timers(m, p)["reactivate"] = {}
  <2> HIDE DEF T
  <2> QED BY <1>1, <1>3, <1>4, OwnTimers DEF Handlers, AllOK
<1>8. e.time = kk.release[p] /\ kk.release[p] >= t  BY <1>1, <1>5 DEF ReleaseOK, ReleaseTimers
<1>9. T["offset"] = {} /\ p \notin kk.late /\ T["deadline"] = {}
  <2>2. \A a \in T["deadline"] : a \in Int
    BY KernelFields, ListFields DEF Timers, Handlers, AllOK, Wellformed, Members
  <2> QED BY <1>1, <1>5, <2>2 DEF EdfTimersOK, Handlers
<1>10. /\ Wellformed(r) /\ Others(r, kk, p) /\ TaskOK(r, x, t, p) /\ Heard(r, kk)
       /\ NextStays(r, m, t) /\ Quiet(r, kk)
  <2>1. CASE st = "ZOMBIE" \/ st = "WAIT"
    <3> DEFINE v == IF st = "ZOMBIE" THEN "FREE" ELSE "SLEEP"
    <3>1. /\ Wellformed(r) /\ Others(r, m, p) /\ Same(r, m, {"status", "U"})
          /\ r.status = [m.status EXCEPT ![p] = v]
      <4>1. CASE st = "ZOMBIE"  BY <1>1, <1>3, <1>6, <4>1, EDF_freeIs DEF EDF_timer_endperiod
      <4>2. CASE st = "WAIT"
        <5>2. /\ Wellformed(r) /\ Others(r, m, p) /\ Same(r, m, {"status"})
              /\ r.status = [m.status EXCEPT ![p] = "SLEEP"]
          BY <1>1, <1>4, <1>6, <4>2, StatusIs, StatusNames DEF EDF_timer_endperiod
        <5> HIDE DEF r
        <5> QED BY <4>2, <5>2 DEF Same
      <4> QED BY <2>1, <4>1, <4>2
    <3> HIDE DEF r
    <3>2. /\ r.late = kk.late /\ r.release = kk.release /\ r.events = m.events
          /\ r.wcet = kk.wcet /\ r.edf = kk.edf /\ r.rr = kk.rr
      BY <1>6, <3>1 DEF Same, Fields
    <3>3. r.status[p] = v /\ Timers(r, p) = Timers(m, p)  BY <1>4, <1>6, <3>1, <3>2, TimersSame
    <3>4. TaskOK(r, x, t, p)
      <4>1. QueueOK(r, x, p)  BY <1>4, <1>5, <2>1, <3>2, <3>3 DEF QueueOK
      <4>2. EdfTimersOK(r, p)  BY <1>7, <1>9, <3>2, <3>3 DEF EdfTimersOK, InJobs
      <4>3. ReleaseOK(r, t, p)  BY <1>7, <1>9, <3>3 DEF ReleaseOK, ReleaseTimers
      <4> QED BY <1>4, <1>5, <1>7, <2>1, <3>3, <4>1, <4>2, <4>3 DEF TaskOK
    <3>6. Same(r, kk, {"events", "status", "U"})  BY <1>1, <3>1 DEF Same
    <3> QED BY <1>1, <3>1, <3>2, <3>4, <3>6, QuietSame, OthersTrans, HeardSame, NextSame
  <2>2. CASE st \notin {"ZOMBIE", "WAIT"} /\ p \in Sporadic
    <3>1. r = [m EXCEPT !.late = @ \cup {p}]  BY <1>6, <2>2 DEF EDF_timer_endperiod
    <3>2. st \in InJobs  BY <1>1, <1>4, <1>5, <1>9, <2>2 DEF EdfTimersOK, InJobs, Statuses
    <3>3. /\ Wellformed(r) /\ Others(r, m, p) /\ Same(r, m, {"late"})
          /\ r.late = m.late \cup {p}
      BY <1>1, <2>2, <3>1, LateIs
    <3> HIDE DEF r
    <3>4. /\ r.status = kk.status /\ r.release = kk.release /\ r.events = m.events
          /\ r.wcet = kk.wcet /\ r.edf = kk.edf /\ r.rr = kk.rr /\ p \in r.late
      BY <1>6, <3>3 DEF Same, Fields
    <3>5. Timers(r, p) = Timers(m, p)  BY <3>4, TimersSame
    <3>6. TaskOK(r, x, t, p)
      <4>2. EdfTimersOK(r, p)  BY <1>7, <1>9, <3>2, <3>4, <3>5 DEF EdfTimersOK, InJobs
      <4>3. ReleaseOK(r, t, p)  BY <1>7, <1>9, <3>5 DEF ReleaseOK, ReleaseTimers
      <4> QED BY <1>4, <1>5, <1>7, <3>4, <3>5, <4>2, <4>3 DEF TaskOK, QueueOK
    <3>8. Same(r, kk, {"events", "late"})  BY <1>1, <3>3 DEF Same
    <3> QED BY <1>1, <3>3, <3>4, <3>6, <3>8, QuietSame, OthersTrans, HeardSame, NextSame
  <2>3. CASE st \notin {"ZOMBIE", "WAIT"} /\ p \notin Sporadic
    <3>1. r = EDF_release(m, p)  BY <1>6, <2>3 DEF EDF_timer_endperiod
    <3>2. st \in InJobs \cup {"IDLE"}  BY <1>1, <1>4, <1>5, <2>3 DEF EdfTimersOK, InJobs, Statuses
    <3>3. TaskOK(r, x, t, p)
      <4>1. QueueOK(m, x, p)  BY <1>5, <1>6 DEF QueueOK
      <4>2. Timers(m, p)["delay"] # {} <=> m.status[p] = "WAIT_NANOSLEEP"  BY <1>5, <1>6, <1>7
      <4> HIDE DEF r
      <4> QED BY <1>1, <1>3, <1>6, <1>7, <1>8, <1>9, <3>1, <3>2, <4>1, <4>2, ReleaseTask
    <3>4. /\ Wellformed(r) /\ Others(r, m, p) /\ Same(r, m, ReleaseFields)
          /\ Released(r, m, p) /\ NextStays(r, m, t)
      <4>1. m.status[p] = "IDLE" => p \notin Members(m.edf)  BY <1>4, <1>5, <1>6 DEF QueueOK
      <4> HIDE DEF r, T, p
      <4>3. NextStays(r, m, t)  BY <1>1, <1>3, <1>6, <1>7, <1>8, <1>9, <3>1, <4>1, NextReleased
      <4> QED BY <1>1, <1>3, <3>1, <4>1, <4>3, EDF_releaseIs
    <3> HIDE DEF r
    <3>6. Heard(r, kk)
      <4>1. CASE st = "IDLE"
        <5>2. Same(r, kk, ReleaseFields)  BY <1>1, <3>4 DEF Same, ReleaseFields
        <5> QED BY <1>6, <3>4, <4>1, <5>2, HeardSame DEF ReleaseFields, Released
      <4>2. CASE st # "IDLE"
        <5>2. Same(r, kk, {"events", "nact", "release"})  BY <1>1, <1>6, <3>4, <4>2 DEF Same, Released
        <5> QED BY <5>2, HeardSame
      <4> QED BY <4>1, <4>2
    <3> QED BY <1>1, <3>3, <3>4, <3>6, OthersTrans DEF Quiet, Same, Fields, ReleaseFields
  <2> QED BY <2>1, <2>2, <2>3
<1> QED BY <1>3, <1>4, <1>10, AllButOne DEF e, m

LEMMA offsetIs ==
  ASSUME NEW kk, NEW x, NEW t \in Int, AllOK(kk, x, t), kk.events # <<>>,
         kk.events[1].handler = "offset"
  PROVE  LET p == kk.events[1].pid
             m == [kk EXCEPT !.events = Tail(@)]
             r == EDF_timer_offset(m, p)
         IN  /\ p \in Edf /\ AllOK(r, x, t) /\ Heard(r, kk) /\ NextStays(r, m, t)
             /\ Others(r, kk, p) /\ Quiet(r, kk)
<1> DEFINE e == kk.events[1]
           p == e.pid
           m == [kk EXCEPT !.events = Tail(@)]
           r == EDF_timer_offset(m, p)
           T == Timers(kk, p)
<1>1. /\ Wellformed(m) /\ Others(m, kk, p) /\ Same(m, kk, {"events"})
      /\ Addressed(e) /\ e.time \in Int
      /\ Timers(m, p) = [T EXCEPT !["offset"] = {}]
      /\ T["offset"] = {e.time}
  BY Firing DEF AllOK
<1>2. p \in Edf  BY <1>1 DEF Addressed
<1> HIDE DEF e, m
<1>3. p \in Pids /\ p \in Ranked /\ DOMAIN T = Handlers  BY <1>2, PidSets, TimersAt
<1>4. /\ QueueOK(kk, x, p) /\ EdfTimersOK(kk, p) /\ ReleaseOK(kk, t, p)
      /\ T["delay"] # {} <=> kk.status[p] = "WAIT_NANOSLEEP"
  BY <1>2, <1>3 DEF AllOK, TaskOK
<1>5. /\ m.status = kk.status /\ m.late = kk.late /\ m.release = kk.release
      /\ m.wcet = kk.wcet /\ m.edf = kk.edf /\ m.rr = kk.rr
  BY <1>1 DEF Same, Fields
<1>6. Timers(m, p)["offset"] = {} /\ Timers(m, p)["delay"] = T["delay"]
  <2> HIDE DEF T
  <2> QED BY <1>1, <1>3 DEF Handlers
<1>7. e.time = kk.release[p] /\ kk.release[p] >= t  BY <1>1, <1>4 DEF ReleaseOK, ReleaseTimers
<1>8. kk.status[p] = "IDLE" /\ p \notin kk.late  BY <1>1, <1>4 DEF EdfTimersOK, InJobs
<1>9. r = EDF_release(m, p)  BY DEF EDF_timer_offset
<1> HIDE DEF r
<1>10. QueueOK(m, x, p) /\ (Timers(m, p)["delay"] # {} <=> m.status[p] = "WAIT_NANOSLEEP")
  BY <1>4, <1>5, <1>6 DEF QueueOK
<1>11. TaskOK(r, x, t, p)  BY <1>1, <1>2, <1>5, <1>6, <1>7, <1>8, <1>9, <1>10, ReleaseTask
<1>12. /\ Wellformed(r) /\ Others(r, m, p) /\ Same(r, m, ReleaseFields)
       /\ Released(r, m, p) /\ NextStays(r, m, t)
  <2>1. m.status[p] = "IDLE" => p \notin Members(m.edf)  BY <1>3, <1>4, <1>5 DEF QueueOK
  <2>2. T["deadline"] = {} /\ T["endperiod"] = {}  BY <1>1, <1>4, <1>8 DEF EdfTimersOK, InJobs
  <2>3. Timers(m, p)["deadline"] = {} /\ Timers(m, p)["endperiod"] = {}
    <3> HIDE DEF T
    <3> QED BY <1>1, <1>3, <2>2 DEF Handlers
  <2> QED BY <1>1, <1>2, <1>5, <1>7, <1>9, <2>1, <2>3, NextReleased, EDF_releaseIs
<1>13. Others(r, kk, p)  BY <1>1, <1>12, OthersTrans
<1>14. Heard(r, kk)
  <2>2. Same(r, kk, ReleaseFields)  BY <1>1, <1>12 DEF Same, ReleaseFields
  <2> QED BY <1>5, <1>8, <1>12, <2>2, HeardSame DEF ReleaseFields, Released
<1>15. AllOK(r, x, t)  BY <1>3, <1>11, <1>12, <1>13, AllButOne
<1>16. Quiet(r, kk)  BY <1>1, <1>12 DEF Quiet, Same, Fields, ReleaseFields
<1> QED BY <1>2, <1>12, <1>13, <1>14, <1>15, <1>16 DEF r, e, m

\* The count of the misses is said nothing of.
LEMMA AllMissed ==
  ASSUME NEW kk, NEW x, NEW t, AllOK(kk, x, t), NEW r, Wellformed(r), Same(r, kk, {"dl_miss"})
  PROVE  AllOK(r, x, t)
<1> SUFFICES ASSUME NEW q \in Pids PROVE TaskOK(r, x, t, q)  BY DEF AllOK
<1> QED BY TimersSame
           DEF TaskOK, CbsTimersOK, ReleaseOK, QueueOK, EdfTimersOK, AllOK, Same, Fields

LEMMA deadlineIs ==
  ASSUME NEW kk, NEW x, NEW t \in Int, AllOK(kk, x, t), kk.events # <<>>,
         kk.events[1].handler = "deadline"
  PROVE  LET p == kk.events[1].pid
             m == [kk EXCEPT !.events = Tail(@)]
             r == EDF_timer_deadline(m, p)
         IN  /\ p \in Edf /\ AllOK(r, x, t) /\ Heard(r, kk) /\ NextStays(r, m, t)
             /\ Others(r, kk, p) /\ Quiet(r, kk)
<1> DEFINE e == kk.events[1]
           p == e.pid
           m == [kk EXCEPT !.events = Tail(@)]
           r == EDF_timer_deadline(m, p)
           T == Timers(kk, p)
<1>1. /\ Wellformed(m) /\ Others(m, kk, p) /\ Same(m, kk, {"events"})
      /\ Addressed(e) /\ Timers(m, p) = [T EXCEPT !["deadline"] = {}]
  BY Firing DEF AllOK
<1>2. p \in Edf  BY <1>1 DEF Addressed
<1> HIDE DEF e, m
<1>3. p \in Pids /\ p \in Ranked /\ p \notin Soft /\ DOMAIN T = Handlers  BY <1>2, PidSets, TimersAt
<1>4. TaskOK(kk, x, t, p)  BY <1>3 DEF AllOK
<1>5. /\ m.status = kk.status /\ m.late = kk.late /\ m.release = kk.release
      /\ m.wcet = kk.wcet /\ m.edf = kk.edf /\ m.rr = kk.rr
  BY <1>1 DEF Same, Fields
<1>6. /\ Timers(m, p)["deadline"] = {} /\ Timers(m, p)["offset"] = T["offset"]
      /\ Timers(m, p)["delay"] = T["delay"] /\ Timers(m, p)["endperiod"] = T["endperiod"]
      /\ Timers(m, p)["reactivate"] = T["reactivate"]
  <2> HIDE DEF T
  <2> QED BY <1>1, <1>3 DEF Handlers
<1>7. TaskOK(m, x, t, p)
  <2>2. EdfTimersOK(m, p)  BY <1>2, <1>4, <1>5, <1>6 DEF TaskOK, EdfTimersOK
  <2>3. ReleaseOK(m, t, p)  BY <1>3, <1>4, <1>5, <1>6 DEF TaskOK, ReleaseOK, ReleaseTimers
  <2>4. Timers(m, p)["delay"] # {} <=> m.status[p] = "WAIT_NANOSLEEP"  BY <1>4, <1>5, <1>6 DEF TaskOK
  <2> HIDE DEF T
  <2> QED BY <1>3, <1>4, <1>5, <2>2, <2>3, <2>4 DEF TaskOK, QueueOK
<1>9. Wellformed(r) /\ Others(r, m, p) /\ Same(r, m, {"dl_miss"})  BY <1>1, <1>2, EDF_timer_deadlineIs
<1> HIDE DEF r
<1>10. AllOK(r, x, t)  BY <1>1, <1>3, <1>7, <1>9, AllButOne, AllMissed
<1>11. Same(r, kk, {"events", "dl_miss"}) /\ NextStays(r, m, t)  BY <1>1, <1>9, NextSame DEF Same, Fields
<1>12. Others(r, kk, p)  BY <1>1, <1>9, OthersTrans
<1> QED BY <1>2, <1>10, <1>11, <1>12, QuietSame, HeardSame DEF r, e, m

LEMMA zombieIs ==
  ASSUME NEW kk, NEW x, NEW t \in Int, AllOK(kk, x, t), kk.events # <<>>,
         kk.events[1].handler = "zombie"
  PROVE  LET p == kk.events[1].pid
             m == [kk EXCEPT !.events = Tail(@)]
             r == CBS_timer_zombie(m, p)
         IN  /\ p \in Soft /\ AllOK(r, x, t) /\ Heard(r, kk) /\ Others(r, kk, p)
             /\ NextStays(r, m, t) /\ Quiet(r, kk)
             /\ kk.status[p] = "ZOMBIE" /\ r.status[p] = "FREE"
<1> DEFINE e == kk.events[1]
           p == e.pid
           m == [kk EXCEPT !.events = Tail(@)]
           r == CBS_timer_zombie(m, p)
           T == Timers(kk, p)
<1>1. /\ Wellformed(m) /\ Others(m, kk, p) /\ Same(m, kk, {"events"})
      /\ Addressed(e) /\ Timers(m, p) = [T EXCEPT !["zombie"] = {}] /\ T["zombie"] = {e.time}
  BY Firing DEF AllOK
<1>2. p \in Soft  BY <1>1 DEF Addressed
<1> HIDE DEF e, m
<1>3. /\ p \in Pids /\ p \in Ranked /\ p \notin Edf /\ p \notin RrTasks /\ p # Dummy
      /\ DOMAIN T = Handlers /\ kk.status \in [Pids -> Statuses]
  BY <1>2, PidSets, TimersAt, KernelFields DEF AllOK, Wellformed
<1>4. TaskOK(kk, x, t, p)  BY <1>3 DEF AllOK
<1>5. kk.status[p] = "ZOMBIE"  BY <1>1, <1>2, <1>4 DEF TaskOK, CbsTimersOK
<1>7. /\ Wellformed(r) /\ Others(r, m, p) /\ Same(r, m, {"status"})
      /\ r.status = [m.status EXCEPT ![p] = "FREE"]
  BY <1>1, <1>3, StatusIs, StatusNames DEF CBS_timer_zombie
<1> HIDE DEF r
<1>8. m.status = kk.status /\ r.events = m.events /\ r.edf = kk.edf /\ r.release = kk.release
  BY <1>1, <1>7 DEF Same, Fields
<1>9. r.status[p] = "FREE" /\ Timers(r, p) = Timers(m, p)  BY <1>3, <1>7, <1>8, TimersSame
<1>10. /\ Timers(m, p)["zombie"] = {} /\ Timers(m, p)["reactivate"] = T["reactivate"]
       /\ Timers(m, p)["delay"] = T["delay"]
       /\ Timers(m, p)["endperiod"] = T["endperiod"] /\ Timers(m, p)["offset"] = T["offset"]
  <2> HIDE DEF T
  <2> QED BY <1>1, <1>3 DEF Handlers
<1>11. TaskOK(r, x, t, p)
  <2>1. QueueOK(r, x, p)  BY <1>2, <1>3, <1>4, <1>5, <1>8, <1>9 DEF TaskOK, QueueOK
  <2>2. CbsTimersOK(r, p)  BY <1>2, <1>4, <1>5, <1>9, <1>10 DEF TaskOK, CbsTimersOK
  <2>3. ReleaseOK(r, t, p)  BY <1>3, <1>4, <1>8, <1>9, <1>10 DEF TaskOK, ReleaseOK, ReleaseTimers
  <2> QED BY <1>3, <1>4, <1>5, <1>9, <1>10, <2>1, <2>2, <2>3 DEF TaskOK
<1>12. Others(r, kk, p)  BY <1>1, <1>7, OthersTrans
<1>13. AllOK(r, x, t)  BY <1>3, <1>7, <1>11, <1>12, AllButOne
<1>14. Same(r, kk, {"events", "status"})  BY <1>1, <1>7 DEF Same
<1>15. NextStays(r, m, t)  BY <1>8, NextSame
<1> HIDE DEF p, T
<1> QED BY <1>2, <1>5, <1>9, <1>12, <1>13, <1>14, <1>15, HeardSame, QuietSame DEF r, e, m, p

LEMMA capacityIs ==
  ASSUME NEW kk, NEW x, NEW t, AllOK(kk, x, t), kk.events # <<>>,
         kk.events[1].handler = "capacity"
  PROVE  LET m == [kk EXCEPT !.events = Tail(@)]
             r == [m EXCEPT !.resched = TRUE]
         IN  /\ AllOK(r, x, t) /\ Heard(r, kk) /\ Likewise(r, kk) /\ NextStays(r, m, t)
             /\ Same(r, kk, {"events", "resched"}) /\ r.resched
<1> DEFINE e == kk.events[1]
           m == [kk EXCEPT !.events = Tail(@)]
           r == [m EXCEPT !.resched = TRUE]
<1>1. /\ Wellformed(m) /\ Others(m, kk, e.pid) /\ Same(m, kk, {"events"})
      /\ Addressed(e)
  BY Firing DEF AllOK
<1>2. e.pid = NIL  BY <1>1 DEF Addressed
<1> HIDE DEF e, m
<1>3. Likewise(m, kk)
  <2>1. SUFFICES ASSUME NEW q \in Pids PROVE Alike(m, kk, q) /\ Timers(m, q) = Timers(kk, q)
    BY DEF Likewise
  <2> QED BY <1>1, <1>2, PidSets, OthersTimers DEF AllOK, Others
<1>5. Wellformed(r) /\ Likewise(r, m) /\ Same(r, m, {"resched"}) /\ r.resched = TRUE  BY <1>1, ReschedIs
<1> HIDE DEF r
<1>6. AllOK(r, x, t)  BY <1>1, <1>3, <1>5, AllLikewise
<1>7. Same(r, kk, {"events", "resched"})  BY <1>1, <1>5 DEF Same
<1>9. NextStays(r, m, t)  BY <1>5, NextSame DEF Same, Fields
<1> QED BY <1>3, <1>5, <1>6, <1>7, <1>9, LikewiseTrans, HeardSame DEF r, m

LEMMA NewServerIs ==
  ASSUME NEW kk, Wellformed(kk), NEW p \in Soft
  PROVE  LET r == NewServer(kk, p)
         IN  /\ Wellformed(r) /\ Others(r, kk, p)
             /\ Same(r, kk, {"status", "avail", "cbs_dline"})
             /\ r.status = [kk.status EXCEPT ![p] = "SLEEP"]
<1> DEFINE s == Status(kk, p, "SLEEP")
           w == kk.wcet[p]
           r == [s EXCEPT !.avail[p] = w, !.cbs_dline[p] = 0]
<1>1. /\ Wellformed(s) /\ Others(s, kk, p) /\ Same(s, kk, {"status"})
      /\ s.status = [kk.status EXCEPT ![p] = "SLEEP"]
  BY PidSets, StatusIs, StatusNames
<1>2. w \in Int /\ s \in Kernels  BY <1>1, KernelFields, PidSets DEF Wellformed
<1>3. NewServer(kk, p) = r  BY DEF NewServer
<1> HIDE DEF s, w
<1>4. /\ Same(r, s, {"avail", "cbs_dline"})
      /\ r.avail = [s.avail EXCEPT ![p] = w]
      /\ r.cbs_dline = [s.cbs_dline EXCEPT ![p] = 0]
  BY <1>2 DEF Kernels, Same, Fields
<1>5. /\ [s.avail EXCEPT ![p] = w] \in [Pids -> Int]
      /\ [s.cbs_dline EXCEPT ![p] = 0] \in [Soft -> Int]
  BY <1>2, KernelFields, PidSets
<1>6. r \in Kernels  BY <1>2, <1>4, <1>5 DEF Kernels
<1> HIDE DEF r
<1>7. Apart(r, s, p)  BY <1>2, <1>4, KernelFields, PidSets DEF Apart, Same, Fields
<1>8. Wellformed(r) /\ Others(r, s, p)  BY <1>1, <1>4, <1>6, <1>7, AsideIs DEF Aside
<1> QED BY <1>1, <1>3, <1>4, <1>8, OthersTrans DEF Same, Fields

LEMMA public_unblockIs ==
  ASSUME NEW kk, Wellformed(kk), NEW p \in Pids \ {Dummy}, p \notin Members(kk.edf),
         p \notin Members(kk.rr), now \in Int
  PROVE  LET r == public_unblock(kk, p)
         IN  /\ Wellformed(r) /\ Others(r, kk, p)
             /\ Same(r, kk, {"cbs_dline", "avail", "dline", "edf", "rr", "status"})
             /\ r.status = [kk.status EXCEPT ![p] = "READY"]
             /\ p \in Ranked => p \in Members(r.edf)
             /\ p \in RrTasks => /\ p \in Members(r.rr) /\ r.avail = kk.avail
                                 /\ r.rr = InsertLast(p, kk.rr)
             /\ p \in Edf => r.dline = kk.dline
<1> DEFINE C == {"cbs_dline", "avail", "dline", "edf", "rr", "status"}
           r == public_unblock(kk, p)
<1>1. CASE p \in Edf
  <2> DEFINE m == EDF_unblock(kk, p)
  <2>1. r = m  BY <1>1, PidSets DEF public_unblock
  <2>2. /\ Wellformed(m) /\ Others(m, kk, p) /\ Same(m, kk, {"edf", "status"})
        /\ ReadyInEdf(m, kk, p)
    BY <1>1, PidSets, EDF_unblockIs
  <2> HIDE DEF r, m
  <2> QED BY <1>1, <2>1, <2>2, PidSets DEF ReadyInEdf, r, Same, Fields
<1>2. CASE p \in Soft
  <2> DEFINE m == CBS_activation(kk, p, now)
  <2>1. r = m  BY <1>2, PidSets DEF public_unblock, CBS_unblock
  <2>2. /\ Wellformed(m) /\ Others(m, kk, p)
        /\ Same(m, kk, {"cbs_dline", "avail", "dline", "edf", "status"})
        /\ ReadyInEdf(m, kk, p)
    BY <1>2, CBS_activationIs
  <2> HIDE DEF r, m
  <2> QED BY <1>2, <2>1, <2>2, PidSets DEF ReadyInEdf, r, Same
<1>3. CASE p \in RrTasks
  <2> DEFINE m == RR_unblock(kk, p)
  <2>1. r = m  BY <1>3, PidSets DEF public_unblock
  <2>2. /\ Wellformed(m) /\ Others(m, kk, p) /\ Same(m, kk, {"rr", "status"})
        /\ ReadyInRr(m, kk, p) /\ m.rr = InsertLast(p, kk.rr)
    BY <1>3, RR_unblockIs
  <2> HIDE DEF r, m
  <2> QED BY <1>3, <2>1, <2>2, PidSets DEF ReadyInRr, r, Same, Fields
<1> QED BY <1>1, <1>2, <1>3 DEF Pids, Ranked

LEMMA delayIs ==
  ASSUME NEW kk, NEW x, NEW t \in Int, AllOK(kk, x, t), kk.events # <<>>,
         kk.events[1].handler = "delay", now \in Int
  PROVE  LET p == kk.events[1].pid
             m == [kk EXCEPT !.events = Tail(@)]
             r == delay_timer(m, p)
         IN  /\ p \in Pids /\ AllOK(r, x, t) /\ Heard(r, kk) /\ Others(r, kk, p)
             /\ kk.status[p] = "WAIT_NANOSLEEP" /\ r.status[p] = "READY"
             /\ Same(r, kk, {"cbs_dline", "avail", "dline", "edf", "rr", "status", "resched",
                             "events"})
             /\ p \in Edf => r.dline = kk.dline
             /\ p \in RrTasks => r.avail = kk.avail /\ r.rr = InsertLast(p, kk.rr)
             /\ NextStays(r, m, t) /\ r.resched
             /\ \A h \in Handlers \ {"delay"} : Timers(r, p)[h] = Timers(kk, p)[h]
<1> DEFINE e == kk.events[1]
           p == e.pid
           m == [kk EXCEPT !.events = Tail(@)]
           u == public_unblock(m, p)
           r == delay_timer(m, p)
           T == Timers(kk, p)
           C == {"cbs_dline", "avail", "dline", "edf", "rr", "status"}
<1>1. /\ Wellformed(m) /\ Others(m, kk, p) /\ Same(m, kk, {"events"})
      /\ Addressed(e) /\ Timers(m, p) = [T EXCEPT !["delay"] = {}] /\ T["delay"] = {e.time}
  BY Firing DEF AllOK
<1>2. p \in Pids  BY <1>1 DEF Addressed
<1> HIDE DEF e, m
<1>3. DOMAIN T = Handlers /\ kk.status \in [Pids -> Statuses]
  BY TimersAt, KernelFields DEF AllOK, Wellformed
<1>4. TaskOK(kk, x, t, p)  BY <1>2 DEF AllOK
<1>5. kk.status[p] = "WAIT_NANOSLEEP"  BY <1>1, <1>4 DEF TaskOK
<1>6. p # Dummy /\ p # x /\ p \notin Members(kk.edf) /\ p \notin Members(kk.rr)
  BY <1>4, <1>5, KernelFields DEF TaskOK, QueueOK, Members, AllOK, Wellformed
<1>7. m.edf = kk.edf /\ m.rr = kk.rr /\ m.status = kk.status  BY <1>1 DEF Same, Fields
<1>8. /\ Wellformed(u) /\ Others(u, m, p) /\ Same(u, m, C)
      /\ u.status = [m.status EXCEPT ![p] = "READY"]
      /\ p \in Ranked => p \in Members(u.edf)
      /\ p \in RrTasks => /\ p \in Members(u.rr) /\ u.avail = m.avail
                          /\ u.rr = InsertLast(p, m.rr)
      /\ p \in Edf => u.dline = m.dline
  BY <1>1, <1>2, <1>6, <1>7, public_unblockIs
<1>9. r = [u EXCEPT !.resched = TRUE]  BY DEF delay_timer
<1> HIDE DEF u, r
<1>10. /\ Wellformed(r) /\ Likewise(r, u) /\ Same(r, u, {"resched"}) /\ r.resched = TRUE
       /\ Others(r, u, p)
  BY <1>8, <1>9, ReschedIs
<1>11. /\ r.status = u.status /\ r.edf = u.edf /\ r.rr = u.rr /\ r.events = m.events
       /\ r.wcet = kk.wcet /\ r.late = kk.late /\ r.release = kk.release
  BY <1>1, <1>8, <1>10 DEF Same, Fields
<1>12. r.status[p] = "READY" /\ Timers(r, p) = Timers(m, p)  BY <1>2, <1>3, <1>7, <1>8, <1>11, TimersSame
<1>13. /\ Timers(m, p)["delay"] = {}
       /\ \A h \in Handlers \ {"delay"} : Timers(m, p)[h] = T[h]
  <2> HIDE DEF T
  <2> QED BY <1>1, <1>3 DEF Handlers
<1>14. TaskOK(r, x, t, p)
  <2>1. QueueOK(r, x, p)  BY <1>4, <1>5, <1>6, <1>8, <1>11, <1>12 DEF TaskOK, QueueOK
  <2>2. ASSUME p \in Edf PROVE EdfTimersOK(r, p)
    BY <1>4, <1>5, <1>11, <1>12, <1>13, <2>2 DEF TaskOK, EdfTimersOK, InJobs, Handlers
  <2>3. ASSUME p \in Soft PROVE CbsTimersOK(r, p)
    BY <1>4, <1>5, <1>12, <1>13, <2>3 DEF TaskOK, CbsTimersOK, Handlers
  <2>4. ASSUME p \in Ranked PROVE ReleaseOK(r, t, p)
    BY <1>4, <1>11, <1>12, <1>13, <2>4 DEF TaskOK, ReleaseOK, ReleaseTimers, Handlers
  <2> QED BY <1>12, <1>13, <2>1, <2>2, <2>3, <2>4 DEF TaskOK
<1>15. Others(r, kk, p)  BY <1>1, <1>8, <1>10, OthersTrans
<1>16. AllOK(r, x, t)  BY <1>2, <1>10, <1>14, <1>15, AllButOne
<1>17. Heard(r, kk)  BY <1>1, <1>8, <1>10 DEF Same, Fields, Heard
<1>18. Same(r, kk, C \cup {"resched", "events"})  BY <1>1, <1>8, <1>10 DEF Same
<1>19. /\ p \in Edf => r.dline = kk.dline
       /\ p \in RrTasks => r.avail = kk.avail /\ r.rr = InsertLast(p, kk.rr)
  BY <1>1, <1>8, <1>10 DEF Same, Fields
<1>20. \A h \in Handlers \ {"delay"} : Timers(r, p)[h] = T[h]  BY <1>12, <1>13
<1>21. C \cup {"resched", "events"} = {"cbs_dline", "avail", "dline", "edf", "rr", "status",
                                       "resched", "events"}
  OBVIOUS
<1>22. NextStays(r, m, t)  BY <1>11, NextSame
<1> HIDE DEF C
<1> QED BY <1>2, <1>5, <1>10, <1>12, <1>15, <1>16, <1>17, <1>18, <1>19, <1>20, <1>21, <1>22
       DEF r, e, m

LEMMA reactivateIs ==
  ASSUME NEW kk, NEW x, NEW t \in Int, AllOK(kk, x, t), kk.events # <<>>,
         kk.events[1].handler = "reactivate"
  PROVE  LET p == kk.events[1].pid
             m == [kk EXCEPT !.events = Tail(@)]
             r == CBS_timer_reactivate(m, p)
         IN  /\ p \in Soft /\ AllOK(r, x, t) /\ Heard(r, kk) /\ Others(r, kk, p)
             /\ NextStays(r, m, t) /\ Quiet(r, kk) /\ p \in SoftPeriodic
             /\ kk.release[p] = kk.events[1].time /\ kk.release[p] >= t
             /\ kk.status[p] \notin {"FREE", "SLEEP", "ZOMBIE"}
             /\ IF p \in kk.asleep /\ kk.status[p] = "IDLE"
                  THEN r.status[p] = "SLEEP" /\ r.nact = kk.nact
                  ELSE /\ r.release[p] = kk.release[p] + period[p]
                       /\ Timers(r, p)["reactivate"] # {}
                       /\ IF kk.status[p] = "IDLE" THEN r.status[p] = "READY" /\ r.nact = kk.nact
                          ELSE r.status[p] = kk.status[p] /\ r.nact = CBS_save(kk, p).nact
<1> DEFINE e == kk.events[1]
           p == e.pid
           m == [kk EXCEPT !.events = Tail(@)]
           r == CBS_timer_reactivate(m, p)
           T == Timers(kk, p)
           st == kk.status[p]
<1>1. /\ Wellformed(m) /\ Others(m, kk, p) /\ Same(m, kk, {"events"})
      /\ Addressed(e) /\ Timers(m, p) = [T EXCEPT !["reactivate"] = {}]
      /\ T["reactivate"] = {e.time} /\ e.time \in Int
  BY Firing DEF AllOK
<1>2. p \in Soft  BY <1>1 DEF Addressed
<1> HIDE DEF e, m
<1>3. /\ p \in Pids /\ p \in Ranked /\ p # Dummy /\ p \notin RrTasks /\ p \notin Edf
      /\ DOMAIN T = Handlers /\ kk.status \in [Pids -> Statuses]
      /\ period[p] \in Nat /\ period[p] > 0
  BY <1>2, CbsAssumption, PidSets, TimersAt, KernelFields DEF AllOK, Wellformed
<1>4. TaskOK(kk, x, t, p)  BY <1>3 DEF AllOK
<1>5. /\ p \in SoftPeriodic /\ st \notin {"FREE", "SLEEP", "ZOMBIE"}
      /\ T["zombie"] = {} /\ e.time = kk.release[p] /\ kk.release[p] >= t
      /\ T["delay"] # {} <=> st = "WAIT_NANOSLEEP"
  BY <1>1, <1>2, <1>3, <1>4 DEF TaskOK, CbsTimersOK, ReleaseOK, ReleaseTimers
<1>6. /\ m.status = kk.status /\ m.edf = kk.edf /\ m.release = kk.release
      /\ m.wcet = kk.wcet /\ m.asleep = kk.asleep /\ m.nact = kk.nact
  BY <1>1 DEF Same, Fields
<1>7. /\ Timers(m, p)["reactivate"] = {} /\ Timers(m, p)["zombie"] = {}
      /\ Timers(m, p)["delay"] = T["delay"]
      /\ Timers(m, p)["endperiod"] = {} /\ Timers(m, p)["offset"] = {}
  <2> HIDE DEF T
  <2> QED BY <1>1, <1>2, <1>3, <1>5, OwnTimers DEF Handlers, AllOK
<1>8. p \in Members(kk.edf) <=> (st = "READY" \/ (st = "EXE" /\ p # x))  BY <1>3, <1>4 DEF TaskOK, QueueOK
<1>9. CASE p \in m.asleep /\ st = "IDLE"
  <2>2. /\ Wellformed(r) /\ Others(r, m, p) /\ Same(r, m, {"status", "avail", "cbs_dline"})
        /\ r.status = [m.status EXCEPT ![p] = "SLEEP"]
    BY <1>1, <1>2, <1>6, <1>9, NewServerIs DEF CBS_timer_reactivate, NewServer
  <2> HIDE DEF r
  <2>3. /\ r.edf = kk.edf /\ r.events = m.events /\ r.wcet = kk.wcet
        /\ r.status[p] = "SLEEP"
    BY <1>1, <1>3, <1>6, <2>2 DEF Same, Fields
  <2>4. Timers(r, p) = Timers(m, p)  BY <2>3, TimersSame
  <2>5. TaskOK(r, x, t, p)
    <3>1. QueueOK(r, x, p)  BY <1>3, <1>4, <1>9, <2>3 DEF TaskOK, QueueOK
    <3>2. CbsTimersOK(r, p)  BY <1>7, <2>4 DEF CbsTimersOK
    <3>3. ReleaseOK(r, t, p)  BY <1>7, <2>4 DEF ReleaseOK, ReleaseTimers
    <3> QED BY <1>3, <1>5, <1>7, <1>9, <2>3, <2>4, <3>1, <3>2, <3>3 DEF TaskOK
  <2>6. Others(r, kk, p)  BY <1>1, <2>2, OthersTrans
  <2>7. AllOK(r, x, t)  BY <1>3, <2>2, <2>5, <2>6, AllButOne
  <2>8. Same(r, kk, {"events", "status", "avail", "cbs_dline"})  BY <1>1, <2>2 DEF Same
  <2>9. Heard(r, kk)  BY <2>8, HeardSame, Zenon
  <2>10. NextStays(r, m, t)  BY <2>3, NextSame
  <2>11. r.status[p] = "SLEEP" /\ r.nact = kk.nact /\ Quiet(r, kk)  BY <2>3, <2>8 DEF Same, Fields, Quiet
  <2> QED BY <1>2, <1>5, <1>6, <1>9, <2>6, <2>7, <2>9, <2>10, <2>11 DEF r, e, m
<1>10. CASE ~(p \in m.asleep /\ st = "IDLE")
  <2> DEFINE a == CBS_activation(m, p, kk.release[p])
             b == IF st = "IDLE" THEN [a EXCEPT !.resched = TRUE] ELSE CBS_save(m, p)
             u == kk.release[p] + period[p]
             c == [b EXCEPT !.release[p] = u]
             B == {"cbs_dline", "avail", "dline", "edf", "status", "resched", "nact"}
  <2>1. r = Post(c, "reactivate", p, u)  BY <1>6, <1>10 DEF CBS_timer_reactivate
  <2> HIDE DEF r
  <2>2. u \in Int /\ u > t /\ kk.release[p] \in Int  BY <1>1, <1>3, <1>5
  <2> HIDE DEF u
  <2>3. /\ Wellformed(b) /\ Others(b, m, p) /\ Same(b, m, B)
        /\ b.status[p] = IF st = "IDLE" THEN "READY" ELSE st
        /\ p \in Members(b.edf) <=> (p \in Members(kk.edf) \/ st = "IDLE")
        /\ b.resched = TRUE \/ Same(b, m, {"nact"})
        /\ b.nact = IF st = "IDLE" THEN kk.nact ELSE CBS_save(kk, p).nact
    <3>1. CASE st = "IDLE"
      <4>2. /\ Wellformed(a) /\ Others(a, m, p)
            /\ Same(a, m, {"cbs_dline", "avail", "dline", "edf", "status"})
            /\ ReadyInEdf(a, m, p)
        BY <1>1, <1>2, <1>6, <1>8, <2>2, <3>1, CBS_activationIs
      <4> HIDE DEF a
      <4>3. Wellformed(b) /\ Others(b, a, p) /\ Same(b, a, {"resched"}) /\ b.resched = TRUE
        BY <3>1, <4>2, ReschedIs
      <4> HIDE DEF b
      <4> QED BY <1>3, <1>6, <3>1, <4>2, <4>3, OthersTrans DEF ReadyInEdf, Same, Fields
    <3>2. CASE st # "IDLE"
      <4>1. /\ Wellformed(b) /\ Others(b, m, p) /\ Same(b, m, {"nact"})
            /\ b.nact = CBS_save(kk, p).nact
        <5>1. b = CBS_save(m, p)  BY <3>2
        <5> HIDE DEF b
        <5> HIDE DEF p
        <5>4. /\ Wellformed(b) /\ Others(b, m, p) /\ Same(b, m, {"nact"})
              /\ b.nact = IF p \in SaveArrivals THEN [m.nact EXCEPT ![p] = @ + 1] ELSE m.nact
          BY <1>1, <1>2, <5>1, CBS_saveIs
        <5> QED BY <1>2, <1>6, <5>4, CBS_saveIs DEF AllOK
      <4> HIDE DEF b
      <4> QED BY <1>6, <3>2, <4>1 DEF Same, Fields
    <3> QED BY <3>1, <3>2
  <2> HIDE DEF b
  <2>4. /\ Wellformed(c) /\ Others(c, b, p) /\ Same(c, b, {"release"})
        /\ c.release = [b.release EXCEPT ![p] = u]
    BY <1>3, <2>2, <2>3, ReleaseIs
  <2> HIDE DEF c
  <2>5. c.events = m.events  BY <2>3, <2>4 DEF Same, Fields
  <2>6. Timers(c, p) = Timers(m, p)  BY <2>5, TimersSame
  <2>8. /\ Wellformed(r) /\ Others(r, c, p) /\ Same(r, c, {"events"})
        /\ Timers(r, p) = [Timers(c, p) EXCEPT !["reactivate"] = {u}]
        /\ Earlier(c, u) => FirstStays(r, c)
    <3>2. p \in Pids /\ u \in Int /\ Wellformed(c)  BY <1>3, <2>2, <2>4
    <3> HIDE DEF p
    <3> QED BY <1>2, <1>7, <2>1, <2>6, <3>2, Posting DEF Handlers, Addressed, Event
  <2>9. /\ r.status = b.status /\ r.edf = b.edf /\ r.release = c.release /\ r.wcet = kk.wcet
        /\ b.release = kk.release /\ r.resched = b.resched
    BY <1>6, <2>3, <2>4, <2>8 DEF Same, Fields
  <2>10. r.release[p] = u  BY <1>3, <2>4, <2>9, KernelFields DEF AllOK, Wellformed
  <2>11. /\ Timers(r, p)["reactivate"] = {u} /\ Timers(r, p)["zombie"] = {}
         /\ Timers(r, p)["delay"] = T["delay"]
         /\ Timers(r, p)["endperiod"] = {} /\ Timers(r, p)["offset"] = {}
    BY <1>7, <2>6, <2>8, TimersAt DEF Handlers
  <2>12. TaskOK(r, x, t, p)
    <3>1. QueueOK(r, x, p)  BY <1>2, <1>3, <1>4, <1>5, <1>8, <2>3, <2>9 DEF QueueOK, TaskOK
    <3>3. ReleaseOK(r, t, p)  BY <2>2, <2>10, <2>11 DEF ReleaseOK, ReleaseTimers
    <3> QED BY <1>3, <1>5, <2>3, <2>9, <2>11, <3>1, <3>3 DEF TaskOK, CbsTimersOK
  <2>13. Others(r, kk, p)  BY <1>1, <2>3, <2>4, <2>8, OthersTrans
  <2>14. AllOK(r, x, t)  BY <1>3, <2>8, <2>12, <2>13, AllButOne
  <2>15. Heard(r, kk)
    <3>1. Same(r, kk, B \cup {"release", "events"})  BY <1>1, <2>3, <2>4, <2>8 DEF Same
    <3>2. CASE b.resched = TRUE  BY <2>9, <3>1, <3>2, HeardSame
    <3>3. CASE Same(b, m, {"nact"})
      <4>1. Same(r, kk, {"release", "events", "nact"})  BY <1>1, <2>4, <2>8, <3>3 DEF Same
      <4> QED BY <4>1, HeardSame
    <3> QED BY <2>3, <3>2, <3>3
  <2>16. ASSUME Earlier(m, t + 1) PROVE FirstStays(r, m)
    <3>1. m.events[1].time \in Int
      BY <1>1, <2>16, KernelFields, ListFields, EmptySeq, LenProperties DEF Earlier, Wellformed
    <3> QED BY <2>2, <2>5, <2>8, <2>16, <3>1 DEF Earlier, FirstStays
  <2>17. Quiet(r, kk) /\ r.nact = b.nact  BY <1>1, <2>3, <2>4, <2>8 DEF Same, Fields, Quiet
  <2> QED
    BY <1>2, <1>5, <1>6, <1>10, <2>3, <2>9, <2>10, <2>11, <2>13, <2>14, <2>15, <2>16, <2>17
       DEF r, e, m, u, NextStays
<1> QED BY <1>9, <1>10

------------------------------
(* The calls of the primitives *)

LEMMA CalmSame ==
  ASSUME NEW r, NEW kk, NEW C, Same(r, kk, C),
         C \cap {"exec_shadow", "nopreempt", "edf", "rr", "dline"} = {}
  PROVE  Calm(r, kk)
BY DEF Calm, Same, Fields

LEMMA createIs ==
  ASSUME NEW kk, NEW t, kk.exec_shadow \in Pids, AllOK(kk, kk.exec_shadow, t),
         NEW p \in Ranked \cup RrTasks, kk.status[p] = "FREE"
  PROVE  LET r == public_create(kk, p)
         IN  /\ AllOK(r, kk.exec_shadow, t) /\ Calm(r, kk)
             /\ Others(r, kk, p) /\ Still(r, kk, p)
<1> DEFINE x == kk.exec_shadow
           r == public_create(kk, p)
           T == Timers(kk, p)
           C == {"status", "U", "late", "nact", "dl_miss", "nopreempt", "wcet", "avail",
                 "capped", "cbs_dline", "asleep"}
<1>1. /\ p \in Pids /\ p # Dummy /\ Wellformed(kk) /\ kk \in Kernels
      /\ kk.status \in [Pids -> Statuses]
      /\ p \in Edf \/ p \in Soft \/ p \in RrTasks
  BY PidSets, KernelFields DEF AllOK, Wellformed
<1>2. TaskOK(kk, x, t, p)  BY <1>1 DEF AllOK
<1>3. p # x  BY <1>2 DEF TaskOK, QueueOK
<1>4. \/ r = kk
      \/ /\ Wellformed(r) /\ Others(r, kk, p) /\ Same(r, kk, C)
         /\ r.status[p] = "SLEEP" /\ r.nopreempt = kk.nopreempt \ {p}
         /\ p \in Edf => (WcetCheck => r.wcet[p] = cost[p])
         /\ p \in Edf => r.late = kk.late \ {p}
         /\ p \notin Edf => r.wcet[p] > 0
         /\ r.asleep = kk.asleep \/ r.asleep = kk.asleep \ {p}
  <2>1. CASE p \in Edf
    <3> DEFINE m == EDF_create(kk, p)
    <3>1. r = m  BY <2>1, PidSets DEF public_create
    <3>2. CASE MAX_BANDWIDTH - kk.U > Bandwidth(p, cost[p])
      <4>1. /\ Wellformed(m) /\ Others(m, kk, p)
            /\ Same(m, kk, {"status", "U", "late", "nact", "dl_miss", "nopreempt", "wcet",
                            "avail", "capped"})
        BY <1>1, <2>1, <3>2, EDF_createIs
      <4>2. /\ m.status[p] = "SLEEP"
            /\ WcetCheck => m.wcet[p] = cost[p]
            /\ m.late = kk.late \ {p} /\ m.nopreempt = kk.nopreempt \ {p}
        BY <1>1, <3>2, KernelFields DEF EDF_create, Status, Kernels
      <4> HIDE DEF m, r
      <4> QED BY <1>1, <2>1, <3>1, <4>1, <4>2 DEF Same, Fields
    <3>3. CASE ~(MAX_BANDWIDTH - kk.U > Bandwidth(p, cost[p]))  BY <3>1, <3>3 DEF EDF_create
    <3> QED BY <3>2, <3>3
  <2>2. CASE p \in Soft
    <3> DEFINE m == CBS_create(kk, p)
    <3>1. r = m  BY <2>2, PidSets DEF public_create
    <3>2. /\ Wellformed(m) /\ Others(m, kk, p)
          /\ Same(m, kk, {"status", "avail", "wcet", "capped", "nopreempt", "nact", "cbs_dline", "asleep"})
          /\ m.status[p] = "SLEEP" /\ m.wcet[p] = cost[p] /\ m.asleep = kk.asleep \ {p}
      BY <1>1, <2>2, CBS_createIs
    <3>3. m.nopreempt = kk.nopreempt \ {p}  BY <1>1 DEF CBS_create, Status, Kernels
    <3> HIDE DEF m, r
    <3> QED BY <2>2, <3>1, <3>2, <3>3, PidSets DEF Same
  <2>3. CASE p \in RrTasks
    <3> DEFINE m == RR_create(kk, p)
    <3>1. r = m  BY <2>3, PidSets DEF public_create
    <3>2. /\ Wellformed(m) /\ Others(m, kk, p)
          /\ Same(m, kk, {"status", "avail", "wcet", "capped", "nopreempt"})
          /\ m.status[p] = "SLEEP" /\ m.wcet[p] = slice[p]
      BY <1>1, <2>3, RR_createIs
    <3>3. m.nopreempt = kk.nopreempt \ {p}  BY <1>1 DEF RR_create, Status, Kernels
    <3> HIDE DEF m, r
    <3>4. Same(m, kk, C) /\ m.wcet[p] > 0 /\ p \notin Edf /\ m.asleep = kk.asleep
      BY <2>3, <3>2, RrAssumption, PidSets DEF Same, Fields
    <3> QED BY <3>1, <3>2, <3>3, <3>4
  <2> QED BY <1>1, <2>1, <2>2, <2>3
<1> HIDE DEF r
<1>5. CASE r = kk  BY <1>5, LikewiseSelf DEF Calm, Still, r
<1>6. CASE r # kk
  <2>1. /\ r.edf = kk.edf /\ r.rr = kk.rr /\ r.dline = kk.dline /\ r.exec_shadow = x
        /\ r.events = kk.events /\ r.release = kk.release
    BY <1>4, <1>6 DEF Same, Fields
  <2>2. Timers(r, p) = T  BY <2>1, TimersSame
  <2>3. TaskOK(r, x, t, p)
    <3>1. QueueOK(r, x, p)
      <4>1. p \in Soft \cup RrTasks => r.wcet[p] > 0  BY <1>4, <1>6, PidSets
      <4>2. p \in Edf /\ WcetCheck => r.wcet[p] = cost[p]  BY <1>4, <1>6
      <4>3. r.status[p] = "SLEEP" /\ kk.status[p] = "FREE"  BY <1>4, <1>6
      <4> QED BY <1>1, <1>2, <1>3, <2>1, <4>1, <4>2, <4>3 DEF TaskOK, QueueOK
    <3>2. ASSUME p \in Edf PROVE EdfTimersOK(r, p)
      BY <1>2, <1>4, <1>6, <2>2, <3>2 DEF TaskOK, EdfTimersOK, InJobs
    <3>3. ASSUME p \in Soft PROVE CbsTimersOK(r, p)
      BY <1>2, <1>4, <1>6, <2>2, <3>3 DEF TaskOK, CbsTimersOK
    <3>4. ASSUME p \in Ranked PROVE ReleaseOK(r, t, p)  BY <1>2, <2>1, <2>2, <3>4 DEF TaskOK, ReleaseOK
    <3> QED BY <1>2, <1>4, <1>6, <2>2, <3>1, <3>2, <3>3, <3>4 DEF TaskOK
  <2>4. AllOK(r, x, t)  BY <1>1, <1>4, <1>6, <2>3, AllButOne
  <2>5. Calm(r, kk)  BY <1>3, <1>4, <1>6, <2>1 DEF Calm
  <2> QED BY <1>4, <1>6, <2>4, <2>5 DEF r, Still, Same, Fields
<1> QED BY <1>5, <1>6

LEMMA EDF_activateIs ==
  ASSUME NEW kk, NEW x, AllOK(kk, x, now), now \in Int, NEW p \in Edf
  PROVE  LET r == EDF_activate(kk, p)
         IN  AllOK(r, x, now) /\ Same(r, kk, ReleaseFields) /\ Others(r, kk, p)
<1> DEFINE u == now + offset[p]
           d == u + rdeadline[p]
           s == Status(kk, p, "IDLE")
           a == [s EXCEPT !.release[p] = u]
           b == [a EXCEPT !.adeadline[p] = d]
           c == Post(Unpost(b, "offset", p), "offset", p, u)
           r == EDF_activate(kk, p)
           T == Timers(kk, p)
<1>1. CASE kk.status[p] # "SLEEP"  BY <1>1, LikewiseSelf DEF Same, EDF_activate
<1>2. CASE kk.status[p] = "SLEEP"
  <2>1. r = IF u > now THEN c ELSE EDF_release(b, p)  BY <1>2 DEF EDF_activate
  <2> HIDE DEF r
  <2>2. /\ p \in Pids /\ p \in Ranked /\ p # Dummy /\ p \notin RrTasks /\ p \notin Soft
        /\ u \in Int /\ d \in Int /\ u >= now /\ DOMAIN T = Handlers /\ Wellformed(kk)
        /\ kk.status \in [Pids -> Statuses] /\ kk.release \in [Ranked -> Int]
    BY PidSets, TimersAt, KernelFields DEF AllOK, Wellformed
  <2> HIDE DEF u, d
  <2>3. TaskOK(kk, x, now, p)  BY <2>2 DEF AllOK
  <2>4. /\ T["offset"] = {} /\ T["deadline"] = {} /\ T["endperiod"] = {} /\ T["delay"] = {}
        /\ p \notin kk.late /\ p \notin Members(kk.edf) /\ p # x /\ T["reactivate"] = {}
    BY <1>2, <2>2, <2>3, OwnTimers DEF TaskOK, QueueOK, EdfTimersOK, InJobs
  <2>5. /\ Wellformed(s) /\ Others(s, kk, p) /\ Same(s, kk, {"status"})
        /\ s.status = [kk.status EXCEPT ![p] = "IDLE"]
    BY <2>2, StatusIs, StatusNames
  <2> HIDE DEF s
  <2>6. /\ Wellformed(a) /\ Others(a, s, p) /\ Same(a, s, {"release"})
        /\ a.release = [s.release EXCEPT ![p] = u]
    BY <2>2, <2>5, ReleaseIs
  <2> HIDE DEF a
  <2>7. /\ Wellformed(b) /\ Others(b, a, p) /\ Same(b, a, {"adeadline"})  BY <2>2, <2>6, AdeadlineIs
  <2> HIDE DEF b
  <2>8. /\ b.status[p] = "IDLE" /\ b.release[p] = u /\ b.edf = kk.edf /\ b.late = kk.late
        /\ b.wcet = kk.wcet /\ b.events = kk.events
    BY <2>2, <2>5, <2>6, <2>7 DEF Same, Fields
  <2>9. Timers(b, p) = T  BY <2>8, TimersSame
  <2>10. Others(b, kk, p) /\ Same(b, kk, {"status", "release", "adeadline"})
    BY <2>5, <2>6, <2>7, OthersTrans DEF Same
  <2>11. QueueOK(b, x, p)  BY <1>2, <2>2, <2>3, <2>4, <2>8 DEF TaskOK, QueueOK
  <2>12. Wellformed(r) /\ Others(r, b, p) /\ Same(r, b, ReleaseFields) /\ TaskOK(r, x, now, p)
    <3>1. CASE u > now
      <4>3. /\ Wellformed(c) /\ Others(c, b, p) /\ Same(c, b, {"events"})
            /\ Timers(c, p) = [Timers(b, p) EXCEPT !["offset"] = {u}]
        BY <2>2, <2>7, Reposting DEF Handlers, Addressed, Event
      <4> HIDE DEF c
      <4>4. /\ Timers(c, p)["offset"] = {u} /\ Timers(c, p)["deadline"] = {}
            /\ Timers(c, p)["endperiod"] = {} /\ Timers(c, p)["delay"] = {}
            /\ Timers(c, p)["reactivate"] = {}
        BY <2>2, <2>4, <2>9, <4>3 DEF Handlers
      <4>5. /\ c.status[p] = "IDLE" /\ c.release[p] = u /\ c.edf = b.edf /\ c.late = b.late
            /\ c.wcet = b.wcet /\ c.status = b.status /\ c.rr = b.rr
        BY <2>8, <4>3 DEF Same, Fields
      <4>6. TaskOK(c, x, now, p)
        <5>2. EdfTimersOK(c, p)  BY <2>4, <2>8, <4>4, <4>5 DEF EdfTimersOK, InJobs
        <5> QED BY <2>2, <2>11, <4>4, <4>5, <5>2
                   DEF TaskOK, ReleaseOK, ReleaseTimers, QueueOK
      <4> QED BY <2>1, <3>1, <4>3, <4>6 DEF Same, ReleaseFields
    <3>2. CASE ~(u > now)
      <4>1. r = EDF_release(b, p)  BY <2>1, <3>2
      <4> QED BY <2>2, <2>4, <2>7, <2>8, <2>9, <2>11, <4>1, ReleaseTask, EDF_releaseIs
    <3> QED BY <3>1, <3>2
  <2> QED BY <2>2, <2>10, <2>12, OthersTrans, AllButOne DEF r, Same, ReleaseFields
<1> QED BY <1>1, <1>2

LEMMA CBS_activateIs ==
  ASSUME NEW kk, NEW x, AllOK(kk, x, now), now \in Int, NEW p \in Soft, kk.status[p] # "FREE"
  PROVE  LET r == CBS_activate(kk, p)
         IN  /\ AllOK(r, x, now) /\ Others(r, kk, p)
             /\ Same(r, kk, {"asleep", "nact", "cbs_dline", "avail", "dline", "edf", "status",
                             "release", "events"})
             /\ CASE kk.status[p] # "SLEEP" /\ p \in kk.asleep ->
                       Same(r, kk, {"asleep"}) /\ r.asleep = kk.asleep \ {p}
                  [] kk.status[p] # "SLEEP" /\ p \notin kk.asleep -> r = CBS_save(kk, p)
                  [] OTHER -> /\ r.status[p] = "READY" /\ r.nact = kk.nact
                              /\ r.asleep = kk.asleep \ {p}
                              /\ p \in SoftPeriodic =>
                                   /\ r.release[p] = now + period[p]
                                   /\ Timers(r, p)["reactivate"] # {}
             /\ r.asleep \cup {p} = kk.asleep \cup {p}
<1> DEFINE r == CBS_activate(kk, p)
           a == [kk EXCEPT !.asleep = @ \ {p}]
           b == CBS_activation(a, p, now)
           u == now + period[p]
           c == [b EXCEPT !.release[p] = u]
           d == Post(c, "reactivate", p, u)
           T == Timers(kk, p)
           C == {"asleep", "nact", "cbs_dline", "avail", "dline", "edf", "status", "release",
                 "events"}
<1>1. /\ p \in Pids /\ p \in Ranked /\ p # Dummy /\ p \notin RrTasks /\ p \notin Edf
      /\ u \in Int /\ u >= now /\ DOMAIN T = Handlers /\ Wellformed(kk)
      /\ kk.status \in [Pids -> Statuses] /\ kk.release \in [Ranked -> Int]
      /\ kk.asleep \in SUBSET Pids
  BY PidSets, TimersAt, KernelFields DEF AllOK, Wellformed
<1>2. TaskOK(kk, x, now, p)  BY <1>1 DEF AllOK
<1>3. r = CASE kk.status[p] # "SLEEP" /\ p \in kk.asleep -> a
            [] kk.status[p] # "SLEEP" /\ p \notin kk.asleep -> CBS_save(kk, p)
            [] OTHER -> IF p \in SoftPeriodic THEN d ELSE b
  BY DEF CBS_activate
<1>4. /\ Wellformed(a) /\ Likewise(a, kk) /\ Others(a, kk, p) /\ Same(a, kk, {"asleep"})
      /\ a.asleep = kk.asleep \ {p}
  BY <1>1, AsleepIs
<1> HIDE DEF r, a, u
<1>5. CASE kk.status[p] # "SLEEP" /\ p \in kk.asleep  BY <1>3, <1>4, <1>5, AllLikewise DEF r, Same
<1>6. CASE kk.status[p] # "SLEEP" /\ p \notin kk.asleep
  <2>1. r = CBS_save(kk, p)  BY <1>3, <1>6
  <2>2. Wellformed(r) /\ Others(r, kk, p) /\ Same(r, kk, {"nact"})  BY <1>1, <2>1, CBS_saveIs
  <2> QED BY <1>6, <2>1, <2>2, AllSame DEF r, Same, Fields, Aside
<1>7. CASE kk.status[p] = "SLEEP"
  <2>1. r = IF p \in SoftPeriodic THEN d ELSE b  BY <1>3, <1>7
  <2>2. /\ T["reactivate"] = {} /\ T["zombie"] = {} /\ T["delay"] = {} /\ p # x
        /\ p \notin Members(kk.edf) /\ T["endperiod"] = {} /\ T["offset"] = {}
    BY <1>1, <1>2, <1>7, OwnTimers DEF TaskOK, QueueOK, CbsTimersOK
  <2>3. a.edf = kk.edf /\ a.status = kk.status  BY <1>4 DEF Same, Fields
  <2>4. /\ Wellformed(b) /\ Others(b, a, p)
        /\ Same(b, a, {"cbs_dline", "avail", "dline", "edf", "status"})
        /\ ReadyInEdf(b, a, p)
    BY <1>4, <2>2, <2>3, CBS_activationIs
  <2> HIDE DEF b
  <2>6. /\ b.events = kk.events /\ b.wcet = kk.wcet /\ b.release = kk.release
        /\ b.status[p] = "READY" /\ p \in Members(b.edf)
    BY <1>1, <1>4, <2>3, <2>4 DEF Same, Fields, ReadyInEdf
  <2>7. Timers(b, p) = T  BY <2>6, TimersSame
  <2>8. /\ Wellformed(r) /\ Others(r, b, p) /\ Same(r, b, {"release", "events"})
        /\ Timers(r, p)["delay"] = {} /\ Timers(r, p)["zombie"] = {}
        /\ Timers(r, p)["endperiod"] = {} /\ Timers(r, p)["offset"] = {}
        /\ p \notin SoftPeriodic => Timers(r, p)["reactivate"] = {}
        /\ ReleaseOK(r, now, p)
        /\ p \in SoftPeriodic => r.release[p] = now + period[p] /\ Timers(r, p)["reactivate"] # {}
    <3>1. CASE p \in SoftPeriodic
      <4>2. /\ Wellformed(c) /\ Others(c, b, p) /\ Same(c, b, {"release"})
            /\ c.release = [b.release EXCEPT ![p] = u]
        BY <1>1, <2>4, ReleaseIs
      <4> HIDE DEF c
      <4>3. c.events = b.events /\ c.release[p] = u  BY <1>1, <2>6, <4>2 DEF Same, Fields
      <4>4. Timers(c, p) = T  BY <2>7, <4>3, TimersSame
      <4>7. /\ Wellformed(d) /\ Others(d, c, p) /\ Same(d, c, {"events"})
            /\ Timers(d, p) = [Timers(c, p) EXCEPT !["reactivate"] = {u}]
        BY <1>1, <2>2, <4>2, <4>4, Posting DEF Handlers, Addressed, Event
      <4> HIDE DEF d
      <4>8. /\ Timers(d, p)["delay"] = {} /\ Timers(d, p)["zombie"] = {}
            /\ Timers(d, p)["endperiod"] = {} /\ Timers(d, p)["offset"] = {}
            /\ Timers(d, p)["reactivate"] = {u}
        BY <1>1, <2>2, <4>4, <4>7 DEF Handlers
      <4>9. d.release[p] = u  BY <4>3, <4>7 DEF Same, Fields
      <4>10. ReleaseOK(d, now, p)  BY <1>1, <4>8, <4>9 DEF ReleaseOK, ReleaseTimers
      <4>11. Others(d, b, p) /\ Same(d, b, {"release", "events"})  BY <4>2, <4>7, OthersTrans DEF Same
      <4> QED BY <2>1, <3>1, <4>7, <4>8, <4>9, <4>10, <4>11 DEF u
    <3>2. CASE p \notin SoftPeriodic
      BY <2>1, <2>2, <2>4, <2>7, <3>2, LikewiseSelf DEF Same, ReleaseOK, ReleaseTimers
    <3> QED BY <3>1, <3>2
  <2>9. r.status[p] = "READY" /\ p \in Members(r.edf) /\ r.wcet = kk.wcet  BY <2>6, <2>8 DEF Same, Fields
  <2>10. TaskOK(r, x, now, p)  BY <1>1, <1>2, <1>7, <2>2, <2>8, <2>9 DEF TaskOK, QueueOK, CbsTimersOK
  <2>11. Others(r, kk, p)  BY <1>4, <2>4, <2>8, OthersTrans
  <2>12. AllOK(r, x, now)  BY <1>1, <2>8, <2>10, <2>11, AllButOne
  <2>13. Same(r, kk, C) /\ r.nact = kk.nact /\ r.asleep = a.asleep  BY <1>4, <2>4, <2>8 DEF Same, Fields
  <2> QED BY <1>4, <1>7, <2>8, <2>9, <2>11, <2>12, <2>13 DEF r
<1> QED BY <1>5, <1>6, <1>7

LEMMA RR_activateIs ==
  ASSUME NEW kk, NEW x, NEW t, AllOK(kk, x, t), NEW p \in RrTasks
  PROVE  LET r == RR_activate(kk, p)
         IN  AllOK(r, x, t) /\ Same(r, kk, {"rr", "status"}) /\ Others(r, kk, p)
<1> DEFINE r == RR_activate(kk, p)
<1>1. CASE kk.status[p] # "SLEEP"  BY <1>1, LikewiseSelf DEF Same, RR_activate
<1>2. CASE kk.status[p] = "SLEEP"
  <2>2. /\ p \in Pids /\ p # Dummy /\ p \notin Ranked /\ Wellformed(kk) /\ p \notin Edf
        /\ p \notin Soft /\ kk.status \in [Pids -> Statuses]
    BY PidSets, KernelFields DEF AllOK, Wellformed
  <2>3. TaskOK(kk, x, t, p)  BY <2>2 DEF AllOK
  <2>4. p \notin Members(kk.rr) /\ p # x  BY <1>2, <2>3 DEF TaskOK, QueueOK
  <2>5. /\ Wellformed(r) /\ Others(r, kk, p) /\ Same(r, kk, {"rr", "status"})
        /\ ReadyInRr(r, kk, p)
    BY <1>2, <2>2, <2>4, RR_unblockIs DEF RR_activate
  <2> HIDE DEF r
  <2>6. /\ r.events = kk.events /\ r.wcet = kk.wcet /\ r.status[p] = "READY"
        /\ p \in Members(r.rr)
    BY <2>2, <2>5 DEF Same, Fields, ReadyInRr
  <2>8. TaskOK(r, x, t, p)  BY <1>2, <2>2, <2>3, <2>4, <2>6, TimersSame DEF TaskOK, QueueOK
  <2> QED BY <2>2, <2>5, <2>8, AllButOne DEF r
<1> QED BY <1>1, <1>2

LEMMA activateIs ==
  ASSUME NEW kk, NEW x, AllOK(kk, x, now), now \in Int, NEW p \in Ranked \cup RrTasks,
         kk.status[p] # "FREE"
  PROVE  LET r == public_activate(kk, p)
         IN  /\ AllOK(r, x, now)
             /\ r.exec_shadow = kk.exec_shadow /\ r.nopreempt = kk.nopreempt
             /\ Others(r, kk, p) /\ Still(r, kk, p)
<1> DEFINE r == public_activate(kk, p)
<1>1. CASE p \in Edf
  <2> DEFINE m == EDF_activate(kk, p)
  <2>1. r = m  BY <1>1, PidSets DEF public_activate
  <2>2. AllOK(m, x, now) /\ Same(m, kk, ReleaseFields) /\ Others(m, kk, p)  BY <1>1, EDF_activateIs
  <2> HIDE DEF m, r
  <2> QED BY <2>1, <2>2 DEF r, Same, Fields, ReleaseFields, Still
<1>2. CASE p \in Soft
  <2> DEFINE m == CBS_activate(kk, p)
  <2>1. r = m  BY <1>2, PidSets DEF public_activate
  <2>2. /\ AllOK(m, x, now) /\ Others(m, kk, p) /\ m.asleep \cup {p} = kk.asleep \cup {p}
        /\ Same(m, kk, {"asleep", "nact", "cbs_dline", "avail", "dline", "edf", "status",
                        "release", "events"})
    BY <1>2, CBS_activateIs
  <2> HIDE DEF m, r
  <2> QED BY <2>1, <2>2 DEF r, Same, Fields, Still
<1>3. CASE p \in RrTasks
  <2> DEFINE m == RR_activate(kk, p)
  <2>1. r = m  BY <1>3, PidSets DEF public_activate
  <2>2. AllOK(m, x, now) /\ Same(m, kk, {"rr", "status"}) /\ Others(m, kk, p)  BY <1>3, RR_activateIs
  <2> HIDE DEF m, r
  <2> QED BY <2>1, <2>2 DEF r, Same, Fields, Still
<1> QED BY <1>1, <1>2, <1>3 DEF Ranked

LEMMA EDF_endcycleIs ==
  ASSUME NEW kk, NEW p \in Edf, NEW t, AllOK(kk, p, t)
  PROVE  LET r == EDF_endcycle(kk, p)
         IN  AllOK(r, NIL, t) /\ Others(r, kk, p) /\ Quiet(r, kk)
<1> DEFINE a == Unpost(kk, "deadline", p)
           n == kk.nact[p] - 1
           b == [kk EXCEPT !.nact[p] = n]
           r == EDF_endcycle(kk, p)
           T == Timers(kk, p)
<1>1. /\ p \in Pids /\ p \in Ranked /\ p # Dummy /\ p \notin RrTasks /\ p \notin Soft
      /\ p # NIL /\ DOMAIN T = Handlers /\ Wellformed(kk)
      /\ kk.status \in [Pids -> Statuses] /\ kk.nact[p] \in Nat /\ kk.late \subseteq Sporadic
  BY PidSets, TimersAt, KernelFields DEF AllOK, Wellformed
<1>2. TaskOK(kk, p, t, p)  BY <1>1 DEF AllOK
<1>3. kk.status[p] = "EXE" /\ p \notin Members(kk.edf)  BY <1>1, <1>2 DEF TaskOK, QueueOK
<1>4. /\ Wellformed(a) /\ Others(a, kk, p) /\ Same(a, kk, {"events"})
      /\ Timers(a, p) = [T EXCEPT !["deadline"] = {}]
  BY <1>1, Unposting DEF Handlers
<1>9. kk.nact[p] = 0 => r = IF p \in Sporadic THEN SporadicOver(a, p) ELSE Status(a, p, "IDLE")
  BY DEF EDF_endcycle
<1> HIDE DEF a
<1>5. a.late = kk.late /\ a.status = kk.status  BY <1>4 DEF Same, Fields
<1>6. /\ Timers(a, p)["deadline"] = {} /\ Timers(a, p)["delay"] = T["delay"]
      /\ Timers(a, p)["endperiod"] = T["endperiod"] /\ Timers(a, p)["offset"] = T["offset"]
      /\ Timers(a, p)["reactivate"] = T["reactivate"]
  <2> HIDE DEF T
  <2> QED BY <1>1, <1>4 DEF Handlers
<1>7. CASE kk.nact[p] > 0
  <2>1. r = EDF_assign(b, p)  BY <1>7 DEF EDF_endcycle
  <2>2. n \in Nat  BY <1>1, <1>7
  <2> HIDE DEF n, r
  <2>3. /\ Wellformed(b) /\ Others(b, kk, p) /\ Same(b, kk, {"nact"})  BY <1>1, <2>2, NactIs
  <2> HIDE DEF b
  <2>4. b.edf = kk.edf  BY <2>3 DEF Same, Fields
  <2>5. /\ Wellformed(r) /\ Others(r, b, p) /\ Same(r, b, {"dline", "adeadline", "edf"})
        /\ Members(r.edf) = Members(b.edf) \cup {p}
    BY <1>3, <2>1, <2>3, <2>4, EDF_assignIs
  <2>6. /\ r.status = kk.status /\ r.events = kk.events /\ r.late = kk.late
        /\ r.release = kk.release /\ r.wcet = kk.wcet
    BY <2>3, <2>5 DEF Same, Fields
  <2>8. TaskOK(r, NIL, t, p)
    <3>1. QueueOK(r, NIL, p)  BY <1>1, <1>2, <1>3, <2>5, <2>6 DEF TaskOK, QueueOK
    <3> QED BY <1>1, <1>2, <2>6, <3>1, TimersSame DEF TaskOK, ReleaseOK, EdfTimersOK
  <2>11. Quiet(r, kk)  BY <2>3, <2>5 DEF Same, Fields, Quiet
  <2> QED BY <1>1, <2>3, <2>5, <2>8, <2>11, OthersTrans, PidSets, AllButOne DEF r
<1>8. CASE kk.nact[p] = 0
  <2> DEFINE v == IF p \notin Sporadic THEN "IDLE" ELSE IF p \in kk.late THEN "SLEEP" ELSE "WAIT"
  <2>1. /\ Wellformed(r) /\ Others(r, a, p) /\ Same(r, a, {"status", "late"})
        /\ r.status = [kk.status EXCEPT ![p] = v] /\ r.late = kk.late \ {p}
    <3>1. CASE p \in Sporadic  BY <1>4, <1>5, <1>8, <1>9, <3>1, SporadicOverIs
    <3>2. CASE p \notin Sporadic
      <4>2. /\ Wellformed(r) /\ Others(r, a, p) /\ Same(r, a, {"status"})
            /\ r.status = [a.status EXCEPT ![p] = "IDLE"]
        BY <1>1, <1>4, <1>8, <1>9, <3>2, StatusIs, StatusNames
      <4> HIDE DEF r
      <4> QED BY <1>1, <1>5, <3>2, <4>2 DEF Same, Fields
    <3> QED BY <3>1, <3>2
  <2> HIDE DEF r
  <2>2. /\ r.events = a.events /\ r.release = kk.release /\ r.wcet = kk.wcet
        /\ r.edf = kk.edf /\ r.status[p] = v /\ p \notin r.late
    BY <1>1, <1>4, <2>1 DEF Same, Fields
  <2>3. Timers(r, p) = Timers(a, p)  BY <2>2, TimersSame
  <2>4. TaskOK(r, NIL, t, p)
    <3>2. EdfTimersOK(r, p)
      <4>1. T["endperiod"] # {} \/ p \in kk.late  BY <1>1, <1>2, <1>3 DEF TaskOK, EdfTimersOK, InJobs
      <4>2. T["offset"] = {} /\ (p \in kk.late => T["endperiod"] = {})
        BY <1>1, <1>2, <1>3 DEF TaskOK, EdfTimersOK, InJobs
      <4> QED BY <1>1, <1>6, <2>2, <2>3, <4>1, <4>2 DEF EdfTimersOK, InJobs
    <3>3. ReleaseOK(r, t, p)  BY <1>1, <1>2, <1>6, <2>2, <2>3 DEF TaskOK, ReleaseOK, ReleaseTimers
    <3>4. Timers(r, p)["delay"] # {} <=> r.status[p] = "WAIT_NANOSLEEP"
      BY <1>2, <1>3, <1>6, <2>2, <2>3 DEF TaskOK
    <3> QED BY <1>1, <1>2, <1>3, <2>2, <3>2, <3>3, <3>4 DEF TaskOK, QueueOK
  <2>7. Quiet(r, kk)  BY <1>4, <2>1 DEF Same, Fields, Quiet
  <2> QED BY <1>1, <1>4, <2>1, <2>4, <2>7, OthersTrans, PidSets, AllButOne DEF r
<1> QED BY <1>1, <1>7, <1>8

LEMMA CBS_endcycleIs ==
  ASSUME NEW kk, NEW p \in Soft, NEW t, AllOK(kk, p, t)
  PROVE  LET r == CBS_endcycle(kk, p)
         IN  /\ AllOK(r, NIL, t) /\ Others(r, kk, p) /\ Quiet(r, kk)
             /\ kk.status[p] = "EXE" /\ r.release = kk.release /\ Timers(r, p) = Timers(kk, p)
             /\ IF kk.nact[p] > 0 THEN r.status[p] = "READY" /\ r.nact[p] = kk.nact[p] - 1
                ELSE /\ r.status[p] = IF p \in SoftPeriodic THEN "IDLE" ELSE "SLEEP"
                     /\ r.nact = kk.nact
<1> DEFINE a == CBS_avail_time_check(kk, p)
           n == a.nact[p] - 1
           b == [a EXCEPT !.nact[p] = n]
           v == IF p \in SoftPeriodic THEN "IDLE" ELSE "SLEEP"
           r == CBS_endcycle(kk, p)
           T == Timers(kk, p)
<1>1. /\ p \in Pids /\ p \in Ranked /\ p # Dummy /\ p \notin RrTasks /\ p \notin Edf
      /\ p # NIL /\ Wellformed(kk) /\ kk.status \in [Pids -> Statuses]
  BY PidSets, KernelFields DEF AllOK, Wellformed
<1>2. TaskOK(kk, p, t, p)  BY <1>1 DEF AllOK
<1>3. kk.status[p] = "EXE" /\ p \notin Members(kk.edf) /\ kk.wcet[p] > 0
  BY <1>1, <1>2 DEF TaskOK, QueueOK
<1>4. /\ Wellformed(a) /\ Others(a, kk, p) /\ Same(a, kk, {"cbs_dline", "avail"})
  BY <1>1, <1>3, CBS_avail_time_checkIs
<1>5. EDF_private_extract(a, p) = a
  <2> HIDE DEF a
  <2> QED BY <1>3, <1>4, ExtractWaiting DEF Same, Fields
<1>6. r = IF a.nact[p] > 0 THEN EDF_private_epilogue(b, p) ELSE Status(a, p, v)  BY <1>5 DEF CBS_endcycle
<1> HIDE DEF a, r
<1>7. a.nact[p] \in Nat /\ a.edf = kk.edf /\ a.nact = kk.nact /\ kk.nact \in [Ranked -> Nat]
  BY <1>1, <1>4, KernelFields DEF Wellformed, Same, Fields
<1>8. /\ Wellformed(r) /\ Others(r, kk, p)
      /\ Same(r, kk, {"cbs_dline", "avail", "nact", "edf", "status"})
      /\ IF kk.nact[p] > 0
           THEN r.status[p] = "READY" /\ p \in Members(r.edf) /\ r.nact[p] = kk.nact[p] - 1
           ELSE r.status[p] = v /\ p \notin Members(r.edf) /\ r.nact = kk.nact
  <2>1. CASE a.nact[p] > 0
    <3>2. n \in Nat  BY <1>7, <2>1
    <3> HIDE DEF n
    <3>3. /\ Wellformed(b) /\ Others(b, a, p) /\ Same(b, a, {"nact"})
          /\ b.nact = [a.nact EXCEPT ![p] = n]
      BY <1>1, <1>4, <3>2, NactIs
    <3> HIDE DEF b
    <3>4. b.edf = kk.edf /\ b.status = kk.status  BY <1>4, <3>3 DEF Same, Fields
    <3>5. /\ Wellformed(r) /\ Others(r, b, p) /\ Same(r, b, {"edf", "status"})
          /\ ReadyInEdf(r, b, p)
      BY <1>1, <1>3, <1>6, <2>1, <3>3, <3>4, EDF_unblockIs
         DEF EDF_private_epilogue, EDF_unblock
    <3>7. Others(r, kk, p) /\ Same(r, kk, {"cbs_dline", "avail", "nact", "edf", "status"})
          /\ r.nact = b.nact
      BY <1>4, <3>3, <3>5, OthersTrans DEF Same, Fields
    <3> QED BY <1>1, <1>7, <2>1, <3>3, <3>4, <3>5, <3>7 DEF ReadyInEdf, n
  <2>2. CASE ~(a.nact[p] > 0)
    <3>2. v \in Statuses  BY StatusNames
    <3> HIDE DEF v
    <3>3. /\ Wellformed(r) /\ Others(r, a, p) /\ Same(r, a, {"status"})
          /\ r.status = [a.status EXCEPT ![p] = v]
      BY <1>1, <1>4, <1>6, <2>2, <3>2, StatusIs
    <3> QED BY <1>1, <1>3, <1>4, <1>7, <2>2, <3>3, OthersTrans DEF Same, Fields
  <2> QED BY <2>1, <2>2
<1>9. r.events = kk.events /\ r.wcet = kk.wcet /\ r.release = kk.release  BY <1>8 DEF Same, Fields
<1>10. Timers(r, p) = T  BY <1>9, TimersSame
<1>11. TaskOK(r, NIL, t, p)
  <2>1. QueueOK(r, NIL, p)  BY <1>1, <1>3, <1>8, <1>9 DEF QueueOK
  <2>3. ReleaseOK(r, t, p)  BY <1>1, <1>2, <1>9, <1>10 DEF TaskOK, ReleaseOK
  <2> QED BY <1>1, <1>2, <1>3, <1>8, <1>10, <2>1, <2>3 DEF TaskOK, CbsTimersOK
<1>12. AllOK(r, NIL, t)  BY <1>1, <1>8, <1>11, PidSets, AllButOne
<1> QED BY <1>3, <1>8, <1>9, <1>10, <1>12, QuietSame DEF r

\* The running task of the RR level leaves it for the time.
LEMMA RrLeaves ==
  ASSUME NEW kk, NEW p \in RrTasks, NEW t, AllOK(kk, p, t), NEW st \in {"SLEEP", "FREE"}
  PROVE  LET r == Status(kk, p, st)
         IN  AllOK(r, NIL, t) /\ Others(r, kk, p) /\ Quiet(r, kk)
<1> DEFINE r == Status(kk, p, st)
<1>1. /\ p \in Pids /\ p # Dummy /\ p \notin Ranked /\ Wellformed(kk) /\ p \notin Edf
      /\ p \notin Soft /\ kk.status \in [Pids -> Statuses] /\ p # NIL /\ st \in Statuses
  BY PidSets, KernelFields, StatusNames DEF AllOK, Wellformed
<1>2. TaskOK(kk, p, t, p)  BY <1>1 DEF AllOK
<1>4. /\ Wellformed(r) /\ Others(r, kk, p) /\ Same(r, kk, {"status"})
      /\ r.status = [kk.status EXCEPT ![p] = st]
  BY <1>1, StatusIs
<1> HIDE DEF r
<1>8. TaskOK(r, NIL, t, p)  BY <1>1, <1>2, <1>4, TimersSame
                               DEF TaskOK, QueueOK, Same, Fields
<1> QED BY <1>1, <1>4, <1>8, PidSets, AllButOne, QuietSame DEF r

\* The running task ends its job.
LEMMA endcycleIs ==
  ASSUME NEW kk, NEW p \in Pids \ {Dummy}, NEW t, AllOK(kk, p, t)
  PROVE  LET r == public_message(kk, p, "endcycle")
         IN  AllOK(r, NIL, t) /\ Others(r, kk, p) /\ Quiet(r, kk)
<1> DEFINE r == public_message(kk, p, "endcycle")
<1>1. CASE p \in Edf
  <2> DEFINE m == EDF_endcycle(kk, p)
  <2>1. r = Recharge(m, p)  BY <1>1, PidSets DEF public_message, EDF_message
  <2> HIDE DEF r
  <2>2. AllOK(m, NIL, t) /\ Others(m, kk, p) /\ Quiet(m, kk)  BY <1>1, EDF_endcycleIs
  <2> HIDE DEF m
  <2> QED BY <2>1, <2>2, RechargeIs, QuietSame, AllLikewise, OthersTrans DEF r, Quiet, AllOK
<1>2. CASE p \in Soft
  <2> HIDE DEF r
  <2> QED BY <1>2, PidSets, CBS_endcycleIs DEF r, public_message, CBS_message
<1>3. CASE p \in RrTasks
  <2> HIDE DEF r
  <2> QED BY <1>3, PidSets, RrLeaves DEF r, public_message, RR_message
<1> QED BY <1>1, <1>2, <1>3 DEF Pids, Ranked

\* A periodic task between two jobs is disabled.
LEMMA EDF_disableIs ==
  ASSUME NEW kk, NEW x, NEW t, AllOK(kk, x, t), NEW p \in Periodic, kk.status[p] = "IDLE",
         ~Posted(kk, "offset", p)
  PROVE  LET r == EDF_disable(kk, p)
         IN  AllOK(r, x, t) /\ Same(r, kk, {"events", "nact", "status"}) /\ Others(r, kk, p)
<1> DEFINE a == Unpost(kk, "deadline", p)
           b == [a EXCEPT !.nact[p] = 0]
           c == Unpost(b, "endperiod", p)
           r == EDF_disable(kk, p)
           T == Timers(kk, p)
<1>1. /\ p \in Pids /\ p \in Ranked /\ p # Dummy /\ p \notin RrTasks /\ p \notin Soft
      /\ p \in Edf /\ p \notin Sporadic /\ DOMAIN T = Handlers /\ Wellformed(kk)
      /\ kk.status \in [Pids -> Statuses] /\ kk.nact[p] \in Nat /\ kk.late \subseteq Sporadic
  BY PidSets, PidAssumption, TimersAt, KernelFields DEF AllOK, Wellformed, Edf
<1>2. TaskOK(kk, x, t, p)  BY <1>1 DEF AllOK
<1>3. /\ p # x /\ p \notin Members(kk.edf) /\ T["offset"] = {} /\ T["endperiod"] # {}
      /\ T["deadline"] = {} /\ T["delay"] = {} /\ p \notin kk.late /\ T["reactivate"] = {}
  <2>1. T["offset"] = {}  BY PostedIs DEF Handlers
  <2> QED BY <1>1, <1>2, <2>1, OwnTimers DEF TaskOK, QueueOK, EdfTimersOK, InJobs
<1>4. r = IF kk.nact[p] = 0 THEN Status(a, p, "WAIT") ELSE Status(c, p, "SLEEP")  BY <1>1 DEF EDF_disable
<1> HIDE DEF r
<1>5. /\ Wellformed(a) /\ Others(a, kk, p) /\ Same(a, kk, {"events"})
      /\ Timers(a, p) = [T EXCEPT !["deadline"] = {}]
  BY <1>1, Unposting DEF Handlers
<1> HIDE DEF a
<1>6. /\ Timers(a, p)["deadline"] = {} /\ Timers(a, p)["delay"] = {}
      /\ Timers(a, p)["endperiod"] = T["endperiod"] /\ Timers(a, p)["offset"] = {}
      /\ Timers(a, p)["reactivate"] = {}
  <2> HIDE DEF T
  <2> QED BY <1>1, <1>3, <1>5 DEF Handlers
<1>7. /\ Wellformed(b) /\ Others(b, a, p) /\ Same(b, a, {"nact"})  BY <1>1, <1>5, NactIs
<1> HIDE DEF b
<1>8. /\ Wellformed(c) /\ Others(c, b, p) /\ Same(c, b, {"events"})
      /\ Timers(c, p) = [Timers(b, p) EXCEPT !["endperiod"] = {}]
  <2>1. "endperiod" \in Handlers  BY DEF Handlers
  <2> QED BY <1>1, <1>7, <2>1, Unposting
<1> HIDE DEF c
<1>9. /\ Wellformed(r) /\ Others(r, kk, p) /\ Same(r, kk, {"events", "nact", "status"})
      /\ \/ r.status[p] = "WAIT" /\ Timers(r, p) = Timers(a, p)
         \/ r.status[p] = "SLEEP" /\ Timers(r, p) = [Timers(a, p) EXCEPT !["endperiod"] = {}]
  <2>1. CASE kk.nact[p] = 0
    <3>1. /\ Wellformed(r) /\ Others(r, a, p) /\ Same(r, a, {"status"})
          /\ r.status = [a.status EXCEPT ![p] = "WAIT"]
      BY <1>1, <1>4, <1>5, <2>1, StatusIs, StatusNames
    <3> QED BY <1>1, <1>5, <3>1, TimersSame, OthersTrans DEF Same, Fields
  <2>2. CASE kk.nact[p] # 0
    <3>1. /\ Wellformed(r) /\ Others(r, c, p) /\ Same(r, c, {"status"})
          /\ r.status = [c.status EXCEPT ![p] = "SLEEP"]
      BY <1>1, <1>4, <1>8, <2>2, StatusIs, StatusNames
    <3>4. Others(c, kk, p)  BY <1>5, <1>7, <1>8, OthersTrans
    <3>5. Others(r, kk, p) /\ Same(r, kk, {"events", "nact", "status"})
      BY <1>5, <1>7, <1>8, <3>1, <3>4, OthersTrans DEF Same
    <3> QED BY <1>1, <1>5, <1>7, <1>8, <3>1, <3>5, TimersSame DEF Same, Fields
  <2> QED BY <2>1, <2>2
<1>10. /\ Timers(r, p)["deadline"] = {} /\ Timers(r, p)["delay"] = {}
       /\ Timers(r, p)["endperiod"] = IF r.status[p] = "WAIT" THEN T["endperiod"] ELSE {}
       /\ Timers(r, p)["offset"] = {} /\ Timers(r, p)["reactivate"] = {}
  <2> HIDE DEF T
  <2> QED BY <1>6, <1>9, TimersAt DEF Handlers
<1>11. /\ r.wcet = kk.wcet /\ r.edf = kk.edf /\ r.late = kk.late /\ r.release = kk.release
  BY <1>9 DEF Same, Fields
<1>12. TaskOK(r, x, t, p)
  <2>1. QueueOK(r, x, p)  BY <1>1, <1>2, <1>3, <1>9, <1>11 DEF TaskOK, QueueOK
  <2>2. EdfTimersOK(r, p)  BY <1>3, <1>9, <1>10, <1>11 DEF EdfTimersOK, InJobs
  <2>3. ReleaseOK(r, t, p)  BY <1>1, <1>2, <1>10, <1>11 DEF TaskOK, ReleaseOK, ReleaseTimers
  <2> QED BY <1>1, <1>9, <1>10, <2>1, <2>2, <2>3 DEF TaskOK
<1> QED BY <1>1, <1>9, <1>12, AllButOne DEF r

LEMMA disableIs ==
  ASSUME NEW kk, NEW x, NEW t, AllOK(kk, x, t), NEW p \in Periodic \cup SoftPeriodic,
         kk.status[p] = "IDLE", ~Posted(kk, "offset", p)
  PROVE  LET r == public_message(kk, p, "disable")
         IN  AllOK(r, x, t) /\ Calm(r, kk) /\ Others(r, kk, p) /\ Still(r, kk, p)
<1> DEFINE r == public_message(kk, p, "disable")
<1>1. CASE p \in Periodic
  <2> DEFINE m == EDF_disable(kk, p)
  <2>1. p \in Edf /\ p \in Pids  BY <1>1, PidSets DEF Edf
  <2>2. r = Recharge(m, p)  BY <2>1, PidSets DEF public_message, EDF_message
  <2>3. AllOK(m, x, t) /\ Same(m, kk, {"events", "nact", "status"}) /\ Others(m, kk, p)
    BY <1>1, EDF_disableIs
  <2> HIDE DEF m, r
  <2>4. /\ Wellformed(r) /\ Likewise(r, m) /\ Same(r, m, {"avail", "capped"})
        /\ Others(r, m, p)
    BY <2>1, <2>2, <2>3, RechargeIs DEF AllOK
  <2>5. Same(r, kk, {"events", "nact", "status", "avail", "capped"}) /\ Still(r, kk, p)
    BY <2>3, <2>4 DEF Same, Fields, Still
  <2> QED BY <2>3, <2>4, <2>5, AllLikewise, CalmSame, OthersTrans DEF r
<1>2. CASE p \in SoftPeriodic
  <2> DEFINE P == kk.asleep \cup {p}
  <2>1. p \in Soft  BY <1>2, CbsAssumption
  <2>2. r = [kk EXCEPT !.asleep = P]  BY <2>1, PidSets DEF public_message, CBS_message
  <2>3. P \in SUBSET Pids  BY <2>1, PidSets, KernelFields DEF AllOK, Wellformed
  <2> HIDE DEF P, r
  <2>4. /\ Wellformed(r) /\ Likewise(r, kk) /\ Same(r, kk, {"asleep"}) /\ Others(r, kk, p)
        /\ r.asleep = P
    BY <2>2, <2>3, AsleepIs DEF AllOK
  <2>5. Still(r, kk, p)  BY <2>4 DEF Still, Same, Fields, P
  <2> QED BY <2>4, <2>5, AllLikewise, CalmSame DEF r
<1> QED BY <1>1, <1>2

\* The running task sleeps for a time.
LEMMA sleepIs ==
  ASSUME NEW kk, NEW p \in Pids \ {Dummy}, NEW t, AllOK(kk, p, t), NEW u \in Int
  PROVE  LET r == Post(Status(public_block(kk, p), p, "WAIT_NANOSLEEP"), "delay", p, u)
         IN  AllOK(r, NIL, t) /\ Sleeps(r, kk, p)
<1> DEFINE a == public_block(kk, p)
           b == Status(a, p, "WAIT_NANOSLEEP")
           r == Post(b, "delay", p, u)
           T == Timers(kk, p)
<1>1. /\ p # NIL /\ DOMAIN T = Handlers /\ Wellformed(kk) /\ kk.status \in [Pids -> Statuses]
  BY PidSets, TimersAt, KernelFields DEF AllOK, Wellformed
<1>2. TaskOK(kk, p, t, p)  BY DEF AllOK
<1>3. /\ kk.status[p] = "EXE" /\ T["delay"] = {}
      /\ (p \in Ranked => p \notin Members(kk.edf)) /\ (p \in RrTasks => p \notin Members(kk.rr))
      /\ p \in Soft => kk.wcet[p] > 0
  BY <1>2 DEF TaskOK, QueueOK
<1>4. /\ Wellformed(a) /\ Others(a, kk, p) /\ Same(a, kk, {"cbs_dline", "avail"})
      /\ p \in RrTasks => a.avail = kk.avail
  <2>1. CASE p \in Soft
    <3> DEFINE m == CBS_avail_time_check(kk, p)
    <3>1. /\ Wellformed(m) /\ Others(m, kk, p) /\ Same(m, kk, {"cbs_dline", "avail"})
      BY <1>1, <1>3, <2>1, CBS_avail_time_checkIs
    <3>2. a = EDF_private_extract(m, p)  BY <2>1 DEF public_block, CBS_block
    <3> HIDE DEF m, a
    <3> QED BY <1>3, <2>1, <3>1, <3>2, PidSets, ExtractWaiting DEF Same, Fields
  <2>2. CASE p \notin Soft  BY <1>1, <2>2, LikewiseSelf DEF Same, public_block
  <2> QED BY <2>1, <2>2
<1> HIDE DEF a
<1>5. /\ Wellformed(b) /\ Others(b, a, p) /\ Same(b, a, {"status"})
      /\ b.status = [a.status EXCEPT ![p] = "WAIT_NANOSLEEP"]
  BY <1>4, StatusIs, StatusNames
<1> HIDE DEF b
<1>6. b.events = kk.events /\ a.status = kk.status  BY <1>4, <1>5 DEF Same, Fields
<1>7. Timers(b, p) = T  BY <1>6, TimersSame
<1>8. /\ Wellformed(r) /\ Others(r, b, p) /\ Same(r, b, {"events"})
      /\ Timers(r, p) = [T EXCEPT !["delay"] = {u}]
  <2> HIDE DEF T
  <2> QED BY <1>3, <1>5, <1>7, Posting DEF Handlers, Addressed, Event
<1> HIDE DEF r
<1>9. /\ r.status[p] = "WAIT_NANOSLEEP" /\ r.edf = kk.edf /\ r.rr = kk.rr /\ r.avail = a.avail
      /\ r.wcet = kk.wcet /\ r.late = kk.late /\ r.release = kk.release
  BY <1>1, <1>4, <1>5, <1>6, <1>8 DEF Same, Fields
<1>10. /\ Timers(r, p)["delay"] = {u}
       /\ \A h \in Handlers \ {"delay"} : Timers(r, p)[h] = T[h]
  <2> HIDE DEF T
  <2> QED BY <1>1, <1>8 DEF Handlers
<1>11. TaskOK(r, NIL, t, p)
  <2>1. QueueOK(r, NIL, p)  BY <1>1, <1>2, <1>3, <1>9 DEF TaskOK, QueueOK
  <2>2. ASSUME p \in Edf PROVE EdfTimersOK(r, p)
    BY <1>2, <1>3, <1>9, <1>10, <2>2 DEF TaskOK, EdfTimersOK, InJobs, Handlers
  <2>3. ASSUME p \in Soft PROVE CbsTimersOK(r, p)
    BY <1>2, <1>3, <1>9, <1>10, <2>3 DEF TaskOK, CbsTimersOK, Handlers
  <2>4. ASSUME p \in Ranked PROVE ReleaseOK(r, t, p)
    BY <1>2, <1>9, <1>10, <2>4 DEF TaskOK, ReleaseOK, ReleaseTimers, Handlers
  <2> QED BY <1>9, <1>10, <2>1, <2>2, <2>3, <2>4 DEF TaskOK
<1>12. Others(r, kk, p)  BY <1>4, <1>5, <1>8, OthersTrans
<1>13. AllOK(r, NIL, t)  BY <1>1, <1>8, <1>11, <1>12, PidSets, AllButOne
<1>14. Same(r, kk, {"cbs_dline", "avail", "status", "events"})  BY <1>4, <1>5, <1>8 DEF Same
<1> HIDE DEF T
<1> QED BY <1>3, <1>4, <1>9, <1>10, <1>12, <1>13, <1>14 DEF r, b, a, T, Sleeps

\* The running task of the EDF level ends.
LEMMA EDF_endIs ==
  ASSUME NEW kk, NEW p \in Edf, NEW t, AllOK(kk, p, t)
  PROVE  LET r == EDF_end(kk, p)
         IN  AllOK(r, NIL, t) /\ Others(r, kk, p) /\ Quiet(r, kk)
<1> DEFINE a == Unpost(kk, "deadline", p)
           r == EDF_end(kk, p)
           T == Timers(kk, p)
<1>1. /\ p \in Pids /\ p \in Ranked /\ p # Dummy /\ p \notin RrTasks /\ p \notin Soft
      /\ p # NIL /\ DOMAIN T = Handlers /\ Wellformed(kk) /\ kk.status \in [Pids -> Statuses]
  BY PidSets, TimersAt, KernelFields DEF AllOK, Wellformed
<1>2. TaskOK(kk, p, t, p)  BY <1>1 DEF AllOK
<1>3. /\ kk.status[p] = "EXE" /\ p \notin Members(kk.edf)
      /\ EdfTimersOK(kk, p) /\ T["delay"] = {}
      /\ WcetCheck => kk.wcet[p] = cost[p]
  BY <1>1, <1>2 DEF TaskOK, QueueOK
<1>4. CASE p \in kk.late
  <2>1. r = EDF_free(kk, p)  BY <1>4 DEF EDF_end
  <2> HIDE DEF r
  <2>2. /\ Wellformed(r) /\ Others(r, kk, p) /\ Same(r, kk, {"status", "U"})
        /\ r.status = [kk.status EXCEPT ![p] = "FREE"]
    BY <1>1, <2>1, EDF_freeIs
  <2>3. /\ r.status[p] = "FREE" /\ r.edf = kk.edf /\ r.late = kk.late
        /\ r.release = kk.release /\ r.events = kk.events
    BY <1>1, <2>2 DEF Same, Fields
  <2>4. Timers(r, p) = T  BY <2>3, TimersSame
  <2>5. TaskOK(r, NIL, t, p)
    <3>2. EdfTimersOK(r, p)  BY <1>3, <1>4, <2>3, <2>4 DEF EdfTimersOK, InJobs
    <3> QED BY <1>1, <1>2, <1>3, <2>3, <2>4, <3>2 DEF TaskOK, ReleaseOK, QueueOK
  <2> QED BY <1>1, <2>2, <2>5, PidSets, AllButOne, QuietSame DEF r
<1>5. CASE p \notin kk.late
  <2>1. r = Status(a, p, "ZOMBIE")  BY <1>5 DEF EDF_end
  <2> HIDE DEF r
  <2>2. /\ Wellformed(a) /\ Others(a, kk, p) /\ Same(a, kk, {"events"})
        /\ Timers(a, p) = [T EXCEPT !["deadline"] = {}]
    BY <1>1, Unposting DEF Handlers
  <2> HIDE DEF a
  <2>3. /\ Wellformed(r) /\ Others(r, a, p) /\ Same(r, a, {"status"})
        /\ r.status = [a.status EXCEPT ![p] = "ZOMBIE"]
    BY <1>1, <2>1, <2>2, StatusIs, StatusNames
  <2>4. /\ r.status[p] = "ZOMBIE" /\ r.edf = kk.edf /\ r.late = kk.late /\ r.wcet = kk.wcet
        /\ r.release = kk.release /\ r.events = a.events
    BY <1>1, <2>2, <2>3 DEF Same, Fields
  <2>5. /\ Timers(r, p)["deadline"] = {}
        /\ \A h \in Handlers \ {"deadline"} : Timers(r, p)[h] = T[h]
    <3> HIDE DEF T
    <3> QED BY <1>1, <2>2, <2>4, TimersSame DEF Handlers
  <2>6. TaskOK(r, NIL, t, p)
    <3>2. EdfTimersOK(r, p)  BY <1>3, <1>5, <2>4, <2>5 DEF EdfTimersOK, InJobs, Handlers
    <3>3. ReleaseOK(r, t, p)  BY <1>1, <1>2, <2>4, <2>5 DEF TaskOK, ReleaseOK, ReleaseTimers, Handlers
    <3> QED BY <1>1, <1>3, <2>4, <2>5, <3>2, <3>3 DEF TaskOK, Handlers, QueueOK
  <2>9. Quiet(r, kk)  BY <2>2, <2>3 DEF Same, Fields, Quiet
  <2> QED BY <1>1, <2>2, <2>3, <2>6, <2>9, OthersTrans, PidSets, AllButOne DEF r
<1> QED BY <1>4, <1>5

\* The running task of the CBS level ends, and with it its next period.
LEMMA CBS_endIs ==
  ASSUME NEW kk, NEW p \in Soft, NEW t, AllOK(kk, p, t)
  PROVE  LET r == CBS_end(kk, p)
         IN  AllOK(r, NIL, t) /\ Others(r, kk, p) /\ Quiet(r, kk) /\ r.status[p] = "ZOMBIE"
<1> DEFINE a == CBS_avail_time_check(kk, p)
           b == Unpost(a, "reactivate", p)
           c == Status(b, p, "ZOMBIE")
           u == a.cbs_dline[p]
           r == CBS_end(kk, p)
           T == Timers(kk, p)
<1>1. /\ p \in Pids /\ p \in Ranked /\ p # Dummy /\ p \notin RrTasks /\ p \notin Edf
      /\ p # NIL /\ Wellformed(kk) /\ kk.status \in [Pids -> Statuses] /\ DOMAIN T = Handlers
  BY PidSets, KernelFields, TimersAt DEF AllOK, Wellformed
<1>2. TaskOK(kk, p, t, p)  BY <1>1 DEF AllOK
<1>3. /\ kk.status[p] = "EXE" /\ p \notin Members(kk.edf) /\ kk.wcet[p] > 0
      /\ CbsTimersOK(kk, p) /\ T["delay"] = {}
  BY <1>1, <1>2 DEF TaskOK, QueueOK
<1>4. /\ Wellformed(a) /\ Others(a, kk, p) /\ Same(a, kk, {"cbs_dline", "avail"})
  BY <1>1, <1>3, CBS_avail_time_checkIs
<1>5. EDF_private_extract(a, p) = a
  <2> HIDE DEF a
  <2> QED BY <1>3, <1>4, ExtractWaiting DEF Same, Fields
<1>6. r = Post(c, "zombie", p, u)  BY <1>5 DEF CBS_end
<1> HIDE DEF a, r
<1>7. a.status = kk.status /\ a.events = kk.events /\ u \in Int
  BY <1>1, <1>4, KernelFields DEF Wellformed, Same, Fields
<1> HIDE DEF u
<1>9. /\ Wellformed(b) /\ Others(b, a, p) /\ Same(b, a, {"events"})
      /\ Timers(b, p) = [T EXCEPT !["reactivate"] = {}]
  <2>1. "reactivate" \in Handlers  BY DEF Handlers
  <2> QED BY <1>1, <1>4, <1>7, <2>1, TimersSame, Unposting
<1> HIDE DEF b
<1>10. /\ Wellformed(c) /\ Others(c, b, p) /\ Same(c, b, {"status"})
       /\ c.status = [b.status EXCEPT ![p] = "ZOMBIE"]
  BY <1>1, <1>9, StatusIs, StatusNames
<1> HIDE DEF c
<1>11. c.events = b.events /\ b.status = kk.status  BY <1>7, <1>9, <1>10 DEF Same, Fields
<1>12. Timers(c, p) = [T EXCEPT !["reactivate"] = {}]  BY <1>9, <1>11, TimersSame
<1>13. T["zombie"] = {}  BY <1>3 DEF CbsTimersOK
<1>14. /\ Wellformed(r) /\ Others(r, c, p) /\ Same(r, c, {"events"})
       /\ Timers(r, p) = [Timers(c, p) EXCEPT !["zombie"] = {u}]
  <2>2. Timers(c, p)["zombie"] = {}
    <3> HIDE DEF T
    <3> QED BY <1>1, <1>12, <1>13 DEF Handlers
  <2> QED BY <1>1, <1>6, <1>7, <1>10, <2>2, Posting DEF Handlers, Addressed, Event
<1>15. /\ Timers(r, p)["reactivate"] = {}
       /\ \A h \in Handlers \ {"reactivate", "zombie"} : Timers(r, p)[h] = T[h]
  <2> HIDE DEF T
  <2> QED BY <1>1, <1>12, <1>14 DEF Handlers
<1>16. /\ r.status[p] = "ZOMBIE" /\ r.edf = kk.edf /\ r.wcet = kk.wcet
       /\ r.release = kk.release
  BY <1>1, <1>4, <1>9, <1>10, <1>11, <1>14 DEF Same, Fields
<1>17. TaskOK(r, NIL, t, p)
  <2>3. ReleaseOK(r, t, p)  BY <1>1, <1>2, <1>15, <1>16 DEF TaskOK, ReleaseOK, ReleaseTimers, Handlers
  <2> QED BY <1>1, <1>3, <1>15, <1>16, <2>3 DEF TaskOK, Handlers, QueueOK, CbsTimersOK
<1>18. Others(r, kk, p)  BY <1>4, <1>9, <1>10, <1>14, OthersTrans
<1>20. Quiet(r, kk)  BY <1>4, <1>9, <1>10, <1>14 DEF Same, Fields, Quiet
<1> QED BY <1>1, <1>14, <1>16, <1>17, <1>18, <1>20, PidSets, AllButOne DEF r

\* The running task ends.
LEMMA endIs ==
  ASSUME NEW kk, NEW p \in Pids \ {Dummy}, NEW t, AllOK(kk, p, t)
  PROVE  LET r == public_end(kk, p)
         IN  AllOK(r, NIL, t) /\ Others(r, kk, p) /\ Quiet(r, kk)
<1> DEFINE r == public_end(kk, p)
<1>1. CASE p \in Edf
  <2> HIDE DEF r
  <2> QED BY <1>1, PidSets, EDF_endIs DEF r, public_end
<1>2. CASE p \in Soft
  <2> HIDE DEF r
  <2> QED BY <1>2, PidSets, CBS_endIs DEF r, public_end
<1>3. CASE p \in RrTasks
  <2> HIDE DEF r
  <2> QED BY <1>3, PidSets, RrLeaves DEF r, public_end, RR_end
<1> QED BY <1>1, <1>2, <1>3 DEF Pids, Ranked

------------------------------
(* The inductive invariant.  Besides the queues and the timers of every task *)
(* it says that a task made ready while another runs has asked for the       *)
(* scheduler, and that only an interrupt may leave that request open.        *)

\* A primitive ends with a call of the scheduler.
LEMMA SettledReturn ==
  ASSUME NEW kk, Settled(kk, now), now \in Int, Return(kk), now' = now, irq' = FALSE
  PROVE  IInv'
<1> DEFINE r == [kk EXCEPT !.resched = FALSE]
<1>1. r = k'  BY DEF Return
<1>2. /\ Wellformed(r) /\ Likewise(r, kk) /\ Same(r, kk, {"resched"}) /\ r.resched = FALSE
  BY ReschedIs DEF Settled, AllOK
<1> HIDE DEF r
<1> QED BY <1>1, <1>2, AllLikewise DEF IInv, Settled, Right, FirstRuns, Same, Fields

\* Or it has made no task ready.
LEMMA CalmReturn ==
  ASSUME IInv, ~irq, NEW kk, AllOK(kk, k.exec_shadow, now), Calm(kk, k), Return(kk),
         now' = now, irq' = FALSE
  PROVE  IInv'
BY SettledReturn DEF IInv, Settled, Right, Calm, FirstRuns

------------------------------
(* The start *)

LEMMA StartIs ==
  /\ Settled(Started, 0) /\ Started.resched = FALSE /\ Wellformed(k0)
  /\ \E b : /\ AllOK(b, NIL, 0) /\ Others(b, k0, Main) /\ Quiet(b, k0) /\ Scheduled(Started, b)
            /\ Started = Dispatch(Select(b)) /\ b.events = <<>> /\ Slices(b)
            /\ b.schedule_time = 0
<1> DEFINE a == RR_create(k0, Main)
           b == RR_activate(a, Main)
<1>1. Started = scheduler(b)  BY DEF Started
<1>2. k0 \in Kernels  BY DEF Kernels, k0, Statuses
<1>3. /\ k0.edf = <<>> /\ k0.rr = <<>> /\ k0.events = <<>> /\ k0.exec_shadow = NIL
      /\ k0.status = [p \in Pids |-> IF p = Dummy THEN "SLEEP" ELSE "FREE"]
      /\ k0.late = {} /\ k0.resched = FALSE /\ k0.schedule_time = 0
  BY DEF k0
<1> HIDE DEF b
<1>4. Wellformed(k0)
  <2>2. EventList(k0.events)  BY <1>3 DEF EventList, TimedList, InTime, OneEach, Members
  <2> QED BY <1>2, <1>3, <2>2 DEF Wellformed, Distinct, InOrder
<1>6. \A p \in Pids : TaskOK(k0, NIL, 0, p)
  <2> SUFFICES ASSUME NEW p \in Pids PROVE TaskOK(k0, NIL, 0, p)  OBVIOUS
  <2>1. /\ k0.status[p] = IF p = Dummy THEN "SLEEP" ELSE "FREE"
        /\ Members(k0.edf) = {} /\ Members(k0.rr) = {}
    BY <1>3 DEF Members
  <2>2. QueueOK(k0, NIL, p)  BY <2>1, PidSets DEF QueueOK
  <2>3. \A h \in Handlers : Timers(k0, p)[h] = {}  BY <1>3 DEF Timers, Members
  <2>4. p \in Edf => EdfTimersOK(k0, p)
    <3> SUFFICES ASSUME p \in Edf PROVE EdfTimersOK(k0, p)  OBVIOUS
    <3> QED BY <1>3, <2>1, <2>3, PidSets DEF EdfTimersOK, InJobs, Handlers
  <2> QED BY <2>1, <2>2, <2>3, <2>4
             DEF TaskOK, Handlers, CbsTimersOK, ReleaseOK, ReleaseTimers
<1>7. AllOK(k0, NIL, 0)  BY <1>4, <1>6 DEF AllOK
<1>8. /\ Main \in RrTasks /\ Main \in Pids /\ Main # Dummy /\ Main \notin Ranked /\ Main # NIL
      /\ Main \notin Edf /\ Main \notin Soft /\ slice[Main] > 0
  BY PidAssumption, RrAssumption, PidSets
<1>9. /\ Wellformed(a) /\ Others(a, k0, Main)
      /\ Same(a, k0, {"status", "avail", "wcet", "capped", "nopreempt"})
      /\ a.status[Main] = "SLEEP" /\ a.wcet[Main] = slice[Main] /\ Slice(a, Main)
  BY <1>4, <1>8, RR_createIs
<1> HIDE DEF a
<1>10. /\ a.events = <<>> /\ a.rr = <<>> /\ a.exec_shadow = NIL /\ a.resched = FALSE
  BY <1>3, <1>9 DEF Same, Fields
<1>11. TaskOK(a, NIL, 0, Main)  BY <1>8, <1>9, <1>10 DEF TaskOK, QueueOK, Members, Timers, Handlers
<1>13. AllOK(b, NIL, 0) /\ Same(b, a, {"rr", "status"}) /\ Others(b, a, Main)
  BY <1>7, <1>8, <1>9, <1>11, AllButOne, RR_activateIs DEF b
<1>14. /\ b.events = <<>> /\ b.exec_shadow = NIL /\ b.resched = FALSE /\ b.schedule_time = 0
       /\ b.avail = a.avail /\ b.wcet = a.wcet /\ b.capped = a.capped
  BY <1>3, <1>9, <1>10, <1>13 DEF Same, Fields
<1>15. Slices(b)
  <2>1. \A q \in RrTasks \ {Main} : b.status[q] = "FREE"  BY <1>3, <1>9, <1>13, PidSets DEF Others, Alike
  <2> QED BY <1>9, <1>14, <2>1 DEF Slices, Slice
<1>16. Settled(scheduler(b), 0) /\ Scheduled(scheduler(b), b)  BY <1>13, <1>14, schedulerFree DEF Posted
<1>17. scheduler(b).resched = b.resched  BY <1>16 DEF Scheduled, Same, Fields, UnmovedFields
<1>18. Others(b, k0, Main)  BY <1>9, <1>13, OthersTrans
<1>20. Quiet(b, k0)  BY <1>9, <1>13 DEF Same, Fields, Quiet
<1>21. Started = Dispatch(Select(b))
  BY <1>1, <1>13, <1>14, KernelFields, PidSets DEF scheduler, AllOK, Wellformed
<1> QED BY <1>1, <1>4, <1>13, <1>14, <1>15, <1>16, <1>17, <1>18, <1>20, <1>21

LEMMA InitIInv == Init => IInv
<1> SUFFICES ASSUME Init PROVE IInv  OBVIOUS
<1>1. now = 0 /\ k = Started /\ irq = FALSE  BY DEF Init
<1>2. Settled(k, 0) /\ k.resched = FALSE  BY <1>1, StartIs
<1>3. Right(k)  BY <1>2 DEF Settled, Right
<1>4. ~k.resched  BY <1>2
<1>5. now \in Int /\ irq \in BOOLEAN
  <2>2. irq \in BOOLEAN  BY <1>1, Zenon
  <2> QED BY <1>1, <2>2
<1>6. k.exec_shadow \in Pids /\ AllOK(k, k.exec_shadow, now)  BY <1>1, <1>2 DEF Settled
<1> QED BY <1>3, <1>4, <1>5, <1>6, Zenon DEF IInv

------------------------------
(* The primitives keep the invariant. *)

LEMMA NotIrq == ASSUME ~irq, irq' = irq, IInv PROVE irq' = FALSE
BY DEF IInv

LEMMA task_createKeeps ==
  ASSUME IInv, NEW x \in Pids, NEW p \in Ranked \cup RrTasks, task_create(x, p)
  PROVE  IInv'
<1> DEFINE a == public_create(k, p)
           b == Unfreeze(a, p)
<1>1. ~irq /\ k.status[p] = "FREE" /\ Return(b) /\ now' = now /\ irq' = irq  BY DEF task_create, Running
<1>2. AllOK(a, k.exec_shadow, now) /\ Calm(a, k)  BY <1>1, createIs DEF IInv
<1> HIDE DEF a
<1>4. Wellformed(b) /\ Likewise(b, a) /\ Same(b, a, {"frozen", "frozen_activations"})
  BY <1>2, PidSets, UnfreezeIs DEF AllOK
<1> HIDE DEF b
<1> QED BY <1>1, <1>2, <1>4, CalmSame, AllLikewise, NotIrq, CalmReturn DEF Calm

LEMMA task_activateKeeps ==
  ASSUME IInv, NEW x \in Pids, NEW p \in Ranked \cup RrTasks, task_activate(x, p)
  PROVE  IInv'
<1> DEFINE a == public_activate(k, p)
<1>1. ~irq /\ k.status[p] # "FREE" /\ Return(scheduler(a)) /\ now' = now /\ irq' = irq
  BY DEF task_activate, Running
<1>2. AllOK(a, k.exec_shadow, now) /\ a.exec_shadow = k.exec_shadow  BY <1>1, activateIs DEF IInv
<1> HIDE DEF a
<1> QED BY <1>1, <1>2, schedulerIs, NotIrq, SettledReturn DEF IInv

\* The activations of a task that are blocked: what is held and noted of them.
LEMMA HeldIs ==
  ASSUME IInv, NEW x \in Pids, NEW p \in Ranked \cup RrTasks, Freezes(x, p)
  PROVE  /\ ~irq /\ now' = now /\ irq' = irq
         /\ base' = base /\ done' = done /\ missed' = missed
         /\ \E r \in Kernels :
              /\ Return(r) /\ Same(r, k, {"frozen", "frozen_activations"})
              /\ arrived \in [SaveArrivals -> Int] => \A q \in SaveArrivals :
                   arrived'[q] = arrived[q] + Held(r, q) - Held(k, q)
<1> DEFINE n == k.frozen_activations
           F == IF task_activate_frozen(x, p) \/ p \notin Freezable THEN k.frozen
                ELSE IF task_block_activation(x, p) THEN k.frozen \cup {p} ELSE k.frozen \ {p}
           N == IF task_activate_frozen(x, p) THEN [n EXCEPT ![p] = @ + 1]
                ELSE IF p \notin Freezable \/ (task_block_activation(x, p) /\ p \in k.frozen)
                       THEN n
                ELSE [n EXCEPT ![p] = 0]
           s == IF task_activate_frozen(x, p) THEN [k EXCEPT !.frozen_activations[p] = @ + 1]
                ELSE IF task_block_activation(x, p)
                  THEN IF p \in k.frozen THEN k
                       ELSE [k EXCEPT !.frozen = @ \cup {p}, !.frozen_activations[p] = 0]
                ELSE Unfreeze(k, p)
<1>1. /\ ~irq /\ now' = now /\ irq' = irq /\ k \in Kernels
      /\ base' = base /\ done' = done /\ missed' = missed
  BY DEF Freezes, task_activate_frozen, task_block_activation, task_unblock_activation,
         Running, NoJob, IInv, AllOK, Wellformed
<1>2. k.frozen \in SUBSET Freezable /\ n \in [Freezable -> Int]  BY <1>1, KernelFields
<1>3. F \in SUBSET Freezable /\ N \in [Freezable -> Int] /\ (p \in F => N[p] \in Int)
  BY <1>2 DEF Freezes, task_activate_frozen, task_block_activation, task_unblock_activation
<1>4. Return(s)  BY DEF Freezes, task_activate_frozen, task_block_activation, task_unblock_activation
<1>5. ASSUME arrived \in [SaveArrivals -> Int], NEW q \in SaveArrivals
      PROVE  arrived'[q] = arrived[q] + (IF q \in F THEN N[q] ELSE 0) - Held(k, q)
  BY <1>2, <1>5 DEF Freezes, task_activate_frozen, task_block_activation, task_unblock_activation, Held,
                    NoJob
<1>6. s.frozen = F /\ s.frozen_activations = N /\ Same(s, k, {"frozen", "frozen_activations"})
  BY <1>1 DEF Kernels, Same, Fields, Unfreeze, task_block_activation
<1>8. s \in Kernels
  <2> DEFINE a == [k EXCEPT !.frozen_activations[p] = @ + 1]
             b == [k EXCEPT !.frozen = @ \cup {p}, !.frozen_activations[p] = 0]
             c == [k EXCEPT !.frozen = @ \ {p}, !.frozen_activations[p] = 0]
  <2>1. s \in {k, a, b, c}  BY DEF Unfreeze
  <2> HIDE DEF F, N
  <2>2. s.frozen \in SUBSET Freezable /\ s.frozen_activations \in [Freezable -> Int]  BY <1>3, <1>6
  <2> HIDE DEF s
  <2>3. CASE s = a  BY <1>1, <2>2, <2>3 DEF Kernels
  <2>4. CASE s = b  BY <1>1, <2>2, <2>4 DEF Kernels
  <2>5. CASE s = c  BY <1>1, <2>2, <2>5 DEF Kernels
  <2> QED BY <1>1, <2>1, <2>3, <2>4, <2>5
<1> HIDE DEF F, N, s
<1> QED BY <1>1, <1>4, <1>5, <1>6, <1>8 DEF Held

LEMMA FreezesKeeps ==
  ASSUME IInv, NEW x \in Pids, NEW p \in Ranked \cup RrTasks, Freezes(x, p)
  PROVE  IInv'
<1>1. PICK r \in Kernels : Return(r) /\ Same(r, k, {"frozen", "frozen_activations"})  BY HeldIs
<1>5. AllOK(r, k.exec_shadow, now)  BY <1>1, AsideIs, AllLikewise DEF IInv, AllOK, Aside
<1> QED BY <1>1, <1>5, CalmSame, HeldIs, NotIrq, CalmReturn

LEMMA task_disableKeeps ==
  ASSUME ~DisableAnyJob, IInv, NEW x \in Pids, NEW p \in Ranked \cup RrTasks,
         task_disable(x, p)
  PROVE  IInv'
<1> DEFINE r == public_message(k, p, "disable")
<1>1. /\ ~irq /\ p \in Periodic \cup SoftPeriodic /\ k.status[p] = "IDLE"
      /\ ~Posted(k, "offset", p) /\ Return(r) /\ now' = now /\ irq' = irq
  BY DEF task_disable, Running
<1>2. AllOK(r, k.exec_shadow, now) /\ Calm(r, k)  BY <1>1, disableIs DEF IInv
<1> HIDE DEF r
<1> QED BY <1>1, <1>2, NotIrq, CalmReturn

\* What the primitives do that give up the processor.
LEMMA GiveUpKeeps ==
  ASSUME NEW kk, AllOK(kk, NIL, now), ~Posted(kk, "capacity", NIL), now \in Int,
         Return(GiveUp(kk)), now' = now, irq' = FALSE
  PROVE  IInv'
BY GiveUpIs, SettledReturn

\* The running task is charged for its time.
LEMMA ChargedIs ==
  ASSUME IInv, NEW x, k.exec_shadow = x
  PROVE  LET r == kern_epilogue_macro(k)
         IN  AllOK(r, x, now) /\ ~Posted(r, "capacity", NIL)
<1> DEFINE r == kern_epilogue_macro(k)
<1> HIDE DEF r
<1> QED BY kern_epilogue_macroIs, AllLikewise DEF r, IInv, AllOK

LEMMA task_endcycleKeeps ==
  ASSUME IInv, NEW x \in Pids, task_endcycle(x)
  PROVE  IInv'
<1> DEFINE a == kern_epilogue_macro(k)
           b == public_message(a, x, "endcycle")
<1>1. /\ ~irq /\ k.exec_shadow = x /\ x \in Pids \ {Dummy} /\ Return(GiveUp(b))
      /\ now' = now /\ irq' = irq
  BY DEF task_endcycle, Running
<1>2. AllOK(a, x, now) /\ ~Posted(a, "capacity", NIL)  BY <1>1, ChargedIs
<1> HIDE DEF a
<1>3. AllOK(b, NIL, now) /\ Others(b, a, x)  BY <1>1, <1>2, endcycleIs
<1> HIDE DEF b
<1> QED BY <1>1, <1>2, <1>3, CapacityStays, NotIrq, GiveUpKeeps DEF IInv, AllOK

\* A task falls asleep, and gives the processor up.
LEMMA nanosleepIs ==
  ASSUME IInv, NEW x \in Pids, NEW d \in Delays, nanosleep(x, d)
  PROVE  LET a == kern_epilogue_macro(k)
         IN  /\ ~irq /\ k.exec_shadow = x /\ x # Dummy /\ now' = now /\ irq' = irq /\ AllOK(a, x, now)
             /\ \E b : /\ AllOK(b, NIL, now) /\ Sleeps(b, a, x)
                       /\ Return(GiveUp(b)) /\ ~Posted(b, "capacity", NIL)
<1> DEFINE a == kern_epilogue_macro(k)
           u == now + d
           b == Post(Status(public_block(a, x), x, "WAIT_NANOSLEEP"), "delay", x, u)
<1>1. /\ ~irq /\ k.exec_shadow = x /\ x \in Pids \ {Dummy} /\ Return(GiveUp(b))
      /\ now' = now /\ irq' = irq /\ u \in Int
  BY SchedAssumption DEF nanosleep, Running, IInv
<1>2. AllOK(a, x, now) /\ ~Posted(a, "capacity", NIL)  BY <1>1, ChargedIs
<1> HIDE DEF a, u
<1>3. AllOK(b, NIL, now) /\ Sleeps(b, a, x)  BY <1>1, <1>2, sleepIs
<1> HIDE DEF b
<1>4. ~Posted(b, "capacity", NIL)  BY <1>1, <1>2, <1>3, CapacityStays DEF AllOK, Sleeps
<1> QED BY <1>1, <1>2, <1>3, <1>4 DEF a

LEMMA nanosleepKeeps ==
  ASSUME IInv, NEW x \in Pids, NEW d \in Delays, nanosleep(x, d)
  PROVE  IInv'
BY nanosleepIs, NotIrq, GiveUpKeeps DEF IInv

LEMMA task_endIs ==
  ASSUME IInv, NEW x \in Pids, task_end(x)
  PROVE  LET a == public_end(k, x)
         IN  /\ ~irq /\ k.exec_shadow = x /\ x # Dummy /\ now' = now /\ irq' = irq
             /\ AllOK(k, x, now) /\ AllOK(a, NIL, now) /\ Others(a, k, x) /\ Quiet(a, k)
             /\ \E c : Uncapped(c, a) /\ Return(GiveUp(c))
<1> DEFINE a == public_end(k, x)
           b == [a EXCEPT !.schedule_time = now]
           c == Unpost(b, "capacity", NIL)
<1>1. /\ ~irq /\ k.exec_shadow = x /\ x \in Pids \ {Dummy} /\ Return(GiveUp(c))
      /\ now' = now /\ irq' = irq
  BY DEF task_end, Running
<1>2. AllOK(k, x, now) /\ AllOK(a, NIL, now) /\ Others(a, k, x) /\ Quiet(a, k)  BY <1>1, endIs DEF IInv
<1> HIDE DEF a
<1>3. /\ Wellformed(b) /\ Likewise(b, a) /\ Same(b, a, {"schedule_time"})
      /\ b.schedule_time = now
  BY <1>2, ScheduleTimeIs DEF AllOK, IInv
<1> HIDE DEF b
<1>4. Wellformed(c) /\ Likewise(c, b) /\ Same(c, b, {"events"}) /\ ~Posted(c, "capacity", NIL)
  BY <1>3, UncappedIs
<1> HIDE DEF c
<1>5. Likewise(c, a)  BY <1>3, <1>4, LikewiseTrans
<1>6. Same(c, a, {"schedule_time", "events"}) /\ c.schedule_time = now  BY <1>3, <1>4 DEF Same, Fields
<1>7. AllOK(c, NIL, now)  BY <1>2, <1>4, <1>5, AllLikewise
<1> QED BY <1>1, <1>2, <1>4, <1>5, <1>6, <1>7 DEF a, Uncapped

LEMMA task_endKeeps ==
  ASSUME IInv, NEW x \in Pids, task_end(x)
  PROVE  IInv'
BY task_endIs, NotIrq, GiveUpKeeps DEF IInv, Uncapped

\* task_nopreempt returns with no event to stop the task, task_preempt calls the
\* scheduler.
LEMMA preemptIs ==
  ASSUME IInv, NEW x \in Pids, task_nopreempt(x) \/ task_preempt(x)
  PROVE  /\ ~irq /\ k.exec_shadow = x /\ now' = now /\ irq' = irq
         /\ \E r : /\ AllOK(r, x, now) /\ Likewise(r, k) /\ Same(r, k, {"nopreempt", "events"})
                   /\ (Return(r) /\ x \in r.nopreempt) \/ Return(scheduler(r))
<1> DEFINE P == IF task_nopreempt(x) THEN k.nopreempt \cup {x} ELSE k.nopreempt \ {x}
           a == [k EXCEPT !.nopreempt = P]
           b == Unpost(a, "capacity", NIL)
<1>1. /\ ~irq /\ k.exec_shadow = x /\ now' = now /\ irq' = irq
      /\ (Return(b) /\ x \in P) \/ Return(scheduler(a))
  BY DEF task_nopreempt, task_preempt, Running
<1>2. P \in SUBSET Pids  BY KernelFields DEF IInv, AllOK, Wellformed
<1> HIDE DEF P
<1>3. Wellformed(a) /\ Likewise(a, k) /\ Same(a, k, {"nopreempt"}) /\ a.nopreempt = P
  BY <1>2, NopreemptIs DEF IInv, AllOK
<1> HIDE DEF a
<1>4. Wellformed(b) /\ Likewise(b, a) /\ Same(b, a, {"events"})  BY <1>3, UncappedIs
<1> HIDE DEF b
<1>5. AllOK(a, x, now) /\ AllOK(b, x, now) /\ Likewise(b, k)
  BY <1>1, <1>3, <1>4, AllLikewise, LikewiseTrans DEF IInv
<1>6. Same(a, k, {"nopreempt", "events"}) /\ Same(b, k, {"nopreempt", "events"}) /\ b.nopreempt = P
  BY <1>3, <1>4 DEF Same, Fields
<1> QED BY <1>1, <1>3, <1>5, <1>6

LEMMA preemptKeeps ==
  ASSUME IInv, NEW x \in Pids, task_nopreempt(x) \/ task_preempt(x)
  PROVE  IInv'
<1>1. PICK r : /\ AllOK(r, x, now) /\ Same(r, k, {"nopreempt", "events"})
               /\ (Return(r) /\ x \in r.nopreempt) \/ Return(scheduler(r))
  BY preemptIs
<1>2. k.exec_shadow = x /\ r.exec_shadow = x  BY <1>1, preemptIs DEF Same, Fields
<1>3. x \in r.nopreempt => Settled(r, now)  BY <1>1, <1>2 DEF Settled
<1>4. Settled(scheduler(r), now)  BY <1>1, <1>2, schedulerIs DEF IInv
<1> QED BY <1>1, <1>3, <1>4, preemptIs, NotIrq, SettledReturn DEF IInv

------------------------------
(* The clock *)

\* What an event did is heard of by the scheduler.
LEMMA HeardKeeps ==
  ASSUME IInv, NEW kk, AllOK(kk, k.exec_shadow, now), Heard(kk, k), k' = kk,
         now' = now, irq' = TRUE
  PROVE  IInv'
<1>1. kk.exec_shadow = k.exec_shadow  BY DEF Heard
<1>2. Right(kk)  BY DEF IInv, Heard, Right, FirstRuns
<1> QED BY <1>1, <1>2 DEF IInv

\* oneshot_wake_up: the first event is taken off and its handler called.
LEMMA WakeIs ==
  ASSUME IInv, wake_up
  PROVE  LET e == k.events[1]
         IN  /\ k.events # <<>> /\ e.time <= now /\ Wellformed(k) /\ now \in Int
             /\ AllOK(k, k.exec_shadow, now) /\ now' = now /\ irq' = TRUE
             /\ base' = base /\ done' = done /\ missed' = missed /\ arrived' = arrived
             /\ Handles(k', e.handler, [k EXCEPT !.events = Tail(@)], e.pid)
<1> DEFINE e == k.events[1]
           h == e.handler
<1> QED BY Firing DEF wake_up, event, Handles, Handlers, Due, NoJob, IInv, AllOK

LEMMA wake_upKeeps ==
  ASSUME IInv, wake_up
  PROVE  LET e == k.events[1]
             m == [k EXCEPT !.events = Tail(@)]
         IN  /\ IInv' /\ NextStays(k', m, now) /\ AllOK(k', k.exec_shadow, now) /\ Heard(k', k)
             /\ e.handler = "capacity" =>
                  Likewise(k', k) /\ Same(k', k, {"events", "resched"}) /\ k'.resched
             /\ e.handler \notin {"capacity", "delay"} => Others(k', k, e.pid) /\ Quiet(k', k)
             /\ e.handler \in {"endperiod", "deadline", "offset"} => e.pid \in Edf
             /\ e.handler \in {"reactivate", "zombie"} => e.pid \in Soft
<1> DEFINE h == k.events[1].handler
           p == k.events[1].pid
           m == [k EXCEPT !.events = Tail(@)]
           r == [m EXCEPT !.resched = TRUE]
           Done == /\ AllOK(k', k.exec_shadow, now) /\ Heard(k', k) /\ NextStays(k', m, now)
                   /\ h = "capacity" =>
                        Likewise(k', k) /\ Same(k', k, {"events", "resched"}) /\ k'.resched
                   /\ h \notin {"capacity", "delay"} => Others(k', k, p) /\ Quiet(k', k)
                   /\ h \in {"endperiod", "deadline", "offset"} => p \in Edf
                   /\ h \in {"reactivate", "zombie"} => p \in Soft
<1>1. /\ k.events # <<>> /\ now' = now /\ irq' = TRUE /\ now \in Int
      /\ AllOK(k, k.exec_shadow, now) /\ Handles(k', h, m, p)
  BY WakeIs
<1> SUFFICES Done  BY <1>1, HeardKeeps
<1>2. CASE h = "capacity" /\ k' = r
  <2>1. /\ AllOK(r, k.exec_shadow, now) /\ Heard(r, k) /\ NextStays(r, m, now)
        /\ Likewise(r, k) /\ Same(r, k, {"events", "resched"}) /\ r.resched
    BY <1>1, <1>2, capacityIs, Zenon
  <2> HIDE DEF r
  <2> QED BY <1>2, <2>1
<1>3. CASE h = "delay" /\ k' = delay_timer(m, p)  BY <1>1, <1>3, delayIs
<1>4. CASE h = "endperiod" /\ k' = EDF_timer_endperiod(m, p)  BY <1>1, <1>4, endperiodIs
<1>5. CASE h = "deadline" /\ k' = EDF_timer_deadline(m, p)  BY <1>1, <1>5, deadlineIs
<1>6. CASE h = "offset" /\ k' = EDF_timer_offset(m, p)  BY <1>1, <1>6, offsetIs
<1>7. CASE h = "reactivate" /\ k' = CBS_timer_reactivate(m, p)  BY <1>1, <1>7, reactivateIs
<1>8. CASE h = "zombie" /\ k' = CBS_timer_zombie(m, p)  BY <1>1, <1>8, zombieIs
<1> HIDE DEF h, Done
<1> QED BY <1>1, <1>2, <1>3, <1>4, <1>5, <1>6, <1>7, <1>8 DEF Handles

LEMMA rescheduleKeeps ==
  ASSUME IInv, reschedule
  PROVE  IInv'
<1> DEFINE r == IF k.resched THEN scheduler(k) ELSE k
<1>1. Return(r) /\ now' = now /\ irq' = FALSE  BY DEF reschedule
<1>2. Settled(r, now)
  <2>1. CASE k.resched  BY <2>1, schedulerIs DEF IInv
  <2>2. CASE ~k.resched  BY <2>2 DEF IInv, Right, Settled
  <2> QED BY <2>1, <2>2
<1> HIDE DEF r
<1> QED BY <1>1, <1>2, SettledReturn DEF IInv

\* Where no event is due, all are later than now.
LEMMA LaterEvents ==
  ASSUME Wellformed(k), ~Due(k), now \in Int, NEW e \in Members(k.events)
  PROVE  e.time \in Int /\ e.time >= now + 1
<1>1. k.events \in Seq(Events) /\ InTime(k.events)  BY DEF Wellformed, EventList, TimedList
<1>2. PICK i \in DOMAIN k.events : k.events[i] = e  BY DEF Members
<1> QED BY <1>1, <1>2, ListFields, EmptySeq DEF Due, InTime

LEMMA tickKeeps ==
  ASSUME IInv, tick
  PROVE  IInv'
<1>1. ~Due(k) /\ now' = now + 1 /\ k' = k /\ irq' = irq  BY DEF tick
<1>2. now \in Int /\ Wellformed(k) /\ AllOK(k, k.exec_shadow, now)  BY DEF IInv, AllOK
<1>3. ASSUME NEW p \in Ranked PROVE ReleaseOK(k, now + 1, p)
  <2>2. ASSUME NEW h \in ReleaseTimers, NEW a \in Timers(k, p)[h] PROVE a >= now + 1
    <3>2. PICK e \in Members(k.events) : a = e.time  BY DEF Timers, ReleaseTimers, Handlers
    <3> QED BY <1>1, <1>2, <3>2, LaterEvents
  <2> QED BY <1>2, <2>2, PidSets DEF ReleaseOK, AllOK, TaskOK
<1> QED BY <1>1, <1>2, <1>3 DEF IInv, AllOK, TaskOK

LEMMA NextIInv ==
  ASSUME ~DisableAnyJob, IInv, [Next]_vars
  PROVE  IInv'
<1>1. CASE wake_up  BY <1>1, wake_upKeeps
<1>2. CASE reschedule  BY <1>2, rescheduleKeeps
<1>3. CASE tick  BY <1>3, tickKeeps
<1>4. ASSUME NEW x \in Pids, Primitive(x) PROVE IInv'
  <2>1. ASSUME NEW p \in Ranked \cup RrTasks,
               \/ task_create(x, p) \/ task_activate(x, p)
               \/ Freezes(x, p) \/ task_disable(x, p)
        PROVE  IInv'
    BY <2>1, task_createKeeps, task_activateKeeps, FreezesKeeps, task_disableKeeps
  <2>2. CASE task_endcycle(x)  BY <2>2, task_endcycleKeeps
  <2>3. ASSUME NEW d \in Delays, nanosleep(x, d) PROVE IInv'  BY <2>3, nanosleepKeeps
  <2>4. CASE task_end(x)  BY <2>4, task_endKeeps
  <2>5. CASE task_nopreempt(x)  BY <2>5, preemptKeeps
  <2>6. CASE task_preempt(x)  BY <2>6, preemptKeeps
  <2> QED BY <1>4, <2>1, <2>2, <2>3, <2>4, <2>5, <2>6 DEF Primitive, Freezes
<1>5. CASE UNCHANGED vars  BY <1>5 DEF vars, IInv
<1> QED BY <1>1, <1>2, <1>3, <1>4, <1>5 DEF Next

LEMMA AlwaysIInv ==
  ASSUME ~DisableAnyJob
  PROVE  Spec => []IInv
<1>1. IInv /\ [Next]_vars => IInv'  BY NextIInv
<1> QED BY <1>1, InitIInv, PTL DEF Spec

------------------------------
(* The theorems *)

\* Whatever is created, activated, ended, disabled, put to sleep, preempted or
\* released, each ready task is once in the queue of its level, no other task
\* is, and the EDF queue is in the order of the deadlines.
THEOREM QueuesAreExact ==
  ASSUME ~DisableAnyJob
  PROVE  Spec => []QueuesExact
<1>1. ASSUME IInv PROVE QueuesExact
  <2>1. /\ k \in Kernels /\ Distinct(k.edf) /\ Distinct(k.rr) /\ InOrder(k.edf, k.dline)
        /\ irq \in BOOLEAN /\ k.exec_shadow \in Pids
        /\ \A p \in Pids : QueueOK(k, k.exec_shadow, p)
    BY <1>1 DEF IInv, AllOK, Wellformed, TaskOK
  <2>3. Members(k.edf) = {p \in Ranked : \/ k.status[p] = "READY"
                                         \/ k.status[p] = "EXE" /\ k.exec_shadow # p}
    BY <2>1, KernelFields, PidSets DEF QueueOK, Members
  <2>4. Members(k.rr) = {p \in RrTasks : k.status[p] = "READY"}
    BY <2>1, KernelFields, PidSets DEF QueueOK, Members
  <2> QED BY <2>1, <2>3, <2>4, KernelFields DEF QueuesExact, InOrder, SchedTypeOK, Statuses
<1> QED BY <1>1, AlwaysIInv, PTL

\* Outside interrupts, unless it is non-preemptive, the task that runs is the
\* one with the earliest deadline, then one of the RR level, then the dummy task.
THEOREM TheRightTaskRuns ==
  ASSUME ~DisableAnyJob
  PROVE  Spec => []RunsTheRightTask
<1>1. IInv => RunsTheRightTask  BY DEF IInv, Right, FirstRuns, RunsTheRightTask
<1> QED BY <1>1, AlwaysIInv, PTL

\* The timers of a task fit its state: what waits for the end of a period or for
\* a time will be woken, and a task that has ended, or sleeps, leaves no event
\* behind for the next owner of the descriptor.
THEOREM TimersFitTheTasks ==
  ASSUME ~DisableAnyJob
  PROVE  Spec => []TimersMatch
<1>1. ASSUME IInv PROVE TimersMatch
  <2>1. /\ OneEach(k.events) /\ \A p \in Pids : TaskOK(k, k.exec_shadow, now, p)
    BY <1>1 DEF IInv, AllOK, Wellformed, EventList, TimedList
  <2>3. ASSUME NEW p \in Edf
        PROVE  LET st == k.status[p]
                   waits == Posted(k, "endperiod", p)
               IN  /\ st \in {"FREE", "SLEEP"} => ~waits
                   /\ st \in {"WAIT", "ZOMBIE"} => waits
                   /\ st = "IDLE" => waits \/ Posted(k, "offset", p)
                   /\ InJob(p) => waits \/ p \in k.late
                   /\ Posted(k, "offset", p) => st = "IDLE" /\ ~waits
                   /\ Posted(k, "deadline", p) => InJob(p)
    <3>1. EdfTimersOK(k, p)  BY <2>1, PidSets DEF TaskOK
    <3> QED BY <3>1, PostedIs DEF EdfTimersOK, InJob, InJobs, Handlers
  <2> QED BY <2>1, <2>3, PostedIs DEF TimersMatch, OneEach, TaskOK, Handlers
<1> QED BY <1>1, AlwaysIInv, PTL

\* The loop of oneshot_wake_up never loses its place: the event it has saved is
\* still the first one when the handler returns.  A deadline of one tick that is
\* also the period would set its timer for the moment it is set at.
THEOREM TheEventLoopIsSafe ==
  ASSUME ~DisableAnyJob, \A p \in Edf : DeadlineTimer(p) > 0
  PROVE  Spec => EventLoopSafe
<1>1. ASSUME IInv, [Next]_vars
      PROVE  [(irq' /\ Len(k.events) > 1 /\ k.events[2].time <= now) =>
                k'.events # <<>> /\ k'.events[1] = k.events[2]]_vars
  <2> SUFFICES ASSUME Next, irq', Len(k.events) > 1, k.events[2].time <= now
               PROVE  k'.events # <<>> /\ k'.events[1] = k.events[2]
    BY <1>1
  <2>1. wake_up
    <3>1. ASSUME NEW x \in Pids, Primitive(x) PROVE irq' = irq /\ ~irq
      BY <3>1 DEF Primitive, Running, task_create, task_activate, task_activate_frozen,
           task_block_activation, task_unblock_activation, task_disable, task_endcycle,
           nanosleep, task_end, task_nopreempt, task_preempt
    <3> QED BY <1>1, <3>1, NotIrq DEF Next, reschedule, tick
  <2> DEFINE q == k.events
             m == [k EXCEPT !.events = Tail(@)]
  <2>2. NextStays(k', m, now)  BY <1>1, <2>1, wake_upKeeps
  <2>3. Wellformed(k) /\ now \in Int /\ q # <<>>  BY <1>1, <2>1 DEF IInv, AllOK, wake_up, Due
  <2>4. m.events = Tail(q)  BY <2>3, Firing
  <2>5. q[2].time \in Int /\ Tail(q) # <<>> /\ Tail(q)[1] = q[2]
    <3>1. q \in Seq(Events) /\ Len(q) \in Nat /\ 2 \in 1 .. Len(q)  BY <2>3, KernelFields DEF Wellformed
    <3>2. q[2].time \in Int  BY <3>1, ListFields
    <3> HIDE DEF q
    <3> DEFINE r == Tail(q)
    <3>3. r \in Seq(Events) /\ Len(r) = Len(q) - 1 /\ r[1] = q[2]  BY <2>3, <3>1, HeadTailProperties
    <3> HIDE DEF r
    <3>4. r # <<>>  BY <3>1, <3>3, EmptySeq
    <3> QED BY <3>2, <3>3, <3>4 DEF r
  <2> HIDE DEF m
  <2>6. FirstStays(k', m)
    <3> HIDE DEF q
    <3>1. q[2].time < now + 1  BY <2>3, <2>5 DEF q
    <3>2. Earlier(m, now + 1)  BY <2>4, <2>5, <3>1 DEF Earlier
    <3> QED BY <2>2, <3>2 DEF NextStays
  <2> QED BY <2>4, <2>5, <2>6 DEF FirstStays
<1> QED BY <1>1, AlwaysIInv, PTL DEF Spec, EventLoopSafe

------------------------------
(* The life of an EDF task.  The invariant above says where a task is queued *)
(* and which timers are set.  What follows says which of its jobs that is:   *)
(* of the fields of the kernel state only those that a job of the task p     *)
(* depends on are looked at, and the statuses within a job are one.          *)

LEMMA LifeIs ==
  ASSUME NEW kk, Wellformed(kk), NEW p \in Edf
  PROVE  Life(kk, p) \in Lives(p)
<1>1. /\ p \in Pids /\ p \in Ranked /\ kk \in Kernels
      /\ \A e \in Members(kk.events) : e.time \in Int
  <2>1. \A e \in Members(kk.events) : e.time \in Int  BY KernelFields, ListFields DEF Wellformed, Members
  <2> QED BY <2>1, PidSets DEF Wellformed
<1> DEFINE st == IF kk.status[p] \in InJobs THEN "JOB" ELSE kk.status[p]
           la == kk.late \cap {p}
<1> HIDE DEF st, la
<1> QED BY <1>1, KernelFields DEF Lives, Life, Handlers, Timers

\* Two states with equal fields, but for the statuses within a job.
LEMMA LifeEqual ==
  ASSUME NEW r, NEW kk, NEW p \in Edf,
         r.status[p] = kk.status[p] \/ (r.status[p] \in InJobs /\ kk.status[p] \in InJobs),
         r.dline[p] = kk.dline[p], r.release[p] = kk.release[p],
         r.adeadline[p] = kk.adeadline[p], r.nact[p] = kk.nact[p],
         p \in r.late <=> p \in kk.late, r.dl_miss[p] = kk.dl_miss[p],
         Timers(r, p)["deadline"] = Timers(kk, p)["deadline"],
         Timers(r, p)["endperiod"] = Timers(kk, p)["endperiod"],
         Timers(r, p)["offset"] = Timers(kk, p)["offset"]
  PROVE  Life(r, p) = Life(kk, p)
BY DEF Life

LEMMA LifeLikewise ==
  ASSUME NEW r, NEW kk, Likewise(r, kk), NEW p \in Edf
  PROVE  Life(r, p) = Life(kk, p)
BY PidSets, LifeEqual DEF Alike, Likewise

LEMMA LifeOthers ==
  ASSUME NEW r, Wellformed(r), NEW kk, Wellformed(kk), NEW p, Others(r, kk, p),
         NEW q \in Edf, q # p
  PROVE  Life(r, q) = Life(kk, q)
BY PidSets, OthersTimers, LifeEqual DEF Alike, Others

LEMMA AliveTrans ==
  ASSUME NEW a, NEW b, NEW c, Alive(a, b), Alive(b, c)
  PROVE  Alive(a, c)
BY DEF Alive

LEMMA AliveOthers ==
  ASSUME NEW r, Wellformed(r), NEW kk, Wellformed(kk), NEW p, Others(r, kk, p), p \notin Edf
  PROVE  Alive(r, kk)
BY LifeOthers DEF Alive, Others

LEMMA AliveLikewise ==
  ASSUME NEW r, NEW kk, Likewise(r, kk), r.U = kk.U
  PROVE  Alive(r, kk)
BY LifeLikewise DEF Alive

\* The scheduler changes no life.
LEMMA AliveScheduled ==
  ASSUME NEW r, NEW kk, Scheduled(r, kk)
  PROVE  Alive(r, kk)
<1>1. /\ r.release = kk.release /\ r.nact = kk.nact /\ r.adeadline = kk.adeadline
      /\ r.dl_miss = kk.dl_miss /\ r.late = kk.late /\ r.U = kk.U
  BY DEF Scheduled, Same, Fields, UnmovedFields
<1>2. ASSUME NEW q \in Edf PROVE Life(r, q) = Life(kk, q)
  BY <1>1, PidSets, LifeEqual DEF Unmoved, CanRun, InJobs, Scheduled
<1> QED BY <1>1, <1>2 DEF Alive

\* The request for a reschedule, or its reset, changes no life.
LEMMA AliveReturn ==
  ASSUME NEW kk, Wellformed(kk), Return(kk)
  PROVE  Alive(k', kk)
<1> DEFINE r == [kk EXCEPT !.resched = FALSE]
<1>1. r = k'  BY DEF Return
<1>2. /\ Wellformed(r) /\ Likewise(r, kk) /\ Same(r, kk, {"resched"})  BY ReschedIs
<1> HIDE DEF r
<1> QED BY <1>1, <1>2, AliveLikewise DEF Same, Fields

LEMMA LifeFields ==
  ASSUME NEW st, NEW dl, NEW u, NEW ad, NEW n, NEW la, NEW m, NEW d, NEW e, NEW o
  PROVE  LET v == LifeOf(st, dl, u, ad, n, la, m, d, e, o)
         IN  /\ v.status = st /\ v.dline = dl /\ v.release = u /\ v.adeadline = ad
             /\ v.nact = n /\ v.late = la /\ v.dl_miss = m /\ v.deadline = d
             /\ v.endperiod = e /\ v.offset = o
BY DEF LifeOf

LEMMA LifeAs ==
  ASSUME NEW kk, NEW p
  PROVE  Life(kk, p) =
           LifeOf(IF kk.status[p] \in InJobs THEN "JOB" ELSE kk.status[p], kk.dline[p],
                  kk.release[p], kk.adeadline[p], kk.nact[p], kk.late \cap {p}, kk.dl_miss[p],
                  Timers(kk, p)["deadline"], Timers(kk, p)["endperiod"],
                  Timers(kk, p)["offset"])
BY DEF Life, LifeOf

LEMMA LifeStatus ==
  ASSUME NEW kk, NEW p
  PROVE  LET v == Life(kk, p)
         IN  /\ v.status = IF kk.status[p] \in InJobs THEN "JOB" ELSE kk.status[p]
             /\ \A st \in Statuses \ InJobs : v.status = st <=> kk.status[p] = st
BY DEF Life, Statuses

\* What a job of p does to its life v, and the timers of p.

LEMMA LivedIs ==
  ASSUME NEW r, Wellformed(r), NEW kk, Wellformed(kk), NEW p \in Edf, Others(r, kk, p),
         NEW v, Life(r, p) = v
  PROVE  Lived(r, kk, p, v)
BY LifeOthers DEF Lived

LEMMA ReleaseLives ==
  ASSUME NEW kk, Wellformed(kk), NEW p \in Edf,
         kk.status[p] = "IDLE" => p \notin Members(kk.edf)
  PROVE  LET r == EDF_release(kk, p)
         IN  r.U = kk.U /\ Lived(r, kk, p, ReleaseLife(Life(kk, p), p))
<1> DEFINE r == EDF_release(kk, p)
           v == Life(kk, p)
           T == Timers(kk, p)
           d == {kk.release[p] + DeadlineTimer(p)}
           e == kk.release[p] + period[p]
<1>1. /\ Wellformed(r) /\ Others(r, kk, p) /\ Same(r, kk, ReleaseFields)
      /\ Released(r, kk, p)
  BY EDF_releaseIs
<1> HIDE DEF r
<1>2. /\ p \in Pids /\ p \in Ranked /\ DOMAIN T = Handlers
      /\ kk.status \in [Pids -> Statuses] /\ kk.release \in [Ranked -> Int]
      /\ kk.dline \in [Ranked -> Int] /\ kk.adeadline \in [Edf -> Int]
      /\ kk.nact \in [Ranked -> Nat]
  BY PidSets, TimersAt, KernelFields DEF Wellformed
<1>3. /\ Timers(r, p)["deadline"] = d /\ Timers(r, p)["endperiod"] = {e}
      /\ Timers(r, p)["offset"] = T["offset"]
  <2>1. Timers(r, p) = [[T EXCEPT !["deadline"] = d] EXCEPT !["endperiod"] = {e}]  BY <1>1 DEF Released
  <2> HIDE DEF T, d, e
  <2> QED BY <1>2, <2>1 DEF Handlers
<1>4. /\ r.late = kk.late /\ r.dl_miss = kk.dl_miss /\ r.U = kk.U /\ r.release[p] = e
  BY <1>1, <1>2 DEF Same, Fields, ReleaseFields, Released
<1>5. /\ v.release = kk.release[p] /\ v.dline = kk.dline[p] /\ v.adeadline = kk.adeadline[p]
      /\ v.nact = kk.nact[p] /\ v.late = kk.late \cap {p} /\ v.dl_miss = kk.dl_miss[p]
      /\ v.offset = T["offset"]
  BY DEF Life
<1>6. /\ v.status = "IDLE" <=> kk.status[p] = "IDLE"
      /\ v.status = IF kk.status[p] \in InJobs THEN "JOB" ELSE kk.status[p]
  BY DEF Life, InJobs
<1> HIDE DEF v, T
<1>7. Life(r, p) = ReleaseLife(v, p)
  <2>1. CASE kk.status[p] = "IDLE"
    <3>1. /\ r.status[p] = "READY" /\ r.dline[p] = v.adeadline
          /\ r.adeadline[p] = v.adeadline + period[p] /\ r.nact = kk.nact
      BY <1>1, <1>2, <1>5, <2>1 DEF Released, ReadyInEdf
    <3> QED BY <1>3, <1>4, <1>5, <1>6, <2>1, <3>1, LifeAs DEF ReleaseLife, InJobs
  <2>2. CASE kk.status[p] # "IDLE"
    <3>1. /\ r.status = kk.status /\ r.dline = kk.dline
          /\ r.adeadline = kk.adeadline /\ r.nact[p] = v.nact + 1
      BY <1>1, <1>2, <1>5, <2>2 DEF Released, Same, Fields
    <3> QED BY <1>3, <1>4, <1>5, <1>6, <2>2, <3>1, LifeAs DEF ReleaseLife
  <2> QED BY <2>1, <2>2
<1> QED BY <1>1, <1>4, <1>7, LivedIs DEF r, v

LEMMA LifeReads ==
  ASSUME NEW kk, NEW p
  PROVE  LET v == Life(kk, p)
         IN  /\ v.dline = kk.dline[p] /\ v.release = kk.release[p]
             /\ v.adeadline = kk.adeadline[p] /\ v.nact = kk.nact[p]
             /\ v.late = kk.late \cap {p} /\ v.dl_miss = kk.dl_miss[p]
             /\ v.deadline = Timers(kk, p)["deadline"]
             /\ v.endperiod = Timers(kk, p)["endperiod"]
             /\ v.offset = Timers(kk, p)["offset"]
             /\ v.status = IF kk.status[p] \in InJobs THEN "JOB" ELSE kk.status[p]
BY DEF Life

LEMMA TypedFields ==
  ASSUME NEW kk, Wellformed(kk), NEW p \in Edf
  PROVE  /\ p \in Pids /\ p \in Ranked /\ DOMAIN Timers(kk, p) = Handlers
         /\ kk.status \in [Pids -> Statuses] /\ kk.release \in [Ranked -> Int]
         /\ kk.dline \in [Ranked -> Int] /\ kk.adeadline \in [Edf -> Int]
         /\ kk.nact \in [Ranked -> Nat] /\ kk.dl_miss \in [Edf -> Nat]
         /\ kk.late \in SUBSET Sporadic /\ kk.status[p] \in Statuses
         /\ kk.nact[p] \in Nat /\ kk.adeadline[p] \in Int /\ kk.release[p] \in Int
         /\ kk.U \in Int /\ kk.wcet[p] \in Int
BY PidSets, TimersAt, KernelFields DEF Wellformed

LEMMA LivedTrans ==
  ASSUME NEW r, NEW m, NEW kk, NEW p, NEW v, NEW w, Lived(m, kk, p, w), Lived(r, m, p, v)
  PROVE  Lived(r, kk, p, v)
BY DEF Lived

LEMMA ActivateLives ==
  ASSUME NEW kk, NEW x, AllOK(kk, x, now), now \in Int, NEW p \in Edf, kk.status[p] = "SLEEP"
  PROVE  LET r == EDF_activate(kk, p)
         IN  r.U = kk.U /\ Lived(r, kk, p, ActivateLife(Life(kk, p), p, now))
<1> DEFINE u == now + offset[p]
           d == u + rdeadline[p]
           s == Status(kk, p, "IDLE")
           a == [s EXCEPT !.release[p] = u]
           b == [a EXCEPT !.adeadline[p] = d]
           c == Post(Unpost(b, "offset", p), "offset", p, u)
           r == EDF_activate(kk, p)
           T == Timers(kk, p)
           v == Life(kk, p)
           w == AwaitLife(v, p, u, v.offset)
<1>1. r = IF u > now THEN c ELSE EDF_release(b, p)  BY DEF EDF_activate
<1> HIDE DEF r
<1>2. Wellformed(kk) /\ u \in Int /\ d \in Int  BY PidSets DEF AllOK
<1>3. ActivateLife(v, p, now) = IF u > now THEN AwaitLife(v, p, u, {u}) ELSE ReleaseLife(w, p)
  BY DEF ActivateLife
<1> HIDE DEF u, d
<1>4. /\ Wellformed(s) /\ Others(s, kk, p) /\ Same(s, kk, {"status"})
      /\ s.status = [kk.status EXCEPT ![p] = "IDLE"]
  BY <1>2, PidSets, StatusIs, StatusNames
<1> HIDE DEF s
<1>5. /\ Wellformed(a) /\ Others(a, s, p) /\ Same(a, s, {"release"})
      /\ a.release = [s.release EXCEPT ![p] = u]
  BY <1>2, <1>4, PidSets, ReleaseIs
<1> HIDE DEF a
<1>6. /\ Wellformed(b) /\ Others(b, a, p) /\ Same(b, a, {"adeadline"})
      /\ b.adeadline = [a.adeadline EXCEPT ![p] = d]
  BY <1>2, <1>5, AdeadlineIs
<1> HIDE DEF b
<1>7. Others(b, kk, p) /\ Same(b, kk, {"status", "release", "adeadline"})
  BY <1>4, <1>5, <1>6, OthersTrans DEF Same
<1>8. /\ b.status[p] = "IDLE" /\ b.release[p] = u /\ b.adeadline[p] = d
      /\ b.edf = kk.edf /\ b.events = kk.events /\ b.nact = kk.nact /\ b.late = kk.late
      /\ b.dline = kk.dline /\ b.dl_miss = kk.dl_miss /\ b.U = kk.U
  BY <1>2, <1>4, <1>5, <1>6, <1>7, TypedFields DEF Same, Fields
<1>9. Timers(b, p) = T  BY <1>8, TimersSame
<1>14. Reads(v, kk, p, T)  BY LifeReads DEF Reads
<1>10. Life(b, p) = w
  <2> HIDE DEF v, T
  <2> QED BY <1>8, <1>9, <1>14, LifeAs DEF Reads, InJobs, AwaitLife, d
<1>11. Lived(b, kk, p, w)  BY <1>2, <1>6, <1>7, <1>10, LivedIs
<1>12. CASE u > now
  <2>1. /\ Wellformed(c) /\ Others(c, b, p) /\ Same(c, b, {"events"})
        /\ Timers(c, p) = [Timers(b, p) EXCEPT !["offset"] = {u}]
    BY <1>2, <1>6, PidSets, Reposting DEF Handlers, Addressed, Event
  <2>2. r = c  BY <1>1, <1>12
  <2> HIDE DEF c, T, w, v
  <2>3. /\ Timers(c, p)["offset"] = {u} /\ Timers(c, p)["deadline"] = T["deadline"]
        /\ Timers(c, p)["endperiod"] = T["endperiod"]
    BY <1>2, <1>9, <2>1, TypedFields DEF Handlers, T
  <2>4. /\ c.status = b.status /\ c.release = b.release /\ c.adeadline = b.adeadline
        /\ c.nact = kk.nact /\ c.late = kk.late /\ c.dline = kk.dline
        /\ c.dl_miss = kk.dl_miss /\ c.U = kk.U
    BY <1>8, <2>1 DEF Same, Fields
  <2>5. Life(c, p) = AwaitLife(v, p, u, {u})
    BY <1>8, <1>14, <2>3, <2>4, LifeAs DEF Reads, InJobs, AwaitLife, d
  <2>6. Others(c, kk, p)  BY <1>7, <2>1, OthersTrans
  <2> QED BY <1>2, <1>3, <1>12, <2>1, <2>2, <2>4, <2>5, <2>6, LivedIs DEF r, v
<1>13. CASE ~(u > now)
  <2>1. r = EDF_release(b, p) /\ ActivateLife(v, p, now) = ReleaseLife(w, p)  BY <1>1, <1>3, <1>13
  <2>2. p \notin Members(b.edf)  BY <1>8, PidSets DEF QueueOK, AllOK, TaskOK
  <2> QED BY <1>6, <1>8, <1>10, <1>11, <2>1, <2>2, ReleaseLives, LivedTrans DEF r
<1> QED BY <1>12, <1>13

\* The timer of the deadline is reset.
LEMMA DisarmLives ==
  ASSUME NEW kk, Wellformed(kk), NEW p \in Edf
  PROVE  LET r == Unpost(kk, "deadline", p)
             v == Life(kk, p)
         IN  /\ Wellformed(r) /\ Others(r, kk, p) /\ Same(r, kk, {"events"})
             /\ Timers(r, p)["deadline"] = {}
             /\ Timers(r, p)["endperiod"] = Timers(kk, p)["endperiod"]
             /\ Timers(r, p)["offset"] = Timers(kk, p)["offset"]
<1> DEFINE r == Unpost(kk, "deadline", p)
           T == Timers(kk, p)
<1>1. /\ Wellformed(r) /\ Others(r, kk, p) /\ Same(r, kk, {"events"})
      /\ Timers(r, p) = [T EXCEPT !["deadline"] = {}]
  BY PidSets, Unposting DEF Handlers
<1> HIDE DEF r
<1> HIDE DEF T
<1> QED BY <1>1, TimersAt DEF r, T, Handlers

LEMMA EndcycleLives ==
  ASSUME NEW kk, NEW p \in Edf, NEW t, AllOK(kk, p, t)
  PROVE  LET r == EDF_endcycle(kk, p)
         IN  r.U = kk.U /\ Lived(r, kk, p, EndcycleLife(Life(kk, p), p))
<1> DEFINE a == Unpost(kk, "deadline", p)
           n == kk.nact[p] - 1
           b == [kk EXCEPT !.nact[p] = n]
           r == EDF_endcycle(kk, p)
           v == Life(kk, p)
           T == Timers(kk, p)
<1>1. Wellformed(kk) /\ p \in Pids /\ p \in Ranked /\ p # Dummy  BY PidSets DEF AllOK
<1>2. kk.status[p] = "EXE" /\ p \notin Members(kk.edf)  BY <1>1, PidSets DEF AllOK, TaskOK, QueueOK
<1>3. Others(r, kk, p) /\ Wellformed(r)  BY EDF_endcycleIs DEF AllOK
<1>6. Reads(v, kk, p, T)  BY LifeReads DEF Reads
<1>4. CASE kk.nact[p] > 0
  <2>1. r = EDF_assign(b, p)  BY <1>4 DEF EDF_endcycle
  <2>2. n \in Nat  BY <1>1, <1>4, TypedFields
  <2> HIDE DEF n, r
  <2>3. /\ Wellformed(b) /\ Others(b, kk, p) /\ Same(b, kk, {"nact"})
        /\ b.nact = [kk.nact EXCEPT ![p] = n]
    BY <1>1, <2>2, NactIs
  <2> HIDE DEF b
  <2>4. b.edf = kk.edf /\ b.adeadline = kk.adeadline /\ b.dline = kk.dline  BY <2>3 DEF Same, Fields
  <2>5. /\ Same(r, b, {"dline", "adeadline", "edf"})
        /\ r.dline = [b.dline EXCEPT ![p] = b.adeadline[p]]
        /\ r.adeadline = [b.adeadline EXCEPT ![p] = b.adeadline[p] + period[p]]
    BY <1>2, <2>1, <2>3, <2>4, EDF_assignIs
  <2>6. /\ r.status = kk.status /\ r.events = kk.events /\ r.late = kk.late
        /\ r.release = kk.release /\ r.dl_miss = kk.dl_miss /\ r.U = kk.U /\ r.nact = b.nact
    BY <2>3, <2>5 DEF Same, Fields
  <2>7. /\ r.nact[p] = n /\ r.dline[p] = kk.adeadline[p]
        /\ r.adeadline[p] = kk.adeadline[p] + period[p]
    BY <1>1, <2>3, <2>4, <2>5, <2>6, TypedFields
  <2>8. Timers(r, p) = T  BY <2>6, TimersSame
  <2>9. Life(r, p) = LifeOf(v.status, v.adeadline, v.release, v.adeadline + period[p], n,
                            v.late, v.dl_miss, v.deadline, v.endperiod, v.offset)
    <3> HIDE DEF v, T
    <3> QED BY <1>6, <2>6, <2>7, <2>8, LifeAs DEF Reads
  <2>10. Life(r, p) = EndcycleLife(v, p)  BY <1>4, <2>9, LifeReads DEF EndcycleLife, n
  <2> QED BY <1>1, <1>3, <2>6, <2>10, LivedIs DEF r
<1>5. CASE kk.nact[p] = 0
  <2>1. r = IF p \in Sporadic THEN SporadicOver(a, p) ELSE Status(a, p, "IDLE")  BY <1>5 DEF EDF_endcycle
  <2> HIDE DEF r
  <2>2. /\ Wellformed(a) /\ Others(a, kk, p) /\ Same(a, kk, {"events"})
        /\ Timers(a, p)["deadline"] = {} /\ Timers(a, p)["endperiod"] = T["endperiod"]
        /\ Timers(a, p)["offset"] = T["offset"]
    BY <1>1, DisarmLives
  <2> HIDE DEF a, T
  <2>3. a.status = kk.status /\ a.late = kk.late  BY <2>2 DEF Same, Fields
  <2> DEFINE st == IF p \in Sporadic THEN IF p \in kk.late THEN "SLEEP" ELSE "WAIT" ELSE "IDLE"
  <2>4. /\ Same(r, a, {"status", "late"})
        /\ r.status[p] = st
        /\ r.late = IF p \in Sporadic THEN kk.late \ {p} ELSE kk.late
    <3>1. CASE p \in Sporadic
      <4>2. /\ Same(r, a, {"status", "late"}) /\ r.late = a.late \ {p}
            /\ r.status = [a.status EXCEPT ![p] = IF p \in a.late THEN "SLEEP" ELSE "WAIT"]
        BY <2>1, <2>2, <3>1, SporadicOverIs
      <4> QED BY <1>1, <2>3, <3>1, <4>2, TypedFields
    <3>2. CASE p \notin Sporadic
      <4>2. Same(r, a, {"status"}) /\ r.status = [a.status EXCEPT ![p] = "IDLE"]
        BY <1>1, <2>1, <2>2, <3>2, StatusIs, StatusNames
      <4> QED BY <1>1, <2>3, <3>2, <4>2, TypedFields DEF Same, Fields
    <3> QED BY <3>1, <3>2
  <2> HIDE DEF st
  <2>5. /\ r.events = a.events /\ r.release = kk.release /\ r.dl_miss = kk.dl_miss
        /\ r.U = kk.U /\ r.nact = kk.nact /\ r.dline = kk.dline /\ r.adeadline = kk.adeadline
    BY <2>2, <2>4 DEF Same, Fields
  <2>6. Timers(r, p) = Timers(a, p)  BY <2>5, TimersSame
  <2>9. st = IF p \in Sporadic THEN IF v.late # {} THEN "SLEEP" ELSE "WAIT" ELSE "IDLE"
    BY LifeReads DEF st
  <2>10. Life(r, p) = LifeOf(st, v.dline, v.release, v.adeadline, v.nact,
                             IF p \in Sporadic THEN {} ELSE v.late, v.dl_miss, {},
                             v.endperiod, v.offset)
    <3> DEFINE la == IF p \in Sporadic THEN {} ELSE v.late
    <3>1. r.late \cap {p} = la  BY <2>4, LifeReads
    <3>2. st = IF r.status[p] \in InJobs THEN "JOB" ELSE r.status[p]  BY <2>4 DEF st, InJobs
    <3> HIDE DEF v, la
    <3> QED BY <1>6, <2>2, <2>5, <2>6, <3>1, <3>2, LifeAs DEF la, Reads
  <2>11. Life(r, p) = EndcycleLife(v, p)  BY <1>5, <2>9, <2>10, LifeReads DEF EndcycleLife
  <2> QED BY <1>1, <1>3, <2>5, <2>11, LivedIs DEF r
<1> QED BY <1>1, <1>4, <1>5, TypedFields

LEMMA DisableLives ==
  ASSUME NEW kk, NEW x, NEW t, AllOK(kk, x, t), NEW p \in Periodic, kk.status[p] = "IDLE",
         ~Posted(kk, "offset", p)
  PROVE  LET r == EDF_disable(kk, p)
         IN  Lived(r, kk, p, DisableLife(Life(kk, p), p))
<1> DEFINE a == Unpost(kk, "deadline", p)
           b == [a EXCEPT !.nact[p] = 0]
           c == Unpost(b, "endperiod", p)
           r == EDF_disable(kk, p)
           T == Timers(kk, p)
           v == Life(kk, p)
<1>1. p \in Pids /\ p \in Ranked /\ p \in Edf /\ p \notin Sporadic /\ Wellformed(kk)
  BY PidSets, PidAssumption DEF AllOK, Edf
<1>2. r = IF kk.nact[p] = 0 THEN Status(a, p, "WAIT") ELSE Status(c, p, "SLEEP")  BY <1>1 DEF EDF_disable
<1>3. Reads(v, kk, p, T)  BY LifeReads DEF Reads
<1> HIDE DEF r
<1>4. /\ Wellformed(a) /\ Others(a, kk, p) /\ Same(a, kk, {"events"})
      /\ Timers(a, p)["deadline"] = {} /\ Timers(a, p)["endperiod"] = T["endperiod"]
      /\ Timers(a, p)["offset"] = T["offset"]
  BY <1>1, DisarmLives
<1> HIDE DEF a, T
<1>5. CASE kk.nact[p] = 0
  <2>1. /\ Wellformed(r) /\ Others(r, a, p) /\ Same(r, a, {"status"})
        /\ r.status = [a.status EXCEPT ![p] = "WAIT"]
    BY <1>1, <1>2, <1>4, <1>5, StatusIs, StatusNames
  <2>2. /\ r.events = a.events /\ a.status = kk.status /\ r.release = kk.release
        /\ r.dl_miss = kk.dl_miss /\ r.nact = kk.nact /\ r.dline = kk.dline
        /\ r.adeadline = kk.adeadline /\ r.late = kk.late
    BY <1>4, <2>1 DEF Same, Fields
  <2>3. Timers(r, p) = Timers(a, p) /\ r.status[p] = "WAIT"  BY <1>1, <2>1, <2>2, TimersSame, TypedFields
  <2> HIDE DEF v
  <2>5. Life(r, p) = DisableLife(v, p)
    BY <1>3, <1>4, <1>5, <2>2, <2>3, LifeAs DEF DisableLife, Reads, InJobs
  <2> QED BY <1>1, <1>4, <2>1, <2>5, OthersTrans, LivedIs DEF r, v
<1>6. CASE kk.nact[p] # 0
  <2>1. /\ Wellformed(b) /\ Others(b, a, p) /\ Same(b, a, {"nact"})
        /\ b.nact = [a.nact EXCEPT ![p] = 0]
    BY <1>1, <1>4, NactIs
  <2> HIDE DEF b
  <2>2. /\ Wellformed(c) /\ Others(c, b, p) /\ Same(c, b, {"events"})
        /\ Timers(c, p) = [Timers(b, p) EXCEPT !["endperiod"] = {}]
    <3>1. "endperiod" \in Handlers  BY DEF Handlers
    <3> QED BY <1>1, <2>1, <3>1, Unposting
  <2> HIDE DEF c
  <2>3. /\ Wellformed(r) /\ Others(r, c, p) /\ Same(r, c, {"status"})
        /\ r.status = [c.status EXCEPT ![p] = "SLEEP"]
    BY <1>1, <1>2, <1>6, <2>2, StatusIs, StatusNames
  <2>4. /\ r.events = c.events /\ b.events = a.events /\ c.status = kk.status
        /\ r.release = kk.release /\ r.dl_miss = kk.dl_miss /\ r.dline = kk.dline
        /\ r.adeadline = kk.adeadline /\ r.late = kk.late /\ r.nact = b.nact
        /\ a.nact = kk.nact
    BY <1>4, <2>1, <2>2, <2>3 DEF Same, Fields
  <2>5. /\ Timers(r, p) = Timers(c, p) /\ Timers(b, p) = Timers(a, p)
        /\ r.status[p] = "SLEEP" /\ r.nact[p] = 0
    BY <1>1, <2>1, <2>3, <2>4, TimersSame, TypedFields
  <2>6. /\ Timers(r, p)["deadline"] = {} /\ Timers(r, p)["endperiod"] = {}
        /\ Timers(r, p)["offset"] = T["offset"]
    BY <1>1, <1>4, <2>1, <2>2, <2>5, TypedFields DEF Handlers
  <2> HIDE DEF v
  <2>8. Life(r, p) = DisableLife(v, p)
    BY <1>3, <1>6, <2>4, <2>5, <2>6, LifeAs DEF DisableLife, Reads, InJobs
  <2>9. Others(r, kk, p)  BY <1>4, <2>1, <2>2, <2>3, OthersTrans
  <2> QED BY <1>1, <2>3, <2>8, <2>9, LivedIs DEF r, v
<1> QED BY <1>5, <1>6

LEMMA EndLives ==
  ASSUME NEW kk, NEW p \in Edf, NEW t, AllOK(kk, p, t)
  PROVE  LET r == EDF_end(kk, p)
         IN  /\ r.U = IF p \in kk.late THEN kk.U - Bandwidth(p, kk.wcet[p]) ELSE kk.U
             /\ Lived(r, kk, p, EndLife(Life(kk, p), p))
<1> DEFINE a == Unpost(kk, "deadline", p)
           r == EDF_end(kk, p)
           T == Timers(kk, p)
           v == Life(kk, p)
<1>1. p \in Pids /\ Wellformed(kk)  BY PidSets DEF AllOK
<1>2. r = IF p \in kk.late THEN EDF_free(kk, p) ELSE Status(a, p, "ZOMBIE")  BY DEF EDF_end
<1>3. Reads(v, kk, p, T)  BY LifeReads DEF Reads
<1>4. p \in kk.late <=> v.late # {}  BY <1>3 DEF Reads
<1> HIDE DEF r
<1>5. /\ Wellformed(a) /\ Others(a, kk, p) /\ Same(a, kk, {"events"})
      /\ Timers(a, p)["deadline"] = {} /\ Timers(a, p)["endperiod"] = T["endperiod"]
      /\ Timers(a, p)["offset"] = T["offset"]
  BY <1>1, DisarmLives
<1> HIDE DEF a, T
<1>6. CASE p \in kk.late
  <2>1. /\ Wellformed(r) /\ Others(r, kk, p) /\ Same(r, kk, {"status", "U"})
        /\ r.status = [kk.status EXCEPT ![p] = "FREE"]
        /\ r.U = kk.U - Bandwidth(p, kk.wcet[p])
    BY <1>1, <1>2, <1>6, EDF_freeIs
  <2>2. /\ r.events = kk.events /\ r.release = kk.release
        /\ r.dl_miss = kk.dl_miss /\ r.nact = kk.nact /\ r.dline = kk.dline
        /\ r.adeadline = kk.adeadline /\ r.late = kk.late
    BY <2>1 DEF Same, Fields
  <2>3. Timers(r, p) = T /\ r.status[p] = "FREE"  BY <1>1, <2>1, <2>2, TimersSame, TypedFields DEF T
  <2> HIDE DEF v
  <2>5. Life(r, p) = EndLife(v, p)  BY <1>3, <1>4, <1>6, <2>2, <2>3, LifeAs DEF EndLife, Reads, InJobs
  <2> QED BY <1>1, <1>6, <2>1, <2>5, LivedIs DEF r, v
<1>7. CASE p \notin kk.late
  <2>1. /\ Wellformed(r) /\ Others(r, a, p) /\ Same(r, a, {"status"})
        /\ r.status = [a.status EXCEPT ![p] = "ZOMBIE"]
    BY <1>1, <1>2, <1>5, <1>7, StatusIs, StatusNames
  <2>2. /\ r.events = a.events /\ a.status = kk.status /\ r.release = kk.release
        /\ r.dl_miss = kk.dl_miss /\ r.nact = kk.nact /\ r.dline = kk.dline
        /\ r.adeadline = kk.adeadline /\ r.late = kk.late /\ r.U = kk.U
    BY <1>5, <2>1 DEF Same, Fields
  <2>3. Timers(r, p) = Timers(a, p) /\ r.status[p] = "ZOMBIE"
    BY <1>1, <2>1, <2>2, TimersSame, TypedFields
  <2>4. Life(r, p) = LifeOf("ZOMBIE", kk.dline[p], kk.release[p], kk.adeadline[p], kk.nact[p],
                            kk.late \cap {p}, kk.dl_miss[p], {}, T["endperiod"], T["offset"])
    BY <1>5, <2>2, <2>3, LifeAs DEF InJobs
  <2> HIDE DEF v
  <2>5. Life(r, p) = EndLife(v, p)  BY <1>3, <1>4, <1>7, <2>4 DEF EndLife, Reads
  <2>6. Others(r, kk, p)  BY <1>5, <2>1, OthersTrans
  <2> QED BY <1>1, <1>7, <2>1, <2>2, <2>5, <2>6, LivedIs DEF r, v
<1> QED BY <1>6, <1>7

\* The interrupts: of kk, the first event is served.
LEMMA DeadlineLives ==
  ASSUME NEW kk, NEW x, NEW t, AllOK(kk, x, t), kk.events # <<>>,
         kk.events[1].handler = "deadline"
  PROVE  LET p == kk.events[1].pid
             r == EDF_timer_deadline([kk EXCEPT !.events = Tail(@)], p)
         IN  /\ p \in Edf /\ r.U = kk.U /\ Lived(r, kk, p, DeadlineLife(Life(kk, p)))
             /\ Life(kk, p).deadline = {kk.events[1].time}
<1> DEFINE e == kk.events[1]
           p == e.pid
           m == [kk EXCEPT !.events = Tail(@)]
           r == EDF_timer_deadline(m, p)
           T == Timers(kk, p)
           v == Life(kk, p)
<1>1. /\ Wellformed(m) /\ Others(m, kk, p) /\ Same(m, kk, {"events"})
      /\ Addressed(e) /\ Timers(m, p) = [T EXCEPT !["deadline"] = {}]
      /\ T["deadline"] = {e.time} /\ Wellformed(kk)
  BY Firing DEF AllOK
<1>2. p \in Edf  BY <1>1 DEF Addressed
<1>3. Reads(v, kk, p, T)  BY LifeReads DEF Reads
<1> HIDE DEF e, m
<1>4. /\ Wellformed(r) /\ Others(r, m, p) /\ Same(r, m, {"dl_miss"})
      /\ r.dl_miss = [m.dl_miss EXCEPT ![p] = m.dl_miss[p] + 1]
  BY <1>1, <1>2, EDF_timer_deadlineIs
<1> HIDE DEF r
<1>5. /\ r.events = m.events /\ r.status = kk.status /\ r.release = kk.release
      /\ m.dl_miss = kk.dl_miss /\ r.nact = kk.nact /\ r.dline = kk.dline
      /\ r.adeadline = kk.adeadline /\ r.late = kk.late /\ r.U = kk.U
  BY <1>1, <1>4 DEF Same, Fields
<1>6. Timers(r, p) = Timers(m, p) /\ r.dl_miss[p] = kk.dl_miss[p] + 1 /\ DOMAIN T = Handlers
  BY <1>1, <1>2, <1>4, <1>5, TimersSame, TypedFields
<1>7. Others(r, kk, p)  BY <1>1, <1>4, OthersTrans
<1> HIDE DEF T, v
<1>8. /\ Timers(r, p)["deadline"] = {} /\ Timers(r, p)["endperiod"] = T["endperiod"]
      /\ Timers(r, p)["offset"] = T["offset"]
  BY <1>1, <1>6 DEF Handlers
<1>10. Life(r, p) = DeadlineLife(v)  BY <1>3, <1>5, <1>6, <1>8, LifeAs
                                        DEF DeadlineLife, Reads
<1> QED BY <1>1, <1>2, <1>3, <1>4, <1>5, <1>7, <1>10, LivedIs DEF r, v, m, e, Reads

LEMMA OffsetLives ==
  ASSUME NEW kk, NEW x, NEW t, AllOK(kk, x, t), kk.events # <<>>,
         kk.events[1].handler = "offset"
  PROVE  LET p == kk.events[1].pid
             r == EDF_timer_offset([kk EXCEPT !.events = Tail(@)], p)
         IN  /\ p \in Edf /\ r.U = kk.U /\ Lived(r, kk, p, OffsetLife(Life(kk, p), p))
             /\ kk.status[p] = "IDLE" /\ kk.events[1].time = kk.release[p]
<1> DEFINE e == kk.events[1]
           p == e.pid
           m == [kk EXCEPT !.events = Tail(@)]
           r == EDF_timer_offset(m, p)
           T == Timers(kk, p)
           v == Life(kk, p)
           w == BegunLife(v)
<1>1. /\ Wellformed(m) /\ Others(m, kk, p) /\ Same(m, kk, {"events"})
      /\ Addressed(e) /\ Timers(m, p) = [T EXCEPT !["offset"] = {}]
      /\ T["offset"] = {e.time} /\ Wellformed(kk)
  BY Firing DEF AllOK
<1>2. p \in Edf  BY <1>1 DEF Addressed
<1>3. Reads(v, kk, p, T)  BY LifeReads DEF Reads
<1> HIDE DEF e, m
<1>4. EdfTimersOK(kk, p) /\ QueueOK(kk, x, p) /\ ReleaseOK(kk, t, p) /\ DOMAIN T = Handlers
  BY <1>2, PidSets, TimersAt DEF AllOK, TaskOK
<1>5. kk.status[p] = "IDLE" /\ p \notin Members(kk.edf) /\ e.time = kk.release[p]
  BY <1>1, <1>2, <1>4, PidSets DEF QueueOK, ReleaseOK, ReleaseTimers, EdfTimersOK
<1>6. /\ m.status = kk.status /\ m.release = kk.release /\ m.edf = kk.edf
      /\ m.dl_miss = kk.dl_miss /\ m.nact = kk.nact /\ m.dline = kk.dline
      /\ m.adeadline = kk.adeadline /\ m.late = kk.late /\ m.U = kk.U
  BY <1>1 DEF Same, Fields
<1> HIDE DEF T, v
<1>9. Life(m, p) = w  BY <1>1, <1>3, <1>4, <1>6, LifeAs DEF Reads, Handlers, BegunLife
<1>11. r.U = m.U /\ Lived(r, m, p, ReleaseLife(w, p))
  <2>1. r = EDF_release(m, p)  BY DEF EDF_timer_offset
  <2> HIDE DEF r, w
  <2> QED BY <1>1, <1>2, <1>5, <1>6, <1>9, <2>1, ReleaseLives
<1> HIDE DEF r
<1>12. Lived(r, kk, p, ReleaseLife(w, p)) /\ ReleaseLife(w, p) = OffsetLife(v, p)
  BY <1>1, <1>2, <1>9, <1>11, LivedIs, LivedTrans DEF OffsetLife
<1> QED BY <1>2, <1>5, <1>6, <1>11, <1>12 DEF r, v, m, e

LEMMA EndperiodLives ==
  ASSUME NEW kk, NEW x, NEW t \in Int, AllOK(kk, x, t), kk.events # <<>>,
         kk.events[1].handler = "endperiod"
  PROVE  LET p == kk.events[1].pid
             r == EDF_timer_endperiod([kk EXCEPT !.events = Tail(@)], p)
         IN  /\ p \in Edf /\ kk.events[1].time = kk.release[p]
             /\ Life(kk, p).endperiod # {}
             /\ r.U = IF kk.status[p] = "ZOMBIE" THEN kk.U - Bandwidth(p, kk.wcet[p])
                      ELSE kk.U
             /\ Lived(r, kk, p, EndperiodLife(Life(kk, p), p))
<1> DEFINE e == kk.events[1]
           p == e.pid
           m == [kk EXCEPT !.events = Tail(@)]
           r == EDF_timer_endperiod(m, p)
           T == Timers(kk, p)
           v == Life(kk, p)
           w == OverLife(v)
<1>1. /\ Wellformed(m) /\ Others(m, kk, p) /\ Same(m, kk, {"events"})
      /\ Addressed(e) /\ Timers(m, p) = [T EXCEPT !["endperiod"] = {}]
      /\ T["endperiod"] = {e.time} /\ Wellformed(kk)
  BY Firing DEF AllOK
<1>2. p \in Edf  BY <1>1 DEF Addressed
<1>3. Reads(v, kk, p, T)  BY LifeReads DEF Reads
<1>4. /\ v.status = "ZOMBIE" <=> kk.status[p] = "ZOMBIE"
      /\ v.status = "WAIT" <=> kk.status[p] = "WAIT"
      /\ v.status = "IDLE" <=> kk.status[p] = "IDLE"
  BY <1>3 DEF InJobs, Reads
<1> HIDE DEF e, m
<1>5. QueueOK(kk, x, p) /\ ReleaseOK(kk, t, p) /\ DOMAIN T = Handlers /\ p \in Pids
      /\ (p \in Periodic \/ p \in Sporadic)
  BY <1>2, PidSets, TimersAt DEF AllOK, TaskOK, Edf
<1>6. e.time = kk.release[p] /\ (kk.status[p] = "IDLE" => p \notin Members(kk.edf))
  BY <1>1, <1>2, <1>5, PidSets DEF QueueOK, ReleaseOK, ReleaseTimers
<1>7. /\ m.status = kk.status /\ m.release = kk.release /\ m.edf = kk.edf /\ m.wcet = kk.wcet
      /\ m.dl_miss = kk.dl_miss /\ m.nact = kk.nact /\ m.dline = kk.dline
      /\ m.adeadline = kk.adeadline /\ m.late = kk.late /\ m.U = kk.U
  BY <1>1 DEF Same, Fields
<1>8. r = CASE kk.status[p] = "ZOMBIE" -> EDF_free(m, p)
            [] kk.status[p] = "WAIT" -> Status(m, p, "SLEEP")
            [] OTHER -> IF p \in Sporadic THEN [m EXCEPT !.late = @ \cup {p}]
                        ELSE EDF_release(m, p)
  BY <1>7 DEF EDF_timer_endperiod
<1> HIDE DEF T, v, r
<1>9. /\ Timers(m, p)["endperiod"] = {} /\ Timers(m, p)["offset"] = T["offset"]
      /\ Timers(m, p)["deadline"] = T["deadline"]
  BY <1>1, <1>5 DEF Handlers
<1>14. v.endperiod # {}  BY <1>1, <1>3 DEF Reads
<1>10. CASE kk.status[p] = "ZOMBIE"
  <2>1. /\ Wellformed(r) /\ Others(r, m, p) /\ Same(r, m, {"status", "U"})
        /\ r.status = [m.status EXCEPT ![p] = "FREE"]
        /\ r.U = m.U - Bandwidth(p, m.wcet[p])
    <3>1. r = EDF_free(m, p)  BY <1>8, <1>10
    <3> QED BY <1>1, <1>2, <3>1, EDF_freeIs
  <2>2. /\ r.events = m.events /\ r.release = kk.release
        /\ r.dl_miss = kk.dl_miss /\ r.nact = kk.nact /\ r.dline = kk.dline
        /\ r.adeadline = kk.adeadline /\ r.late = kk.late
    BY <1>7, <2>1 DEF Same, Fields
  <2>3. Timers(r, p) = Timers(m, p) /\ r.status[p] = "FREE"
    BY <1>1, <1>2, <2>1, <2>2, TimersSame, TypedFields
  <2>4. Life(r, p) = LifeOf("FREE", kk.dline[p], kk.release[p], kk.adeadline[p], kk.nact[p],
                            kk.late \cap {p}, kk.dl_miss[p], T["deadline"], {}, T["offset"])
    BY <1>9, <2>2, <2>3, LifeAs DEF InJobs
  <2>5. Life(r, p) = EndperiodLife(v, p)  BY <1>3, <1>4, <1>10, <2>4 DEF EndperiodLife, Reads
  <2>6. Others(r, kk, p)  BY <1>1, <2>1, OthersTrans
  <2>7. Lived(r, kk, p, EndperiodLife(v, p))  BY <1>1, <1>2, <2>1, <2>5, <2>6, LivedIs
  <2>8. r.U = kk.U - Bandwidth(p, kk.wcet[p])  BY <1>7, <2>1
  <2> QED BY <1>2, <1>6, <1>10, <1>14, <2>7, <2>8 DEF r, v, m, e
<1>11. CASE kk.status[p] = "WAIT"
  <2>1. /\ Wellformed(r) /\ Others(r, m, p) /\ Same(r, m, {"status"})
        /\ r.status = [m.status EXCEPT ![p] = "SLEEP"]
    BY <1>1, <1>5, <1>8, <1>11, StatusIs, StatusNames
  <2>2. /\ r.events = m.events /\ r.release = kk.release
        /\ r.dl_miss = kk.dl_miss /\ r.nact = kk.nact /\ r.dline = kk.dline
        /\ r.adeadline = kk.adeadline /\ r.late = kk.late /\ r.U = kk.U
    BY <1>7, <2>1 DEF Same, Fields
  <2>3. Timers(r, p) = Timers(m, p) /\ r.status[p] = "SLEEP"
    BY <1>1, <1>2, <2>1, <2>2, TimersSame, TypedFields
  <2>4. Life(r, p) = LifeOf("SLEEP", kk.dline[p], kk.release[p], kk.adeadline[p], kk.nact[p],
                            kk.late \cap {p}, kk.dl_miss[p], T["deadline"], {}, T["offset"])
    BY <1>9, <2>2, <2>3, LifeAs DEF InJobs
  <2>5. Life(r, p) = EndperiodLife(v, p)  BY <1>3, <1>4, <1>11, <2>4 DEF EndperiodLife, Reads
  <2>6. Others(r, kk, p)  BY <1>1, <2>1, OthersTrans
  <2>7. Lived(r, kk, p, EndperiodLife(v, p))  BY <1>1, <1>2, <2>1, <2>5, <2>6, LivedIs
  <2> QED BY <1>2, <1>6, <1>11, <1>14, <2>2, <2>7 DEF r, v, m, e
<1>12. CASE kk.status[p] \notin {"ZOMBIE", "WAIT"} /\ p \in Sporadic
  <2>1. /\ Wellformed(r) /\ Others(r, m, p) /\ Same(r, m, {"late"})
        /\ r.late = m.late \cup {p}
    BY <1>1, <1>8, <1>12, LateIs
  <2>2. /\ r.events = m.events /\ r.release = kk.release
        /\ r.dl_miss = kk.dl_miss /\ r.nact = kk.nact /\ r.dline = kk.dline
        /\ r.adeadline = kk.adeadline /\ r.status = kk.status /\ r.U = kk.U
    BY <1>7, <2>1 DEF Same, Fields
  <2>3. Timers(r, p) = Timers(m, p) /\ r.late \cap {p} = {p}  BY <2>1, <2>2, TimersSame
  <2>4. Life(r, p) = LifeOf(v.status, kk.dline[p], kk.release[p], kk.adeadline[p], kk.nact[p],
                            {p}, kk.dl_miss[p], T["deadline"], {}, T["offset"])
    BY <1>3, <1>9, <2>2, <2>3, LifeAs DEF Reads
  <2>5. Life(r, p) = EndperiodLife(v, p)  BY <1>3, <1>4, <1>12, <2>4 DEF EndperiodLife, Reads
  <2>6. Others(r, kk, p)  BY <1>1, <2>1, OthersTrans
  <2>7. Lived(r, kk, p, EndperiodLife(v, p))  BY <1>1, <1>2, <2>1, <2>5, <2>6, LivedIs
  <2> QED BY <1>2, <1>6, <1>12, <1>14, <2>2, <2>7 DEF r, v, m, e
<1>13. CASE kk.status[p] \notin {"ZOMBIE", "WAIT"} /\ p \notin Sporadic
  <2>2. Life(m, p) = w  BY <1>3, <1>7, <1>9, LifeAs DEF Reads, OverLife
  <2>3. Lived(m, kk, p, w)  BY <1>1, <1>2, <2>2, LivedIs
  <2>4. r.U = m.U /\ Lived(r, m, p, ReleaseLife(w, p))
    <3>1. r = EDF_release(m, p)  BY <1>8, <1>13
    <3> HIDE DEF w
    <3> QED BY <1>1, <1>2, <1>6, <1>7, <2>2, <3>1, ReleaseLives
  <2>5. EndperiodLife(v, p) = ReleaseLife(w, p)  BY <1>4, <1>13 DEF EndperiodLife
  <2>6. Lived(r, kk, p, EndperiodLife(v, p)) /\ r.U = kk.U
    BY <1>7, <2>3, <2>4, <2>5, LivedTrans
  <2> QED BY <1>2, <1>6, <1>13, <1>14, <2>6 DEF r, v, m, e
<1> QED BY <1>10, <1>11, <1>12, <1>13

LEMMA CreateLives ==
  ASSUME NEW kk, Wellformed(kk), NEW p \in Edf, MAX_BANDWIDTH - kk.U > Bandwidth(p, cost[p])
  PROVE  LET r == EDF_create(kk, p)
         IN  /\ r.U = kk.U + Bandwidth(p, cost[p])
             /\ Lived(r, kk, p, CreateLife(Life(kk, p)))
<1> DEFINE r == EDF_create(kk, p)
           T == Timers(kk, p)
           v == Life(kk, p)
<1>1. /\ Wellformed(r) /\ Others(r, kk, p)
      /\ Same(r, kk, {"status", "U", "late", "nact", "dl_miss", "nopreempt", "wcet",
                      "avail", "capped"})
      /\ r.status = [kk.status EXCEPT ![p] = "SLEEP"]
      /\ r.late = kk.late \ {p} /\ r.U = kk.U + Bandwidth(p, cost[p])
      /\ r.nact = [kk.nact EXCEPT ![p] = 0] /\ r.dl_miss = [kk.dl_miss EXCEPT ![p] = 0]
  BY EDF_createIs
<1>2. Reads(v, kk, p, T)  BY LifeReads DEF Reads
<1> HIDE DEF r
<1>3. /\ r.events = kk.events /\ r.release = kk.release /\ r.dline = kk.dline
      /\ r.adeadline = kk.adeadline
  BY <1>1 DEF Same, Fields
<1>4. /\ Timers(r, p) = T /\ r.status[p] = "SLEEP" /\ r.nact[p] = 0 /\ r.dl_miss[p] = 0
      /\ r.late \cap {p} = {}
  BY <1>1, <1>3, TimersSame, TypedFields
<1> HIDE DEF T, v
<1>6. Life(r, p) = CreateLife(v)  BY <1>2, <1>3, <1>4, LifeAs DEF CreateLife, Reads, InJobs
<1> QED BY <1>1, <1>6, LivedIs DEF r, v

\* A task of the EDF level that sleeps within its job, and wakes up.
LEMMA InJobLives ==
  ASSUME NEW r, Wellformed(r), NEW kk, Wellformed(kk), NEW p, Others(r, kk, p),
         Same(r, kk, {"cbs_dline", "avail", "dline", "edf", "rr", "status", "resched",
                      "events"}),
         p \in Edf => r.dline = kk.dline,
         r.status[p] \in InJobs, kk.status[p] \in InJobs,
         \A h \in Handlers \ {"delay"} : Timers(r, p)[h] = Timers(kk, p)[h]
  PROVE  Alive(r, kk)
<1>1. CASE p \in Edf  BY <1>1, LifeEqual, LifeOthers DEF Alive, Handlers, Same, Fields
<1>2. CASE p \notin Edf  BY <1>2, AliveOthers
<1> QED BY <1>1, <1>2

LEMMA DelayAlive ==
  ASSUME NEW kk, NEW x, NEW t \in Int, AllOK(kk, x, t), kk.events # <<>>,
         kk.events[1].handler = "delay", now \in Int
  PROVE  Alive(delay_timer([kk EXCEPT !.events = Tail(@)], kk.events[1].pid), kk)
<1> DEFINE p == kk.events[1].pid
           r == delay_timer([kk EXCEPT !.events = Tail(@)], p)
<1>1. /\ p \in Pids /\ AllOK(r, x, t) /\ Others(r, kk, p)
      /\ kk.status[p] = "WAIT_NANOSLEEP" /\ r.status[p] = "READY"
      /\ Same(r, kk, {"cbs_dline", "avail", "dline", "edf", "rr", "status", "resched",
                      "events"})
      /\ p \in Edf => r.dline = kk.dline
      /\ \A h \in Handlers \ {"delay"} : Timers(r, p)[h] = Timers(kk, p)[h]
  BY delayIs
<1> HIDE DEF r, p
<1>3. Alive(r, kk)  BY <1>1, InJobLives DEF InJobs, AllOK
<1> QED BY <1>3 DEF r, p

LEMMA LivedAlive ==
  ASSUME NEW r, NEW m, NEW kk, NEW p \in Edf, NEW v, Alive(r, m), Lived(m, kk, p, v)
  PROVE  Lived(r, kk, p, v) /\ r.U = m.U
BY DEF Alive, Lived

LEMMA AliveLived ==
  ASSUME NEW r, NEW m, NEW kk, NEW p \in Edf, NEW v, Lived(r, m, p, v), Alive(m, kk)
  PROVE  Lived(r, kk, p, v) /\ Life(m, p) = Life(kk, p) /\ m.U = kk.U
BY DEF Alive, Lived

------------------------------
(* What each action does to the lives of the EDF tasks. *)

LEMMA task_createLives ==
  ASSUME IInv, NEW x \in Pids, NEW p \in Ranked \cup RrTasks, task_create(x, p)
  PROVE  \/ Alive(k', k)
         \/ /\ p \in Edf /\ k'.U = k.U + Bandwidth(p, cost[p])
            /\ Lived(k', k, p, CreateLife(Life(k, p)))
<1> DEFINE a == public_create(k, p)
           b == Unfreeze(a, p)
           v == CreateLife(Life(k, p))
<1>1. k.status[p] = "FREE" /\ Return(b) /\ Wellformed(k) /\ p \in Pids
  BY PidSets DEF task_create, Running, IInv, AllOK
<1>2. AllOK(a, k.exec_shadow, now)  BY <1>1, createIs DEF IInv
<1>3. \/ Alive(a, k)
      \/ p \in Edf /\ a.U = k.U + Bandwidth(p, cost[p]) /\ Lived(a, k, p, v)
  <2>1. CASE p \in Edf
    <3>1. a = EDF_create(k, p)  BY <2>1, PidSets DEF public_create
    <3>2. CASE MAX_BANDWIDTH - k.U > Bandwidth(p, cost[p])  BY <1>1, <2>1, <3>1, <3>2, CreateLives
    <3>3. CASE ~(MAX_BANDWIDTH - k.U > Bandwidth(p, cost[p]))  BY <3>1, <3>3 DEF Alive, EDF_create
    <3> QED BY <3>2, <3>3
  <2>2. CASE p \in Soft  BY <1>1, <2>2, PidSets, CBS_createIs, AliveOthers DEF public_create
  <2>3. CASE p \in RrTasks  BY <1>1, <2>3, PidSets, RR_createIs, AliveOthers DEF public_create
  <2> QED BY <2>1, <2>2, <2>3 DEF Ranked
<1> HIDE DEF a
<1>4. Wellformed(b) /\ Likewise(b, a) /\ Same(b, a, {"frozen", "frozen_activations"})
  BY <1>1, <1>2, UnfreezeIs DEF AllOK
<1> HIDE DEF b
<1>7. Alive(k', a)  BY <1>1, <1>4, AliveLikewise, AliveReturn, AliveTrans DEF Same, Fields
<1> HIDE DEF v
<1>8. CASE Alive(a, k)  BY <1>7, <1>8, AliveTrans
<1>9. CASE p \in Edf /\ a.U = k.U + Bandwidth(p, cost[p]) /\ Lived(a, k, p, v)
  BY <1>7, <1>9, LivedAlive DEF v
<1> QED BY <1>3, <1>8, <1>9

LEMMA task_activateLives ==
  ASSUME IInv, NEW x \in Pids, NEW p \in Ranked \cup RrTasks, task_activate(x, p)
  PROVE  IF p \in Edf /\ k.status[p] = "SLEEP"
           THEN k'.U = k.U /\ Lived(k', k, p, ActivateLife(Life(k, p), p, now))
           ELSE Alive(k', k)
<1> DEFINE a == public_activate(k, p)
           s == scheduler(a)
           v == ActivateLife(Life(k, p), p, now)
<1>1. /\ k.status[p] # "FREE" /\ Return(s) /\ Wellformed(k) /\ now \in Int
      /\ AllOK(k, k.exec_shadow, now) /\ k.exec_shadow \in Pids
  BY DEF task_activate, IInv, AllOK
<1>2. AllOK(a, k.exec_shadow, now) /\ a.exec_shadow = k.exec_shadow  BY <1>1, activateIs
<1>3. IF p \in Edf /\ k.status[p] = "SLEEP"
        THEN a.U = k.U /\ Lived(a, k, p, v) ELSE Alive(a, k)
  <2>1. CASE p \in Edf
    <3>1. a = EDF_activate(k, p)  BY <2>1, PidSets DEF public_activate
    <3>2. CASE k.status[p] = "SLEEP"  BY <1>1, <2>1, <3>1, <3>2, ActivateLives
    <3>3. CASE k.status[p] # "SLEEP"  BY <3>1, <3>3 DEF Alive, EDF_activate
    <3> QED BY <3>2, <3>3
  <2>2. CASE p \in Soft  BY <1>1, <2>2, PidSets, CBS_activateIs, AliveOthers DEF AllOK, public_activate
  <2>3. CASE p \in RrTasks  BY <1>1, <2>3, PidSets, RR_activateIs, AliveOthers DEF AllOK, public_activate
  <2> QED BY <2>1, <2>2, <2>3 DEF Ranked
<1> HIDE DEF a
<1>4. Scheduled(s, a) /\ Settled(s, now)  BY <1>1, <1>2, schedulerIs
<1> HIDE DEF s
<1>6. Alive(k', a)  BY <1>1, <1>4, AliveScheduled, AliveReturn, AliveTrans
                       DEF Settled, AllOK
<1> HIDE DEF v
<1>7. CASE p \in Edf /\ k.status[p] = "SLEEP"  BY <1>3, <1>6, <1>7, LivedAlive DEF v
<1>8. CASE ~(p \in Edf /\ k.status[p] = "SLEEP")  BY <1>3, <1>6, <1>8, AliveTrans
<1> QED BY <1>7, <1>8

\* What the activations of a task that are blocked do.
LEMMA FreezesAlive ==
  ASSUME IInv, NEW x \in Pids, NEW p \in Ranked \cup RrTasks, Freezes(x, p)
  PROVE  Alive(k', k)
<1>1. PICK r \in Kernels : Return(r) /\ Same(r, k, {"frozen", "frozen_activations"})  BY HeldIs
<1>3. Wellformed(r) /\ Likewise(r, k) /\ r.U = k.U  BY <1>1, AsideIs DEF IInv, AllOK, Same, Fields, Aside
<1> QED BY <1>1, <1>3, AliveLikewise, AliveReturn, AliveTrans

LEMMA task_disableLives ==
  ASSUME ~DisableAnyJob, IInv, NEW x \in Pids, NEW p \in Ranked \cup RrTasks,
         task_disable(x, p)
  PROVE  IF p \in Periodic
           THEN k'.U = k.U /\ Lived(k', k, p, DisableLife(Life(k, p), p))
           ELSE Alive(k', k)
<1> DEFINE a == public_message(k, p, "disable")
           v == DisableLife(Life(k, p), p)
<1>1. /\ p \in Periodic \cup SoftPeriodic /\ k.status[p] = "IDLE"
      /\ ~Posted(k, "offset", p) /\ Return(a) /\ Wellformed(k)
      /\ AllOK(k, k.exec_shadow, now)
  BY DEF task_disable, Running, IInv, AllOK
<1>2. CASE p \in Periodic
  <2> DEFINE m == EDF_disable(k, p)
  <2>1. p \in Edf /\ p \in Pids  BY <1>2, PidSets DEF Edf
  <2>2. a = Recharge(m, p)  BY <2>1, PidSets DEF public_message, EDF_message
  <2>3. AllOK(m, k.exec_shadow, now) /\ Same(m, k, {"events", "nact", "status"})
    BY <1>1, <1>2, EDF_disableIs
  <2>4. Lived(m, k, p, v)  BY <1>1, <1>2, DisableLives
  <2> HIDE DEF m, a, v
  <2>5. Wellformed(a) /\ Likewise(a, m) /\ Same(a, m, {"avail", "capped"})
    BY <2>1, <2>2, <2>3, RechargeIs DEF AllOK
  <2>6. a.U = m.U /\ m.U = k.U  BY <2>3, <2>5 DEF Same, Fields
  <2>8. Alive(k', m)  BY <1>1, <2>5, <2>6, AliveLikewise, AliveReturn, AliveTrans
  <2> QED BY <1>2, <2>1, <2>4, <2>6, <2>8, LivedAlive DEF v
<1>3. CASE p \notin Periodic
  <2> DEFINE P == k.asleep \cup {p}
  <2>1. p \in Soft /\ p \in Pids /\ p \in SoftPeriodic  BY <1>1, <1>3, CbsAssumption, PidSets
  <2>2. a = [k EXCEPT !.asleep = P]  BY <2>1, PidSets DEF public_message, CBS_message
  <2>3. P \in SUBSET Pids  BY <1>1, <2>1, KernelFields DEF Wellformed
  <2> HIDE DEF P, a
  <2>4. Wellformed(a) /\ Likewise(a, k) /\ Same(a, k, {"asleep"})  BY <1>1, <2>2, <2>3, AsleepIs
  <2> QED BY <1>1, <1>3, <2>4, AliveLikewise, AliveReturn, AliveTrans DEF Same, Fields
<1> QED BY <1>2, <1>3

LEMMA GiveUpAlive ==
  ASSUME NEW kk, NEW t, AllOK(kk, NIL, t), ~Posted(kk, "capacity", NIL), Return(GiveUp(kk))
  PROVE  Alive(k', kk)
<1> DEFINE r == GiveUp(kk)
<1> HIDE DEF r
<1> QED BY GiveUpIs, AliveScheduled, AliveReturn, AliveTrans DEF Settled, AllOK

LEMMA ChargedAlive ==
  ASSUME IInv
  PROVE  Alive(kern_epilogue_macro(k), k)
<1> DEFINE r == kern_epilogue_macro(k)
<1> HIDE DEF r
<1> QED BY kern_epilogue_macroIs, AliveLikewise DEF r, Same, Fields, IInv, AllOK

LEMMA task_endcycleLives ==
  ASSUME IInv, NEW x \in Pids, task_endcycle(x)
  PROVE  IF x \in Edf
           THEN /\ k'.U = k.U /\ Lived(k', k, x, EndcycleLife(Life(k, x), x))
                /\ Life(k, x).status = "JOB"
           ELSE Alive(k', k)
<1> DEFINE a == kern_epilogue_macro(k)
           b == public_message(a, x, "endcycle")
           v == EndcycleLife(Life(k, x), x)
<1>1. /\ k.exec_shadow = x /\ x \in Pids \ {Dummy} /\ Return(GiveUp(b))  BY DEF task_endcycle, Running
<1>2. AllOK(a, x, now) /\ ~Posted(a, "capacity", NIL) /\ Alive(a, k)  BY <1>1, ChargedIs, ChargedAlive
<1> HIDE DEF a
<1>3. AllOK(b, NIL, now) /\ Others(b, a, x)  BY <1>1, <1>2, endcycleIs
<1>4. CASE x \in Edf
  <2> DEFINE m == EDF_endcycle(a, x)
             w == EndcycleLife(Life(a, x), x)
  <2>1. b = Recharge(m, x)  BY <1>4, PidSets DEF public_message, EDF_message
  <2>2. AllOK(m, NIL, now)  BY <1>2, <1>4, EDF_endcycleIs
  <2>3. m.U = a.U /\ Lived(m, a, x, w)  BY <1>2, <1>4, EndcycleLives
  <2>4. Life(a, x) = Life(k, x) /\ a.U = k.U  BY <1>2, <1>4 DEF Alive
  <2>5. w = v  BY <2>4
  <2> HIDE DEF m, w, v
  <2>6. Lived(m, k, x, v)  BY <1>2, <1>4, <2>3, <2>5, AliveLived
  <2>7. Wellformed(b) /\ Likewise(b, m) /\ Same(b, m, {"avail", "capped"})
    BY <1>1, <2>1, <2>2, RechargeIs DEF AllOK
  <2> HIDE DEF b
  <2>9. b.U = m.U  BY <2>7 DEF Same, Fields
  <2>10. Alive(b, m) /\ Alive(k', b)
    BY <1>1, <1>2, <1>3, <2>7, <2>9, CapacityStays, AliveLikewise, GiveUpAlive DEF AllOK
  <2>14. Life(k, x).status = "JOB"  BY <1>1, LifeStatus DEF InJobs, IInv, AllOK, TaskOK, QueueOK
  <2> QED BY <1>4, <2>3, <2>4, <2>6, <2>10, <2>14, AliveTrans, LivedAlive DEF v
<1>5. CASE x \notin Edf
  <2> HIDE DEF b, v
  <2> QED BY <1>1, <1>2, <1>3, <1>5, CapacityStays, AliveOthers, GiveUpAlive, AliveTrans
             DEF AllOK
<1> QED BY <1>4, <1>5

LEMMA nanosleepAlive ==
  ASSUME IInv, NEW x \in Pids, NEW d \in Delays, nanosleep(x, d)
  PROVE  Alive(k', k)
<1> DEFINE a == kern_epilogue_macro(k)
<1>1. AllOK(a, x, now) /\ Alive(a, k)  BY nanosleepIs, ChargedAlive
<1>2. PICK b : /\ AllOK(b, NIL, now) /\ Sleeps(b, a, x)
               /\ Return(GiveUp(b)) /\ ~Posted(b, "capacity", NIL)
  BY nanosleepIs
<1> HIDE DEF a
<1>3. Alive(b, a)  BY <1>1, <1>2, InJobLives DEF Sleeps, Same, Fields, InJobs, AllOK
<1> QED BY <1>1, <1>2, <1>3, GiveUpAlive, AliveTrans

LEMMA task_endLives ==
  ASSUME IInv, NEW x \in Pids, task_end(x)
  PROVE  IF x \in Edf
           THEN /\ k'.U = IF x \in k.late THEN k.U - Bandwidth(x, k.wcet[x]) ELSE k.U
                /\ Lived(k', k, x, EndLife(Life(k, x), x))
                /\ Life(k, x).status = "JOB"
           ELSE Alive(k', k)
<1> DEFINE a == public_end(k, x)
           v == EndLife(Life(k, x), x)
           u == IF x \in k.late THEN k.U - Bandwidth(x, k.wcet[x]) ELSE k.U
<1>1. k.exec_shadow = x /\ AllOK(k, x, now) /\ AllOK(a, NIL, now) /\ Others(a, k, x)  BY task_endIs
<1>2. PICK c : Uncapped(c, a) /\ Return(GiveUp(c))  BY task_endIs
<1>3. IF x \in Edf THEN a.U = u /\ Lived(a, k, x, v) /\ Life(k, x).status = "JOB"
      ELSE Alive(a, k)
  <2>1. CASE x \in Edf
    <3>1. a = EDF_end(k, x)  BY <2>1, PidSets DEF public_end
    <3> HIDE DEF a
    <3>5. Life(k, x).status = "JOB"  BY <1>1, LifeStatus DEF InJobs, AllOK, TaskOK, QueueOK
    <3> QED BY <1>1, <2>1, <3>1, <3>5, EndLives
  <2>2. CASE x \notin Edf
    <3> HIDE DEF a
    <3> QED BY <1>1, <2>2, AliveOthers DEF IInv, AllOK
  <2> QED BY <2>1, <2>2
<1> HIDE DEF a, u, v
<1>11. Alive(k', a)  BY <1>2, AliveLikewise, GiveUpAlive, AliveTrans DEF Uncapped, Same, Fields
<1>12. CASE x \in Edf  BY <1>3, <1>11, <1>12, LivedAlive DEF u, v
<1>13. CASE x \notin Edf  BY <1>3, <1>11, <1>13, AliveTrans
<1> QED BY <1>12, <1>13

\* The scheduler, after a change of what is said of no task.
LEMMA RescheduledAlive ==
  ASSUME NEW kk, NEW t, AllOK(kk, kk.exec_shadow, t), kk.exec_shadow \in Pids, now \in Int,
         t = now, Return(scheduler(kk))
  PROVE  Alive(k', kk)
<1> DEFINE r == scheduler(kk)
<1> HIDE DEF r
<1> QED BY schedulerIs, AliveScheduled, AliveReturn, AliveTrans DEF Settled, AllOK

LEMMA preemptAlive ==
  ASSUME IInv, NEW x \in Pids, task_nopreempt(x) \/ task_preempt(x)
  PROVE  Alive(k', k)
<1>1. PICK r : /\ AllOK(r, x, now) /\ Likewise(r, k) /\ Same(r, k, {"nopreempt", "events"})
               /\ Return(r) \/ Return(scheduler(r))
  BY preemptIs
<1>2. r.exec_shadow = x /\ r.U = k.U  BY <1>1, preemptIs DEF Same, Fields
<1>3. Alive(r, k) /\ Wellformed(r)  BY <1>1, <1>2, AliveLikewise DEF AllOK
<1> QED BY <1>1, <1>2, <1>3, AliveReturn, RescheduledAlive, AliveTrans DEF IInv

LEMMA rescheduleAlive ==
  ASSUME IInv, reschedule
  PROVE  Alive(k', k)
<1>1. CASE k.resched  BY <1>1, RescheduledAlive DEF IInv, reschedule
<1>2. CASE ~k.resched  BY <1>2, AliveReturn DEF IInv, AllOK, reschedule
<1> QED BY <1>1, <1>2

\* An event of the EDF level is one of the task it is for; no other event changes
\* a life.
LEMMA wake_upLives ==
  ASSUME IInv, wake_up
  PROVE  LET e == k.events[1]
             p == e.pid
             v == Life(k, p)
         IN  \/ Alive(k', k)
             \/ /\ p \in Edf /\ k'.U = k.U /\ Lived(k', k, p, DeadlineLife(v))
                /\ v.deadline = {e.time}
             \/ /\ p \in Edf /\ k'.U = k.U /\ Lived(k', k, p, OffsetLife(v, p))
                /\ v.status = "IDLE" /\ e.time = v.release
             \/ /\ p \in Edf /\ Lived(k', k, p, EndperiodLife(v, p))
                /\ v.endperiod # {} /\ e.time = v.release
                /\ k'.U = IF v.status = "ZOMBIE" THEN k.U - Bandwidth(p, k.wcet[p]) ELSE k.U
<1> DEFINE e == k.events[1]
           h == e.handler
           p == e.pid
           m == [k EXCEPT !.events = Tail(@)]
           v == Life(k, p)
<1>1. /\ k.events # <<>> /\ now \in Int /\ Wellformed(k) /\ AllOK(k, k.exec_shadow, now)
      /\ Handles(k', h, m, p) /\ Wellformed(k')
      /\ h = "capacity" => Likewise(k', k) /\ Same(k', k, {"events", "resched"})
      /\ h \in {"reactivate", "zombie"} => p \in Soft /\ Others(k', k, p)
  BY WakeIs, wake_upKeeps DEF AllOK
<1>2. CASE h = "capacity"  BY <1>1, <1>2, AliveLikewise DEF Same, Fields
<1>3. CASE h = "delay" /\ k' = delay_timer(m, p)  BY <1>1, <1>3, DelayAlive
<1>4. CASE h = "endperiod" /\ k' = EDF_timer_endperiod(m, p)
  <2>2. (v.status = "ZOMBIE" <=> k.status[p] = "ZOMBIE") /\ v.release = k.release[p]
    BY LifeStatus, LifeReads DEF Statuses, InJobs
  <2> HIDE DEF v
  <2> QED BY <1>1, <1>4, <2>2, EndperiodLives DEF v
<1>5. CASE h = "deadline" /\ k' = EDF_timer_deadline(m, p)  BY <1>1, <1>5, DeadlineLives
<1>6. CASE h = "offset" /\ k' = EDF_timer_offset(m, p)
  <2>1. /\ p \in Edf /\ k'.U = k.U /\ Lived(k', k, p, OffsetLife(v, p))
        /\ k.status[p] = "IDLE" /\ e.time = k.release[p]
    BY <1>1, <1>6, OffsetLives
  <2> HIDE DEF v
  <2> QED BY <2>1, LifeReads DEF v, InJobs
<1>7. CASE h \in {"reactivate", "zombie"}  BY <1>1, <1>7, PidSets, AliveOthers
<1> HIDE DEF h, v
<1> QED BY <1>1, <1>2, <1>3, <1>4, <1>5, <1>6, <1>7 DEF v, Handles

------------------------------
(* The bandwidth that is in use *)

LEMMA SharesNat ==
  ASSUME NEW p \in Edf
  PROVE  Shares[p] \in Nat /\ Shares[p] = Bandwidth(p, cost[p])
BY EdfAssumption, PidSets DEF Shares, Bandwidth

LEMMA BandwidthStays ==
  ASSUME BandwidthOK, k'.U = k.U,
         \A q \in Edf : k'.status[q] = "FREE" <=> k.status[q] = "FREE"
  PROVE  BandwidthOK'
BY DEF BandwidthOK, SumOf, Shares, Existing

LEMMA BandwidthGrows ==
  ASSUME BandwidthOK, NEW p \in Edf, k'.U = k.U + Bandwidth(p, cost[p]),
         k.status[p] = "FREE", k'.status[p] # "FREE",
         \A q \in Edf : q # p => (k'.status[q] = "FREE" <=> k.status[q] = "FREE")
  PROVE  BandwidthOK'
<1>1. Existing' = Existing \cup {p} /\ p \notin Existing  BY DEF Existing
<1>2. Shares[p] \in Nat /\ Shares[p] = Bandwidth(p, cost[p])  BY SharesNat
<1>4. /\ IsFiniteSet(Bundle(Existing \cup {p}, Shares))
      /\ Cardinality(Bundle(Existing \cup {p}, Shares))
           = Cardinality(Bundle(Existing, Shares)) + Shares[p]
  <2> DEFINE S == Existing
             g == Shares
  <2>1. p \notin S /\ g[p] \in Nat /\ IsFiniteSet(Bundle(S, g))  BY <1>1, <1>2 DEF BandwidthOK
  <2> HIDE DEF S, g
  <2>2. /\ IsFiniteSet(Bundle(S \cup {p}, g))
        /\ Cardinality(Bundle(S \cup {p}, g)) = Cardinality(Bundle(S, g)) + g[p]
    BY <2>1, BundleAdd
  <2> QED BY <2>2 DEF S, g
<1> QED BY <1>1, <1>2, <1>4 DEF BandwidthOK, SumOf, Shares

LEMMA BandwidthShrinks ==
  ASSUME BandwidthOK, NEW p \in Edf, k'.U = k.U - Bandwidth(p, cost[p]),
         k.status[p] # "FREE", k'.status[p] = "FREE",
         \A q \in Edf : q # p => (k'.status[q] = "FREE" <=> k.status[q] = "FREE")
  PROVE  BandwidthOK'
<1>1. Existing' = Existing \ {p} /\ p \in Existing  BY DEF Existing
<1>3. IsFiniteSet(Bundle(Existing, Shares))  BY DEF BandwidthOK
<1> QED BY <1>1, <1>3, SharesNat, BundleDrop DEF BandwidthOK, SumOf, Shares

\* At the start no EDF task exists.
LEMMA StartAlive ==
  ASSUME Init
  PROVE  Alive(k, k0) /\ Wellformed(k0)
<1>1. PICK b : Wellformed(b) /\ Others(b, k0, Main) /\ Scheduled(Started, b)  BY StartIs DEF AllOK
<1> QED BY <1>1, PidAssumption, PidSets, StartIs, AliveOthers, AliveScheduled, AliveTrans
           DEF Init

\* Whether a task is free can be told from its life.
LEMMA FreeLife ==
  ASSUME NEW kk, NEW p
  PROVE  kk.status[p] = "FREE" <=> Life(kk, p).status = "FREE"
BY LifeStatus DEF Statuses, InJobs

LEMMA BandwidthAlive ==
  ASSUME BandwidthOK, Alive(k', k)
  PROVE  BandwidthOK'
BY FreeLife, BandwidthStays DEF Alive

LEMMA BandwidthLived ==
  ASSUME BandwidthOK, NEW p \in Edf, NEW v, Lived(k', k, p, v),
         \/ k'.U = k.U /\ (v.status = "FREE" <=> Life(k, p).status = "FREE")
         \/ /\ k'.U = k.U + Bandwidth(p, cost[p])
            /\ k.status[p] = "FREE" /\ v.status # "FREE"
         \/ /\ k'.U = k.U - Bandwidth(p, cost[p])
            /\ k.status[p] # "FREE" /\ v.status = "FREE"
  PROVE  BandwidthOK'
<1>1. \A q \in Edf : q # p => (k'.status[q] = "FREE" <=> k.status[q] = "FREE")  BY FreeLife DEF Lived
<1>3. /\ k'.status[p] = "FREE" <=> v.status = "FREE"
      /\ k.status[p] = "FREE" <=> Life(k, p).status = "FREE"
  BY FreeLife DEF Lived
<1>4. CASE k'.U = k.U /\ (v.status = "FREE" <=> Life(k, p).status = "FREE")
  BY <1>1, <1>3, <1>4, BandwidthStays
<1>5. CASE /\ k'.U = k.U + Bandwidth(p, cost[p])
           /\ k.status[p] = "FREE" /\ v.status # "FREE"
  BY <1>1, <1>3, <1>5, BandwidthGrows
<1>6. CASE /\ k'.U = k.U - Bandwidth(p, cost[p])
           /\ k.status[p] # "FREE" /\ v.status = "FREE"
  BY <1>1, <1>3, <1>6, BandwidthShrinks
<1> QED BY <1>4, <1>5, <1>6

\* What a task that exists was given when it was created.
LEMMA CostKnown ==
  ASSUME WcetCheck, IInv, NEW p \in Edf, k.status[p] # "FREE"
  PROVE  k.wcet[p] = cost[p]
BY PidSets DEF IInv, AllOK, TaskOK, QueueOK

\* The status after each of the things that happen to a life.
LEMMA LaterStatus ==
  ASSUME NEW p, NEW v, NEW t
  PROVE  /\ ReleaseLife(v, p).status = IF v.status = "IDLE" THEN "JOB" ELSE v.status
         /\ ActivateLife(v, p, t).status \in {"IDLE", "JOB"}
         /\ v.status = "JOB" => EndcycleLife(v, p).status \in {"JOB", "SLEEP", "WAIT", "IDLE"}
         /\ DisableLife(v, p).status \in {"WAIT", "SLEEP"}
         /\ EndLife(v, p).status = IF v.late # {} THEN "FREE" ELSE "ZOMBIE"
         /\ EndperiodLife(v, p).status \in {"FREE"} <=> v.status \in {"ZOMBIE", "FREE"}
         /\ DeadlineLife(v).status = v.status
         /\ OffsetLife(v, p).status = IF v.status = "IDLE" THEN "JOB" ELSE v.status
         /\ CreateLife(v).status = "SLEEP"
<1>1. \A w : ReleaseLife(w, p).status = IF w.status = "IDLE" THEN "JOB" ELSE w.status
  BY LifeFields DEF ReleaseLife
<1>2. ActivateLife(v, p, t).status \in {"IDLE", "JOB"}  BY <1>1, LifeFields DEF ActivateLife, AwaitLife
<1>3. v.status = "JOB" => EndcycleLife(v, p).status \in {"JOB", "SLEEP", "WAIT", "IDLE"}
  BY LifeFields DEF EndcycleLife
<1>4. DisableLife(v, p).status \in {"WAIT", "SLEEP"}  BY LifeFields DEF DisableLife
<1>5. EndLife(v, p).status = IF v.late # {} THEN "FREE" ELSE "ZOMBIE"  BY LifeFields DEF EndLife
<1>6. EndperiodLife(v, p).status \in {"FREE"} <=> v.status \in {"ZOMBIE", "FREE"}
  <2>1. CASE v.status = "ZOMBIE"  BY <2>1, LifeFields DEF EndperiodLife
  <2>2. CASE v.status = "WAIT"  BY <2>2, LifeFields DEF EndperiodLife
  <2>3. CASE v.status \notin {"ZOMBIE", "WAIT"}
    <3>3. CASE p \in Sporadic  BY <2>3, <3>3, LifeFields DEF EndperiodLife
    <3>4. CASE p \notin Sporadic  BY <1>1, <2>3, <3>4, LifeFields DEF EndperiodLife, OverLife
    <3> QED BY <3>3, <3>4
  <2> QED BY <2>1, <2>2, <2>3
<1>7. DeadlineLife(v).status = v.status  BY LifeFields DEF DeadlineLife
<1>8. OffsetLife(v, p).status = IF v.status = "IDLE" THEN "JOB" ELSE v.status
  BY <1>1, LifeFields DEF OffsetLife, BegunLife
<1>9. CreateLife(v).status = "SLEEP"  BY LifeFields DEF CreateLife
<1> QED BY <1>1, <1>2, <1>3, <1>4, <1>5, <1>6, <1>7, <1>8, <1>9

LEMMA WakeBandwidth ==
  ASSUME WcetCheck, IInv, BandwidthOK, wake_up
  PROVE  BandwidthOK'
<1> DEFINE e == k.events[1]
           p == e.pid
           v == Life(k, p)
<1>1. \/ Alive(k', k)
      \/ /\ p \in Edf /\ k'.U = k.U /\ Lived(k', k, p, DeadlineLife(v))
      \/ /\ p \in Edf /\ k'.U = k.U /\ Lived(k', k, p, OffsetLife(v, p))
         /\ v.status = "IDLE"
      \/ /\ p \in Edf /\ Lived(k', k, p, EndperiodLife(v, p))
         /\ k'.U = IF v.status = "ZOMBIE" THEN k.U - Bandwidth(p, k.wcet[p]) ELSE k.U
         /\ v.endperiod # {}
  BY wake_upLives
<1> HIDE DEF p
<1>2. CASE Alive(k', k)  BY <1>2, BandwidthAlive
<1>3. CASE p \in Edf /\ k'.U = k.U /\ Lived(k', k, p, DeadlineLife(v))
  BY <1>3, LaterStatus, BandwidthLived
<1>4. CASE /\ p \in Edf /\ k'.U = k.U /\ Lived(k', k, p, OffsetLife(v, p))
           /\ v.status = "IDLE"
  BY <1>4, LaterStatus, BandwidthLived
<1>5. CASE /\ p \in Edf /\ Lived(k', k, p, EndperiodLife(v, p))
           /\ k'.U = IF v.status = "ZOMBIE" THEN k.U - Bandwidth(p, k.wcet[p]) ELSE k.U
           /\ v.endperiod # {}
  <2>1. EndperiodLife(v, p).status = "FREE" <=> v.status \in {"ZOMBIE", "FREE"}  BY LaterStatus
  <2>2. v.status # "FREE"  BY <1>5, PidSets, LifeReads, FreeLife DEF EdfTimersOK, IInv, AllOK, TaskOK
  <2>3. k.status[p] # "FREE" /\ k.wcet[p] = cost[p]  BY <1>5, <2>2, FreeLife, CostKnown
  <2> HIDE DEF v
  <2>4. CASE v.status = "ZOMBIE"  BY <1>5, <2>1, <2>3, <2>4, BandwidthLived
  <2>5. CASE v.status # "ZOMBIE"  BY <1>5, <2>1, <2>2, <2>5, BandwidthLived DEF v
  <2> QED BY <2>4, <2>5
<1> QED BY <1>1, <1>2, <1>3, <1>4, <1>5

LEMMA PrimitiveBandwidth ==
  ASSUME WcetCheck, ~DisableAnyJob, IInv, BandwidthOK, NEW x \in Pids, Primitive(x)
  PROVE  BandwidthOK'
<1>1. ASSUME NEW p \in Ranked \cup RrTasks, task_create(x, p) PROVE BandwidthOK'
  <2>3. CASE Alive(k', k)  BY <2>3, BandwidthAlive
  <2>4. CASE /\ p \in Edf /\ k'.U = k.U + Bandwidth(p, cost[p])
             /\ Lived(k', k, p, CreateLife(Life(k, p)))
    BY <1>1, <2>4, LaterStatus, BandwidthLived DEF task_create
  <2> QED BY <1>1, <2>3, <2>4, task_createLives
<1>2. ASSUME NEW p \in Ranked \cup RrTasks, task_activate(x, p) PROVE BandwidthOK'
  <2> DEFINE v == ActivateLife(Life(k, p), p, now)
  <2>1. IF p \in Edf /\ k.status[p] = "SLEEP"
          THEN k'.U = k.U /\ Lived(k', k, p, v) ELSE Alive(k', k)
    BY <1>2, task_activateLives
  <2>2. v.status # "FREE"  BY LaterStatus
  <2> HIDE DEF v
  <2>3. CASE p \in Edf /\ k.status[p] = "SLEEP"  BY <2>1, <2>2, <2>3, FreeLife, BandwidthLived
  <2>4. CASE ~(p \in Edf /\ k.status[p] = "SLEEP")  BY <2>1, <2>4, BandwidthAlive
  <2> QED BY <2>3, <2>4
<1>3. ASSUME NEW p \in Ranked \cup RrTasks, Freezes(x, p) PROVE BandwidthOK'
  BY <1>3, FreezesAlive, BandwidthAlive
<1>4. ASSUME NEW p \in Ranked \cup RrTasks, task_disable(x, p) PROVE BandwidthOK'
  <2> DEFINE v == DisableLife(Life(k, p), p)
  <2>1. IF p \in Periodic THEN k'.U = k.U /\ Lived(k', k, p, v) ELSE Alive(k', k)
    BY <1>4, task_disableLives
  <2>2. v.status # "FREE"  BY LaterStatus
  <2>3. Life(k, p).status # "FREE"  BY <1>4, FreeLife DEF task_disable
  <2> HIDE DEF v
  <2>4. CASE p \in Periodic  BY <2>1, <2>2, <2>3, <2>4, BandwidthLived DEF Edf
  <2>5. CASE p \notin Periodic  BY <2>1, <2>5, BandwidthAlive
  <2> QED BY <2>4, <2>5
<1>5. CASE task_endcycle(x)
  <2> DEFINE v == EndcycleLife(Life(k, x), x)
  <2>1. IF x \in Edf THEN /\ k'.U = k.U /\ Lived(k', k, x, v)
                          /\ Life(k, x).status = "JOB"
        ELSE Alive(k', k)
    BY <1>5, task_endcycleLives
  <2>2. Life(k, x).status = "JOB" => v.status # "FREE"  BY LaterStatus
  <2> HIDE DEF v
  <2>3. CASE x \in Edf  BY <2>1, <2>2, <2>3, BandwidthLived
  <2>4. CASE x \notin Edf  BY <2>1, <2>4, BandwidthAlive
  <2> QED BY <2>3, <2>4
<1>6. ASSUME NEW d \in Delays, nanosleep(x, d) PROVE BandwidthOK'  BY <1>6, nanosleepAlive, BandwidthAlive
<1>7. CASE task_end(x)
  <2> DEFINE v == EndLife(Life(k, x), x)
  <2>1. IF x \in Edf
          THEN /\ k'.U = IF x \in k.late THEN k.U - Bandwidth(x, k.wcet[x]) ELSE k.U
               /\ Lived(k', k, x, v)
               /\ Life(k, x).status = "JOB"
        ELSE Alive(k', k)
    BY <1>7, task_endLives
  <2>2. CASE x \in Edf
    <3>1. v.status = IF x \in k.late THEN "FREE" ELSE "ZOMBIE"
      <4>2. v.status = IF Life(k, x).late # {} THEN "FREE" ELSE "ZOMBIE"  BY LaterStatus
      <4> HIDE DEF v
      <4> QED BY <4>2, LifeReads
    <3>2. k.status[x] # "FREE" /\ k.wcet[x] = cost[x] /\ Life(k, x).status # "FREE"
      BY <2>1, <2>2, FreeLife, CostKnown
    <3> HIDE DEF v
    <3>3. CASE x \in k.late  BY <2>1, <2>2, <3>1, <3>2, <3>3, BandwidthLived
    <3>4. CASE x \notin k.late  BY <2>1, <2>2, <3>1, <3>2, <3>4, BandwidthLived
    <3> QED BY <3>3, <3>4
  <2>3. CASE x \notin Edf  BY <2>1, <2>3, BandwidthAlive
  <2> QED BY <2>2, <2>3
<1>8. CASE task_nopreempt(x) \/ task_preempt(x)  BY <1>8, preemptAlive, BandwidthAlive
<1> QED BY <1>1, <1>2, <1>3, <1>4, <1>5, <1>6, <1>7, <1>8 DEF Primitive, Freezes

LEMMA InitBandwidth == Init => BandwidthOK
<1> SUFFICES ASSUME Init PROVE BandwidthOK  OBVIOUS
<1>2. k0.U = 0 /\ \A q \in Edf : k0.status[q] = "FREE"  BY PidSets DEF k0
<1> QED BY <1>2, StartAlive, FreeLife, BundleHolds, FS_EmptySet
           DEF BandwidthOK, SumOf, Existing, Alive

LEMMA NextBandwidth ==
  ASSUME WcetCheck, ~DisableAnyJob, IInv, BandwidthOK, [Next]_vars
  PROVE  BandwidthOK'
<1>1. CASE wake_up  BY <1>1, WakeBandwidth
<1>2. CASE reschedule  BY <1>2, rescheduleAlive, BandwidthAlive
<1>3. CASE tick \/ UNCHANGED vars  BY <1>3, BandwidthStays DEF tick, vars
<1>4. ASSUME NEW x \in Pids, Primitive(x) PROVE BandwidthOK'  BY <1>4, PrimitiveBandwidth
<1> QED BY <1>1, <1>2, <1>3, <1>4 DEF Next

\* The bandwidth that counts as used is at any time that of the tasks that
\* exist: it is claimed once, by task_create, and freed once, whether the task is
\* over at the end of its period or late when it ends.
THEOREM TheBandwidthIsExact ==
  ASSUME WcetCheck, ~DisableAnyJob
  PROVE  Spec => []BandwidthExact
<1>1. IInv /\ BandwidthOK /\ [Next]_vars => BandwidthOK'  BY NextBandwidth
<1>2. BandwidthOK => BandwidthExact  BY DEF BandwidthOK, BandwidthExact, Shares, Existing
<1> QED BY <1>1, <1>2, InitBandwidth, AlwaysIInv, PTL DEF Spec

------------------------------
(* What is noted of the jobs of an EDF task, in step with its life *)

LEMMA LifeKeeps ==
  ASSUME IInv, NEW p \in Edf
  PROVE  LifeOK(Life(k, p), p, now)
<1> DEFINE v == Life(k, p)
           T == Timers(k, p)
           st == k.status[p]
<1>1. /\ Wellformed(k) /\ p \in Pids /\ p \in Ranked /\ EdfTimersOK(k, p)
      /\ ReleaseOK(k, now, p) /\ k.late \in SUBSET Sporadic /\ st \in Statuses
  BY PidSets, TypedFields DEF IInv, AllOK, TaskOK
<1>2. v \in Lives(p)  BY <1>1, LifeIs
<1>4. /\ v.status = "JOB" <=> st \in InJobs
      /\ v.status = "FREE" <=> st = "FREE"
      /\ v.status = "SLEEP" <=> st = "SLEEP"
      /\ v.status = "WAIT" <=> st = "WAIT"
      /\ v.status = "ZOMBIE" <=> st = "ZOMBIE"
      /\ v.status = "IDLE" <=> st = "IDLE"
  <2>2. v.status = IF st \in InJobs THEN "JOB" ELSE st  BY LifeStatus
  <2> HIDE DEF v, st
  <2> QED BY <1>1, <2>2 DEF Statuses, InJobs
<1> HIDE DEF v
<1> QED BY <1>1, <1>2, <1>4, LifeReads DEF v, LifeOK, EdfTimersOK, ReleaseOK, ReleaseTimers

\* Where no event is due, the timers of p are later than now.
LEMMA LaterTimers ==
  ASSUME IInv, ~Due(k), NEW p \in Edf
  PROVE  \A a \in Life(k, p).deadline \cup Life(k, p).endperiod \cup Life(k, p).offset :
           a >= now + 1
<1>2. ASSUME NEW h \in Handlers, NEW a \in Timers(k, p)[h] PROVE a >= now + 1
  <2>1. PICK e \in Members(k.events) : a = e.time  BY DEF Timers
  <2> QED BY <2>1, LaterEvents DEF IInv, AllOK
<1> QED BY <1>2, LifeReads DEF Handlers

LEMMA HistoryNil ==
  ASSUME HistoryOK, NEW p \in Ranked, NEW b, b = base \/ b = [base EXCEPT ![p] = NIL]
  PROVE  b \in [Ranked -> Int \cup {NIL}]
BY DEF HistoryOK

LEMMA PrimitiveHistory ==
  ASSUME IInv, HistoryOK, NEW x \in Pids, Primitive(x)
  PROVE  HistoryOK'
<1>1. ASSUME NEW p \in Ranked \cup RrTasks, task_create(x, p) PROVE HistoryOK'
  BY <1>1 DEF HistoryOK, task_create, Forget
<1>2. ASSUME NEW p \in Ranked \cup RrTasks, task_activate(x, p) PROVE HistoryOK'
  <2> DEFINE u == now + IF p \in Edf THEN offset[p] + rdeadline[p] ELSE 0
  <2>1. /\ missed' = missed
        /\ base' = base \/ (p \in Ranked /\ base' = [base EXCEPT ![p] = u])
        /\ done' = done \/ (p \in Edf /\ done' = [done EXCEPT ![p] = 0])
    BY <1>2 DEF task_activate
  <2>2. u \in Int  BY PidSets DEF IInv
  <2> HIDE DEF u
  <2> QED BY <2>1, <2>2 DEF HistoryOK
<1>3. ASSUME NEW p \in Ranked \cup RrTasks, Freezes(x, p) PROVE HistoryOK'  BY <1>3, HeldIs DEF HistoryOK
<1>4. ASSUME NEW p \in Ranked \cup RrTasks, task_disable(x, p) PROVE HistoryOK'
  BY <1>4, CbsAssumption, PidSets, HistoryNil DEF HistoryOK, task_disable, Ranked, Edf
<1>5. CASE task_endcycle(x)  BY <1>5, CbsAssumption DEF HistoryOK, task_endcycle, Ranked
<1>6. CASE task_end(x)  BY <1>6, HistoryNil DEF HistoryOK, task_end
<1>7. CASE \/ \E d \in Delays : nanosleep(x, d)
           \/ task_nopreempt(x)
           \/ task_preempt(x)
  BY <1>7 DEF HistoryOK, nanosleep, task_nopreempt, task_preempt, NoJob
<1> QED BY <1>1, <1>2, <1>3, <1>4, <1>5, <1>6, <1>7 DEF Primitive, Freezes

LEMMA NextHistory ==
  ASSUME IInv, HistoryOK, [Next]_vars
  PROVE  HistoryOK'
<1>1. CASE wake_up \/ UNCHANGED vars  BY <1>1 DEF HistoryOK, wake_up, event, NoJob, vars
<1>2. CASE reschedule \/ tick
  <2>3. ASSUME NEW p \in Edf
        PROVE  missed[p] \cup (IF Overdue(p) THEN {now} ELSE {}) \in SUBSET Int
    BY DEF IInv, HistoryOK
  <2> QED BY <1>2, <2>3 DEF HistoryOK, NoteOverdue, reschedule, tick
<1>3. ASSUME NEW x \in Pids, Primitive(x) PROVE HistoryOK'  BY <1>3, PrimitiveHistory
<1> QED BY <1>1, <1>2, <1>3 DEF Next

LEMMA InitHistory == Init => HistoryOK
BY DEF Init, HistoryOK

\* What is noted of the tasks that a call is not about.
LEMMA NothingIs ==
  ASSUME NEW p \in Edf, Life(k', p) = Life(k, p), base'[p] = base[p], done'[p] = done[p],
         missed'[p] = missed[p], now' = now, irq' = irq \/ irq'
  PROVE  Steps(p)
BY DEF Nothing, Stays, Steps

LEMMA PrimitiveSteps ==
  ASSUME ~DisableAnyJob, IInv, HistoryOK, NEW x \in Pids, Primitive(x), NEW q \in Edf
  PROVE  Steps(q)
<1>q. q \in Pids /\ q \in Ranked /\ q \notin Soft  BY PidSets
<1>h. base \in [Ranked -> Int \cup {NIL}] /\ done \in [Ranked -> Nat] /\ missed \in [Edf -> SUBSET Int]
  BY DEF HistoryOK
<1>l. \A st \in {"FREE", "SLEEP", "IDLE"} : k.status[q] = st => Life(k, q).status = st
  BY LifeStatus DEF Statuses, InJobs
<1>1. ASSUME NEW p \in Ranked \cup RrTasks, task_create(x, p) PROVE Steps(q)
  <2>1. ~irq /\ irq' = irq /\ now' = now /\ base' = base /\ k.status[p] = "FREE" /\ Forget(p)
    BY <1>1 DEF task_create, Running
  <2>2. \/ Alive(k', k)
        \/ p \in Edf /\ Lived(k', k, p, CreateLife(Life(k, p)))
    BY <1>1, task_createLives
  <2>3. CASE q = p
    <3>1. Life(k', q) = CreateLife(Life(k, q)) \/ Life(k', q) = Life(k, q)  BY <2>2, <2>3 DEF Alive, Lived
    <3>2. done'[q] = 0 /\ missed'[q] = {}  BY <1>q, <1>h, <2>1, <2>3 DEF Forget
    <3> QED BY <2>1, <2>3, <3>1, <3>2, <1>l DEF Created, Steps, Called
  <2>4. CASE q # p  BY <2>1, <2>2, <2>4, <1>q, <1>h, NothingIs DEF Forget, Alive, Lived
  <2> QED BY <2>3, <2>4
<1>2. ASSUME NEW p \in Ranked \cup RrTasks, task_activate(x, p) PROVE Steps(q)
  <2> DEFINE u == now + IF p \in Edf THEN offset[p] + rdeadline[p] ELSE 0
  <2>1. /\ ~irq /\ irq' = irq /\ now' = now /\ missed' = missed
        /\ base' = IF p \in Ranked /\ k.status[p] = "SLEEP"
                     THEN [base EXCEPT ![p] = u] ELSE base
        /\ done' = IF p \in Edf /\ k.status[p] = "SLEEP" THEN [done EXCEPT ![p] = 0] ELSE done
    BY <1>2 DEF task_activate, Running
  <2>2. IF p \in Edf /\ k.status[p] = "SLEEP"
          THEN Lived(k', k, p, ActivateLife(Life(k, p), p, now)) ELSE Alive(k', k)
    BY <1>2, task_activateLives
  <2>3. CASE q = p /\ k.status[p] = "SLEEP"
    <3>1. Life(k', q) = ActivateLife(Life(k, q), q, now)  BY <2>2, <2>3 DEF Lived
    <3> QED BY <2>1, <2>3, <3>1, <1>l, <1>q, <1>h DEF Activated, Steps, Called
  <2>4. CASE ~(q = p /\ k.status[p] = "SLEEP")
    <3>2. base'[q] = base[q] /\ done'[q] = done[q] /\ missed'[q] = missed[q]
      <4> HIDE DEF u
      <4> QED BY <1>q, <1>h, <2>1, <2>4
    <3> QED BY <2>1, <2>2, <2>4, <3>2, NothingIs DEF Alive, Lived
  <2> QED BY <2>3, <2>4
<1>3. ASSUME NEW p \in Ranked \cup RrTasks, Freezes(x, p) PROVE Steps(q)
  BY <1>3, FreezesAlive, HeldIs, NothingIs DEF Alive
<1>4. ASSUME NEW p \in Ranked \cup RrTasks, task_disable(x, p) PROVE Steps(q)
  <2>1. /\ ~irq /\ irq' = irq /\ now' = now /\ missed' = missed /\ done' = done
        /\ base' = IF p \in Periodic THEN [base EXCEPT ![p] = NIL] ELSE base
        /\ k.status[p] = "IDLE"
    BY <1>4 DEF task_disable, Running
  <2>2. IF p \in Periodic THEN Lived(k', k, p, DisableLife(Life(k, p), p)) ELSE Alive(k', k)
    BY <1>4, task_disableLives
  <2>3. CASE q = p /\ p \in Periodic
    <3>2. base'[q] = NIL  BY <1>q, <1>h, <2>1, <2>3
    <3> QED BY <2>1, <2>2, <2>3, <3>2, <1>l DEF Disabled, Steps, Lived, Called
  <2>4. CASE ~(q = p /\ p \in Periodic)  BY <2>1, <2>2, <2>4, <1>q, <1>h, NothingIs DEF Alive, Lived
  <2> QED BY <2>3, <2>4
<1>5. CASE task_endcycle(x)
  <2>1. /\ ~irq /\ irq' = irq /\ now' = now /\ missed' = missed /\ base' = base
        /\ done' = IF x \in Edf \cup SaveArrivals THEN [done EXCEPT ![x] = @ + 1] ELSE done
    BY <1>5 DEF task_endcycle, Running
  <2>2. IF x \in Edf
          THEN /\ Lived(k', k, x, EndcycleLife(Life(k, x), x))
               /\ Life(k, x).status = "JOB"
          ELSE Alive(k', k)
    BY <1>5, task_endcycleLives
  <2>3. CASE q = x  BY <2>1, <2>2, <2>3, <1>q, <1>h DEF Ended, Steps, Lived, Called
  <2>4. CASE q # x  BY <2>1, <2>2, <2>4, <1>q, <1>h, NothingIs DEF Alive, Lived
  <2> QED BY <2>3, <2>4
<1>6. CASE task_end(x)
  <2>1. /\ ~irq /\ irq' = irq /\ now' = now /\ missed' = missed /\ done' = done
        /\ base' = IF x \in Ranked THEN [base EXCEPT ![x] = NIL] ELSE base
    BY <1>6 DEF task_end, Running
  <2>2. IF x \in Edf
          THEN /\ Lived(k', k, x, EndLife(Life(k, x), x))
               /\ Life(k, x).status = "JOB"
          ELSE Alive(k', k)
    BY <1>6, task_endLives
  <2>3. CASE q = x  BY <2>1, <2>2, <2>3, <1>q, <1>h DEF Over, Steps, Lived, Called
  <2>4. CASE q # x  BY <2>1, <2>2, <2>4, <1>q, <1>h, NothingIs DEF Alive, Lived
  <2> QED BY <2>3, <2>4
<1>7. CASE \/ \E d \in Delays : nanosleep(x, d)
           \/ task_nopreempt(x)
           \/ task_preempt(x)
  <2>1. Alive(k', k)  BY <1>7, nanosleepAlive, preemptAlive
  <2> QED BY <1>7, <2>1, NothingIs DEF Alive, nanosleep, task_nopreempt, task_preempt, NoJob
<1> QED BY <1>1, <1>2, <1>3, <1>4, <1>5, <1>6, <1>7 DEF Primitive, Freezes

LEMMA NextSteps ==
  ASSUME ~DisableAnyJob, IInv, HistoryOK, [Next]_vars, NEW q \in Edf
  PROVE  Steps(q)
<1>1. CASE wake_up
  <2> DEFINE e == k.events[1]
             p == e.pid
             v == Life(k, p)
  <2>1. /\ irq' /\ now' = now /\ base' = base /\ done' = done /\ missed' = missed
        /\ e.time <= now
    BY <1>1, WakeIs
  <2>2. \/ Alive(k', k)
        \/ p \in Edf /\ Lived(k', k, p, DeadlineLife(v)) /\ v.deadline = {e.time}
        \/ /\ p \in Edf /\ Lived(k', k, p, OffsetLife(v, p))
           /\ v.status = "IDLE" /\ e.time = v.release
        \/ /\ p \in Edf /\ Lived(k', k, p, EndperiodLife(v, p))
           /\ v.endperiod # {} /\ e.time = v.release
    BY <1>1, wake_upLives
  <2>3. p \in Edf => v.deadline \subseteq Int
    <3>1. p \in Edf => v \in Lives(p)  BY LifeIs DEF IInv, AllOK
    <3> HIDE DEF v
    <3> QED BY <3>1 DEF Lives
  <2>4. Fires(q)  BY <2>1 DEF Fires, Stays
  <2> HIDE DEF p, e
  <2>5. CASE Life(k', q) = Life(k, q)  BY <2>1, <2>5, NothingIs
  <2>6. CASE Life(k', q) # Life(k, q)
    <3>1. p = q  BY <2>2, <2>6 DEF Alive, Lived
    <3>2. CASE Lived(k', k, p, DeadlineLife(v)) /\ v.deadline = {e.time}
      BY <2>1, <2>3, <2>4, <3>1, <3>2 DEF DeadlineFires, Steps, Lived
    <3>3. CASE /\ Lived(k', k, p, OffsetLife(v, p))
               /\ v.status = "IDLE" /\ e.time = v.release
      BY <2>1, <2>4, <3>1, <3>3 DEF OffsetFires, Steps, Lived
    <3>4. CASE /\ Lived(k', k, p, EndperiodLife(v, p))
               /\ v.endperiod # {} /\ e.time = v.release
      BY <2>1, <2>4, <3>1, <3>4 DEF EndperiodFires, Steps, Lived
    <3> QED BY <2>2, <2>6, <3>2, <3>3, <3>4 DEF Alive
  <2> QED BY <2>5, <2>6
<1>2. CASE reschedule \/ tick
  <2>2. Life(k', q) = Life(k, q)
    <3>1. CASE reschedule  BY <3>1, rescheduleAlive DEF Alive
    <3>2. CASE tick  BY <3>2 DEF tick
    <3> QED BY <1>2, <3>1, <3>2
  <2> QED BY <1>2, <2>2, LaterTimers DEF Passes, Stays, Steps, NoteOverdue, reschedule, tick
<1>3. CASE UNCHANGED vars  BY <1>3, NothingIs DEF vars
<1>4. ASSUME NEW x \in Pids, Primitive(x) PROVE Steps(q)  BY <1>4, PrimitiveSteps
<1> QED BY <1>1, <1>2, <1>3, <1>4 DEF Next

------------------------------
(* The jobs of an EDF task: how many were released, and with what deadlines *)

LEMMA TimeIs ==
  ASSUME NEW p \in Edf, NEW n \in Int
  PROVE  /\ Time(p, n) \in Int /\ Time(p, 0) = 0
         /\ Time(p, n + 1) = Time(p, n) + period[p]
         /\ period[p] \in Int /\ period[p] > 0
         /\ rdeadline[p] \in Int /\ 0 < rdeadline[p] /\ rdeadline[p] <= period[p]
         /\ offset[p] \in Int /\ offset[p] >= 0
BY EdfAssumption DEF Time

LEMMA JobsRelease ==
  ASSUME NEW p \in Edf, NEW v \in Lives(p), NEW b \in Int \cup {NIL}, NEW d \in Nat,
         NEW t \in Int, Jobs(v, b, d, t, p), v.release <= t,
         v.status = "IDLE" \/ (v.status = "JOB" /\ p \notin Sporadic)
  PROVE  Jobs(ReleaseLife(v, p), b, d, t, p)
<1> DEFINE w == ReleaseLife(v, p)
           n == d + v.nact + Busy(v)
<1>1. /\ v.nact \in Nat /\ v.adeadline \in Int /\ v.release \in Int /\ v.dline \in Int
      /\ n \in Nat /\ Busy(v) \in Nat
  BY DEF Lives, Busy
<1>2. CASE v.status = "IDLE"
  <2>1. /\ w.status = "JOB" /\ w.dline = v.adeadline /\ w.release = v.release + period[p]
        /\ w.adeadline = v.adeadline + period[p] /\ w.nact = v.nact
    BY <1>2, LifeFields DEF ReleaseLife
  <2>2. v.nact = 0 /\ Busy(v) = 0 /\ Busy(w) = 1 /\ n = d  BY <1>2, <2>1 DEF Jobs, Busy
  <2>4. Time(p, d + 1) = Time(p, d) + period[p] /\ Time(p, d) \in Int
        /\ period[p] \in Int /\ rdeadline[p] \in Int
    BY TimeIs
  <2> HIDE DEF w, n
  <2> QED BY <1>1, <1>2, <2>1, <2>2, <2>4 DEF Jobs, w
<1>3. CASE v.status = "JOB" /\ p \notin Sporadic
  <2>1. /\ w.status = "JOB" /\ w.dline = v.dline /\ w.release = v.release + period[p]
        /\ w.adeadline = v.adeadline /\ w.nact = v.nact + 1
    BY <1>3, LifeFields DEF ReleaseLife
  <2>2. Busy(v) = 1 /\ Busy(w) = 1  BY <1>3, <2>1 DEF Busy
  <2>3. b # NIL => /\ v.adeadline = b + Time(p, d + 1)
                   /\ v.release = b - rdeadline[p] + Time(p, n)
                   /\ v.dline = b + Time(p, d)
    BY <1>3, <2>2 DEF Jobs
  <2>4. Time(p, n + 1) = Time(p, n) + period[p] /\ Time(p, n) \in Int
        /\ period[p] \in Int /\ rdeadline[p] \in Int
    BY <1>1, TimeIs
  <2>5. d + w.nact + Busy(w) = n + 1 /\ d + Busy(w) = d + 1  BY <1>1, <2>1, <2>2
  <2> HIDE DEF w, n
  <2> QED BY <1>1, <1>3, <2>1, <2>3, <2>4, <2>5 DEF Jobs, w
<1> QED BY <1>2, <1>3

LEMMA JobsActivate ==
  ASSUME NEW p \in Edf, NEW v \in Lives(p), NEW b \in Int \cup {NIL}, NEW d \in Nat,
         NEW t \in Int, Jobs(v, b, d, t, p), v.status = "SLEEP",
         NEW c, c = t + (offset[p] + rdeadline[p])
  PROVE  Jobs(ActivateLife(v, p, t), c, 0, t, p)
<1> DEFINE u == t + offset[p]
           w == AwaitLife(v, p, u, v.offset)
           z == AwaitLife(v, p, u, {u})
<1>1. /\ v.nact = 0 /\ u \in Int /\ c = u + rdeadline[p] /\ c \in Int
      /\ Time(p, 0) = 0 /\ u - period[p] <= t + offset[p] /\ rdeadline[p] \in Int
      /\ v.dline \in Int /\ v.late \in SUBSET {p} /\ v.dl_miss \in Nat /\ v.nact \in Nat
      /\ v.deadline \in SUBSET Int /\ v.endperiod \in SUBSET Int /\ v.offset \in SUBSET Int
      /\ offset[p] \in Int /\ offset[p] >= 0
  <2>1. v.nact = 0  BY DEF Jobs
  <2> QED BY <2>1, TimeIs DEF Lives
<1>2. ASSUME NEW o \in SUBSET Int
      PROVE  LET y == AwaitLife(v, p, u, o)
             IN  y \in Lives(p) /\ Jobs(y, c, 0, t, p) /\ y.status = "IDLE" /\ y.release = u
  <2> DEFINE y == AwaitLife(v, p, u, o)
  <2>1. /\ y.status = "IDLE" /\ y.release = u /\ y.adeadline = u + rdeadline[p] /\ y.nact = 0
    BY <1>1, LifeFields DEF AwaitLife
  <2>2. y \in Lives(p)
    <3>1. "IDLE" \in Statuses \ InJobs /\ u + rdeadline[p] \in Int  BY <1>1 DEF Statuses, InJobs
    <3> HIDE DEF u
    <3> QED BY <1>1, <3>1 DEF Lives, LifeOf, AwaitLife
  <2> HIDE DEF y, u
  <2>3. Busy(y) = 0 /\ 0 + y.nact + Busy(y) = 0 /\ 0 + Busy(y) = 0  BY <2>1 DEF Busy
  <2> QED BY <1>1, <2>1, <2>2, <2>3 DEF Jobs, y
<1>3. CASE u > t
  <2>1. ActivateLife(v, p, t) = z  BY <1>3 DEF ActivateLife
  <2>2. {u} \in SUBSET Int  BY <1>1
  <2> QED BY <1>2, <2>1, <2>2
<1>4. CASE ~(u > t)
  <2>1. ActivateLife(v, p, t) = ReleaseLife(w, p)  BY <1>4 DEF ActivateLife
  <2>2. w \in Lives(p) /\ Jobs(w, c, 0, t, p) /\ w.status = "IDLE" /\ w.release = u  BY <1>1, <1>2
  <2>3. u <= t /\ 0 \in Nat /\ c \in Int \cup {NIL}  BY <1>1, <1>4
  <2> HIDE DEF w, u
  <2> QED BY <2>1, <2>2, <2>3, JobsRelease
<1> QED BY <1>3, <1>4

LEMMA JobsEndcycle ==
  ASSUME NEW p \in Edf, NEW v \in Lives(p), NEW b \in Int \cup {NIL}, NEW d \in Nat,
         NEW t \in Int, Jobs(v, b, d, t, p), v.status = "JOB"
  PROVE  Jobs(EndcycleLife(v, p), b, d + 1, t, p)
<1> DEFINE w == EndcycleLife(v, p)
           n == d + v.nact + 1
<1>1. /\ v.nact \in Nat /\ v.adeadline \in Int /\ v.release \in Int /\ v.dline \in Int
      /\ Busy(v) = 1 /\ n \in Nat
  BY DEF Lives, Busy
<1>2. b # NIL => /\ v.adeadline = b + Time(p, d + 1)
                 /\ v.release = b - rdeadline[p] + Time(p, n)
                 /\ n = 0 \/ v.release - period[p] <= t
  BY <1>1 DEF Jobs
<1>3. /\ Time(p, d + 2) = Time(p, d + 1) + period[p] /\ Time(p, d + 1) \in Int
      /\ period[p] \in Int
  BY TimeIs
<1>4. CASE v.nact > 0
  <2>1. /\ w.status = "JOB" /\ w.dline = v.adeadline /\ w.release = v.release
        /\ w.adeadline = v.adeadline + period[p] /\ w.nact = v.nact - 1
    BY <1>4, LifeFields DEF EndcycleLife
  <2>2. Busy(w) = 1 /\ p \notin Sporadic  BY <1>1, <1>4, <2>1 DEF Busy, Jobs
  <2> HIDE DEF w, n
  <2> QED BY <1>1, <1>2, <1>3, <2>1, <2>2 DEF Jobs, w
<1>5. CASE ~(v.nact > 0)
  <2>1. /\ w.status = IF p \in Sporadic THEN IF v.late # {} THEN "SLEEP" ELSE "WAIT" ELSE "IDLE"
        /\ w.release = v.release /\ w.adeadline = v.adeadline /\ w.nact = v.nact
    BY <1>5, LifeFields DEF EndcycleLife
  <2>2. v.nact = 0 /\ Busy(w) = 0  BY <1>1, <1>5, <2>1 DEF Busy
  <2>3. (d + 1) + w.nact + Busy(w) = n /\ (d + 1) + Busy(w) = d + 1 /\ d + 1 >= 1  BY <1>1, <2>1, <2>2
  <2> HIDE DEF w, n
  <2>4. CASE p \in Sporadic  BY <2>1, <2>2, <2>3, <2>4 DEF Jobs, w
  <2>5. CASE p \notin Sporadic  BY <1>2, <2>1, <2>2, <2>3, <2>5 DEF Jobs, w
  <2> QED BY <2>4, <2>5
<1> QED BY <1>4, <1>5

\* Where the status, the releases and the deadlines stay.
LEMMA JobsSame ==
  ASSUME NEW p \in Edf, NEW v, NEW b, NEW d, NEW t \in Int, Jobs(v, b, d, t, p), NEW w,
         w.status = v.status, w.nact = v.nact, w.adeadline = v.adeadline,
         w.release = v.release, w.dline = v.dline, NEW u \in Int, t <= u, v \in Lives(p)
  PROVE  Jobs(w, b, d, u, p)
BY TimeIs DEF Jobs, Lives, Busy

LEMMA JobsEndperiod ==
  ASSUME NEW p \in Edf, NEW v \in Lives(p), NEW b \in Int \cup {NIL}, NEW d \in Nat,
         NEW t \in Int, Jobs(v, b, d, t, p), LifeOK(v, p, t), v.endperiod # {},
         v.release <= t
  PROVE  Jobs(EndperiodLife(v, p), b, d, t, p)
<1> DEFINE y == EndperiodLife(v, p)
           w == OverLife(v)
<1>2. CASE v.status = "ZOMBIE"
  <2> HIDE DEF y
  <2> QED BY <1>2, LifeFields DEF Jobs, y, EndperiodLife
<1>3. CASE v.status = "WAIT"
  <2> HIDE DEF y
  <2> QED BY <1>3, LifeFields DEF Jobs, y, EndperiodLife
<1>4. CASE v.status \in {"IDLE", "JOB"} /\ p \in Sporadic
  <2> HIDE DEF y
  <2> QED BY <1>4, LifeFields, JobsSame DEF y, EndperiodLife
<1>5. CASE v.status \in {"IDLE", "JOB"} /\ p \notin Sporadic
  <2>1. y = ReleaseLife(w, p)  BY <1>5 DEF EndperiodLife
  <2>2. /\ w.status = v.status /\ w.nact = v.nact /\ w.adeadline = v.adeadline
        /\ w.release = v.release /\ w.dline = v.dline
    BY LifeFields DEF OverLife
  <2>3. w \in Lives(p)  BY DEF Lives, LifeOf, OverLife
  <2> HIDE DEF w, y
  <2> QED BY <1>5, <2>1, <2>2, <2>3, JobsSame, JobsRelease DEF y
<1> QED BY <1>2, <1>3, <1>4, <1>5 DEF LifeOK, Lives, Statuses, InJobs

LEMMA JobsCreate ==
  ASSUME NEW p \in Edf, NEW v, NEW b, NEW d, NEW t, Jobs(v, b, d, t, p), v.status = "FREE",
         NEW w, w = CreateLife(v) \/ w = v
  PROVE  Jobs(w, b, 0, t, p)
<1>1. b = NIL  BY DEF Jobs
<1>2. CASE w = CreateLife(v)  BY <1>1, <1>2, LifeFields DEF Jobs, CreateLife
<1>3. CASE w = v  BY <1>1, <1>3 DEF Jobs
<1> QED BY <1>2, <1>3

LEMMA JobsDisable ==
  ASSUME NEW p \in Edf, NEW v, NEW b, NEW d, NEW t, Jobs(v, b, d, t, p), v.status = "IDLE"
  PROVE  Jobs(DisableLife(v, p), NIL, d, t, p)
BY LifeFields DEF Jobs, DisableLife

LEMMA JobsEnd ==
  ASSUME NEW p \in Edf, NEW v, NEW b, NEW d, NEW t, Jobs(v, b, d, t, p), v.status = "JOB"
  PROVE  Jobs(EndLife(v, p), NIL, d, t, p)
<1> DEFINE w == EndLife(v, p)
<1> HIDE DEF w
<1> QED BY LifeFields DEF w, Jobs, EndLife

LEMMA JobsOffset ==
  ASSUME NEW p \in Edf, NEW v \in Lives(p), NEW b \in Int \cup {NIL}, NEW d \in Nat,
         NEW t \in Int, Jobs(v, b, d, t, p), v.status = "IDLE", v.release <= t
  PROVE  Jobs(OffsetLife(v, p), b, d, t, p)
<1> DEFINE w == BegunLife(v)
<1>1. OffsetLife(v, p) = ReleaseLife(w, p)  BY DEF OffsetLife
<1>2. /\ w.status = v.status /\ w.nact = v.nact /\ w.adeadline = v.adeadline
      /\ w.release = v.release /\ w.dline = v.dline
  BY LifeFields DEF BegunLife
<1>3. w \in Lives(p)  BY DEF Lives, LifeOf, BegunLife
<1> HIDE DEF w
<1> QED BY <1>1, <1>2, <1>3, JobsSame, JobsRelease

LEMMA NextJobs ==
  ASSUME ~DisableAnyJob, IInv, HistoryOK, JobsOK, [Next]_vars
  PROVE  JobsOK'
<1> SUFFICES ASSUME NEW p \in Edf
             PROVE  Jobs(Life(k', p), base'[p], done'[p], now', p)
  BY DEF JobsOK
<1> DEFINE v == Life(k, p)
           w == Life(k', p)
           b == base[p]
           d == done[p]
           t == now
<1>1. /\ Jobs(v, b, d, t, p) /\ LifeOK(v, p, t) /\ v \in Lives(p)
      /\ b \in Int \cup {NIL} /\ d \in Nat /\ t \in Int /\ t <= t
  BY LifeKeeps, PidSets DEF JobsOK, HistoryOK, LifeOK, IInv
<1>2. Steps(p)  BY NextSteps
<1>3. CASE Nothing(p)  BY <1>1, <1>3 DEF Nothing, Stays
<1>4. CASE Passes(p)
  <2>1. w = v /\ base'[p] = b /\ done'[p] = d /\ now' \in Int /\ t <= now'
    BY <1>1, <1>4 DEF Passes, Stays
  <2> DEFINE u == now'
  <2> HIDE DEF v, w, b, d, t, u
  <2> QED BY <1>1, <2>1, JobsSame DEF u, w
<1>5. CASE Created(p)
  <2>1. /\ v.status = "FREE" /\ (w = CreateLife(v) \/ w = v)
        /\ base'[p] = b /\ done'[p] = 0 /\ now' = t
    BY <1>5 DEF Created, Called
  <2> HIDE DEF v, w, b, d, t
  <2> QED BY <1>1, <2>1, JobsCreate DEF w
<1>6. CASE Activated(p)
  <2> DEFINE c == t + (offset[p] + rdeadline[p])
  <2>1. /\ v.status = "SLEEP" /\ w = ActivateLife(v, p, t)
        /\ base'[p] = c /\ done'[p] = 0 /\ now' = t
    BY <1>6 DEF Activated, Called
  <2>2. c = t + (offset[p] + rdeadline[p])  OBVIOUS
  <2> HIDE DEF v, w, b, d, t, c
  <2> QED BY <1>1, <2>1, <2>2, JobsActivate DEF w
<1>7. CASE Ended(p)
  <2>1. /\ v.status = "JOB" /\ w = EndcycleLife(v, p)
        /\ base'[p] = b /\ done'[p] = d + 1 /\ now' = t
    BY <1>7 DEF Ended, Called
  <2> HIDE DEF v, w, b, d, t
  <2> QED BY <1>1, <2>1, JobsEndcycle DEF w
<1>8. CASE Disabled(p)
  <2>1. /\ v.status = "IDLE" /\ w = DisableLife(v, p)
        /\ base'[p] = NIL /\ done'[p] = d /\ now' = t
    BY <1>8 DEF Disabled, Called
  <2> HIDE DEF v, w, b, d, t
  <2> QED BY <1>1, <2>1, JobsDisable DEF w
<1>9. CASE Over(p)
  <2>1. /\ v.status = "JOB" /\ w = EndLife(v, p)
        /\ base'[p] = NIL /\ done'[p] = d /\ now' = t
    BY <1>9 DEF Over, Called
  <2> HIDE DEF v, w, b, d, t
  <2> QED BY <1>1, <2>1, JobsEnd DEF w
<1>10. CASE DeadlineFires(p)
  <2>1. w = DeadlineLife(v) /\ base'[p] = b /\ done'[p] = d /\ now' = t
    BY <1>10 DEF DeadlineFires, Fires, Stays
  <2> HIDE DEF v, w, b, d, t
  <2> QED BY <1>1, <2>1, LifeFields, JobsSame DEF w, DeadlineLife
<1>11. CASE OffsetFires(p)
  <2>1. /\ v.status = "IDLE" /\ v.release <= t /\ w = OffsetLife(v, p)
        /\ base'[p] = b /\ done'[p] = d /\ now' = t
    BY <1>11 DEF OffsetFires, Fires, Stays
  <2> HIDE DEF v, w, b, d, t
  <2> QED BY <1>1, <2>1, JobsOffset DEF w
<1>12. CASE EndperiodFires(p)
  <2>1. /\ v.endperiod # {} /\ v.release <= t /\ w = EndperiodLife(v, p)
        /\ base'[p] = b /\ done'[p] = d /\ now' = t
    BY <1>12 DEF EndperiodFires, Fires, Stays
  <2> HIDE DEF v, w, b, d, t
  <2> QED BY <1>1, <2>1, JobsEndperiod DEF w
<1> QED BY <1>2, <1>3, <1>4, <1>5, <1>6, <1>7, <1>8, <1>9, <1>10, <1>11, <1>12 DEF Steps

LEMMA InitJobs ==
  ASSUME Init
  PROVE  JobsOK
<1> SUFFICES ASSUME NEW p \in Edf PROVE Jobs(Life(k, p), base[p], done[p], now, p)  BY DEF JobsOK
<1>3. Life(k0, p).nact = 0  BY PidSets, LifeReads DEF k0
<1> QED BY <1>3, StartAlive, PidSets DEF Jobs, Init, Alive

\* A time before which n - 1 periods have passed, but not n, lies in the n-th.
LEMMA Period ==
  ASSUME NEW p \in Edf, NEW n \in Nat, NEW a \in Int, Time(p, n) > a,
         n = 0 \/ Time(p, n) - period[p] <= a
  PROVE  n = IF a < 0 THEN 0 ELSE a \div period[p] + 1
<1>1. period[p] \in Int /\ period[p] > 0 /\ Time(p, n) \in Int  BY TimeIs
<1>2. CASE n = 0  BY <1>2, TimeIs
<1>3. CASE n # 0
  <2>1. n - 1 \in Nat /\ (n - 1) + 1 = n  BY <1>3
  <2>2. Time(p, n) = Time(p, n - 1) + period[p] /\ Time(p, n - 1) \in Int  BY <2>1, TimeIs
  <2>3. Time(p, n - 1) <= a /\ a < Time(p, n - 1) + period[p]  BY <1>1, <1>3, <2>2
  <2>6. ~(a < 0)  BY <1>1, <2>1, <2>2, <2>3 DEF Time
  <2> QED BY <1>1, <2>1, <2>3, <2>6, DivIs DEF Time
<1> QED BY <1>2, <1>3

\* Where no event is due the next release of a periodic task is later than now.
LEMMA NextRelease ==
  ASSUME IInv, ~Due(k), NEW p \in Edf, Life(k, p).status \in {"IDLE", "JOB"}, p \notin Sporadic
  PROVE  Life(k, p).release >= now + 1
<1> DEFINE v == Life(k, p)
<1>1. LifeOK(v, p, now)  BY LifeKeeps
<1>3. PICK a \in v.endperiod \cup v.offset : TRUE  BY <1>1 DEF LifeOK
<1> QED BY <1>1, <1>3, LaterTimers DEF LifeOK

LEMMA DeadlinesAreCorrect == IInv /\ HistoryOK /\ JobsOK => CorrectDeadlines
<1> SUFFICES ASSUME IInv, HistoryOK, JobsOK PROVE CorrectDeadlines  OBVIOUS
<1>1. ASSUME NEW p \in Edf PROVE InJob(p) <=> Life(k, p).status = "JOB"
  BY TypedFields, LifeStatus DEF InJob, InJobs, IInv, AllOK, Statuses
<1>2. ASSUME NEW p \in Edf, InJob(p), base[p] # NIL
      PROVE  k.dline[p] = base[p] + done[p] * period[p]
  BY <1>1, <1>2, LifeReads DEF Time, JobsOK, Jobs
<1>3. ASSUME NEW p \in Periodic, base[p] # NIL, ~irq, ~Due(k)
      PROVE  LET since == now - (base[p] - rdeadline[p])
                 released == IF since < 0 THEN 0 ELSE since \div period[p] + 1
             IN  done[p] + k.nact[p] + (IF InJob(p) THEN 1 ELSE 0) = released
  <2> DEFINE v == Life(k, p)
             b == base[p]
             d == done[p]
             n == d + v.nact + Busy(v)
             since == now - (b - rdeadline[p])
  <2>1. /\ p \in Edf /\ p \notin Sporadic /\ b \in Int /\ d \in Nat /\ now \in Int
        /\ rdeadline[p] \in Int /\ period[p] \in Int
    BY <1>3, PidSets, PidAssumption, TimeIs DEF HistoryOK, Edf, IInv
  <2>3. v.nact \in Nat /\ v.release \in Int /\ n \in Nat  BY <2>1, LifeKeeps DEF Lives, Busy, LifeOK
  <2>4. /\ v.status \in {"IDLE", "JOB"}
        /\ v.release = b - rdeadline[p] + Time(p, n)
        /\ n = 0 \/ v.release - period[p] <= now
    BY <1>3, <2>1 DEF JobsOK, Jobs
  <2>5. v.release >= now + 1  BY <1>3, <2>1, <2>4, NextRelease
  <2>6. n = d + k.nact[p] + IF InJob(p) THEN 1 ELSE 0  BY <1>1, <2>1, LifeReads DEF Busy
  <2> HIDE DEF v, n
  <2>7. Time(p, n) \in Int  BY <2>1, <2>3, TimeIs
  <2> HIDE DEF since
  <2> QED BY <2>1, <2>3, <2>4, <2>5, <2>6, <2>7, Period DEF since
<1> QED BY <1>2, <1>3 DEF CorrectDeadlines

\* The n-th job of a hard task has the deadline of its n-th activation, however
\* late, skipped or lumped the interrupts and jobs before it were, and no
\* activation of a periodic task is lost or counted twice: EDF_activate,
\* EDF_release, EDF_endcycle and the timers of edf.c. The hypothesis: task_disable
\* is called only of tasks that are not in a job.
THEOREM TheDeadlinesAreCorrect ==
  ASSUME ~DisableAnyJob
  PROVE  Spec => []CorrectDeadlines
<1>1. Init => HistoryOK /\ JobsOK  BY InitHistory, InitJobs
<1>2. IInv /\ HistoryOK /\ JobsOK /\ [Next]_vars => HistoryOK' /\ JobsOK'  BY NextHistory, NextJobs
<1>3. IInv /\ HistoryOK /\ JobsOK => CorrectDeadlines  BY DeadlinesAreCorrect
<1> QED BY <1>1, <1>2, <1>3, AlwaysIInv, PTL DEF Spec

------------------------------
(* The deadlines an EDF task has missed *)

LEMMA DateIs ==
  ASSUME NEW p \in Edf, NEW v \in Lives(p)
  PROVE  /\ Date(v, p) \in Int /\ v.release \in Int /\ period[p] \in Int
         /\ DeadlineTimer(p) \in Int /\ 0 <= DeadlineTimer(p) /\ DeadlineTimer(p) < period[p]
         /\ v.release - period[p] <= Date(v, p) /\ Date(v, p) < v.release
BY DeadlineTimerIs, TimeIs DEF Date, Lives

\* Where the status, the releases, the deadline timer and its count stay.
LEMMA MissesSame ==
  ASSUME NEW p \in Edf, NEW v, NEW m, NEW s, NEW b, NEW d, NEW t,
         Misses(v, m, s, b, d, t, p), NEW w,
         w.status = v.status, w.release = v.release, w.deadline = v.deadline,
         w.late = v.late, w.dl_miss = v.dl_miss, NEW z, m \cup s \subseteq m \cup z,
         NEW e, e = d \/ p \notin Sporadic
  PROVE  Misses(w, m, z, b, e, t, p)
BY DEF Misses, Miss, Date

LEMMA MissesCreate ==
  ASSUME NEW p \in Edf, NEW v \in Lives(p), NEW m, NEW s, NEW b, NEW d, NEW t \in Int,
         Misses(v, m, s, b, d, t, p), LifeOK(v, p, t), v.status = "FREE",
         NEW w, w = CreateLife(v) \/ w = v
  PROVE  Misses(w, {}, s, b, 0, t, p)
BY LifeFields, FS_EmptySet DEF Misses, Miss, CreateLife, LifeOK

\* The life w begins a job at the time t.
LEMMA MissesRelease ==
  ASSUME NEW p \in Edf, NEW v \in Lives(p), NEW m \in SUBSET Int, NEW t \in Int,
         NEW s \in SUBSET {t}, NEW b, NEW d, Misses(v, m, s, b, d, t, p),
         v.status \in {"IDLE", "JOB"}, v.release = t, v.late = {}, NEW z
  PROVE  Misses(ReleaseLife(v, p), m, z, b, d, t, p)
<1> DEFINE w == ReleaseLife(v, p)
<1>1. /\ w.status = "JOB" /\ w.release = t + period[p]
      /\ w.deadline = {t + DeadlineTimer(p)} /\ w.late = {} /\ w.dl_miss = v.dl_miss
  BY LifeFields DEF ReleaseLife
<1> HIDE DEF w
<1>2. /\ DeadlineTimer(p) \in Int /\ 0 <= DeadlineTimer(p) /\ period[p] \in Int
      /\ DeadlineTimer(p) < period[p] /\ Date(v, p) < t
  BY DateIs
<1>4. \A y \in m : y < t /\ y < t + DeadlineTimer(p) /\ y <= t /\ y < t + period[p]  BY <1>2 DEF Misses
<1>5. \A x \in w.deadline : x = Date(w, p) /\ x >= t /\ \A y \in m : y < x
  <2>1. ASSUME NEW x \in w.deadline PROVE x = t + DeadlineTimer(p)  BY <1>1
  <2> QED BY <1>1, <1>2, <1>4, <2>1 DEF Date
<1>6. Miss(w, p) = {}  BY <1>1 DEF Miss
<1>7. m \cup Miss(v, p) = m
  <2>2. \A x \in s : x = t /\ ~(x < t)  OBVIOUS
  <2> QED BY <1>2, <2>2 DEF Miss, Misses
<1>9. IsFiniteSet(m) /\ v.dl_miss = Cardinality(m \cup Miss(v, p))  BY DEF Misses
<1>10. Misses(w, m, z, b, d, t, p)
  <2>4. w.dl_miss = Cardinality(m \cup Miss(w, p))  BY <1>1, <1>6, <1>7, <1>9
  <2> QED BY <1>1, <1>4, <1>5, <1>6, <1>9, <2>4 DEF Misses
<1> QED BY <1>10 DEF w

LEMMA MissesActivate ==
  ASSUME NEW p \in Edf, NEW v \in Lives(p), NEW m \in SUBSET Int, NEW t \in Int, NEW s,
         NEW b, NEW d, Misses(v, m, s, b, d, t, p), LifeOK(v, p, t),
         v.status = "SLEEP", NEW c, c # NIL, s \in SUBSET {t}
  PROVE  Misses(ActivateLife(v, p, t), m, s, c, 0, t, p)
<1> DEFINE u == t + offset[p]
<1>1. /\ u \in Int /\ u >= t /\ rdeadline[p] \in Int /\ v.deadline = {} /\ v.late = {}
      /\ v.dline \in Int /\ v.late \in SUBSET {p} /\ v.dl_miss \in Nat /\ v.nact \in Nat
      /\ v.deadline \in SUBSET Int /\ v.endperiod \in SUBSET Int /\ v.offset \in SUBSET Int
  BY TimeIs DEF LifeOK, Lives
<1>3. IsFiniteSet(m) /\ v.dl_miss = Cardinality(m \cup {}) /\ \A y \in m : y < t  BY DEF Misses, Miss
<1> HIDE DEF u
<1>4. ASSUME NEW o \in SUBSET Int
      PROVE  LET y == AwaitLife(v, p, u, o)
             IN  /\ y \in Lives(p) /\ Misses(y, m, s, c, 0, t, p)
                 /\ y.status = "IDLE" /\ y.release = u /\ y.late = {}
  <2> DEFINE y == AwaitLife(v, p, u, o)
  <2>1. /\ y.status = "IDLE" /\ y.release = u /\ y.deadline = {} /\ y.late = {}
        /\ y.dl_miss = v.dl_miss
    BY <1>1, LifeFields DEF AwaitLife
  <2>2. y \in Lives(p)  BY <1>1 DEF Lives, LifeOf, AwaitLife, Statuses, InJobs
  <2> HIDE DEF y
  <2>4. \A x \in m : x < u /\ x <= t  BY <1>1, <1>3
  <2> QED BY <1>3, <2>1, <2>2, <2>4 DEF y, Misses, Miss
<1> DEFINE w == AwaitLife(v, p, u, v.offset)
           z == AwaitLife(v, p, u, {u})
<1>5. CASE u > t  BY <1>1, <1>4, <1>5 DEF ActivateLife, u
<1>6. CASE ~(u > t)
  <2>1. ActivateLife(v, p, t) = ReleaseLife(w, p)  BY <1>6 DEF ActivateLife, u
  <2>2. w \in Lives(p) /\ Misses(w, m, s, c, 0, t, p) /\ w.status \in {"IDLE", "JOB"}
        /\ w.release = u /\ w.late = {}
    BY <1>1, <1>4
  <2> HIDE DEF w
  <2> QED BY <1>1, <1>6, <2>1, <2>2, MissesRelease
<1> QED BY <1>5, <1>6

LEMMA MissesEndcycle ==
  ASSUME NEW p \in Edf, NEW v \in Lives(p), NEW m \in SUBSET Int, NEW b, NEW d,
         NEW t \in Int, Misses(v, m, {}, b, d, t, p), Jobs(v, b, d, t, p), LifeOK(v, p, t),
         v.status = "JOB", NEW e
  PROVE  Misses(EndcycleLife(v, p), m, {}, b, IF v.nact > 0 THEN d + 1 ELSE e, t, p)
<1> DEFINE w == EndcycleLife(v, p)
<1>1. CASE v.nact > 0
  <2> HIDE DEF w
  <2> QED BY <1>1, LifeFields, MissesSame DEF w, EndcycleLife, Jobs
<1>2. CASE ~(v.nact > 0)
  <2>1. /\ w.status = IF p \in Sporadic THEN IF v.late # {} THEN "SLEEP" ELSE "WAIT" ELSE "IDLE"
        /\ w.release = v.release /\ w.deadline = {} /\ w.dl_miss = v.dl_miss
        /\ w.late = IF p \in Sporadic THEN {} ELSE v.late
    BY <1>2, LifeFields DEF EndcycleLife
  <2> HIDE DEF w
  <2>2. /\ b # NIL /\ (\A y \in m : y <= t) /\ (\A y \in m : y < v.release)
        /\ Miss(v, p) \subseteq m /\ (v.late # {} => v.release <= t /\ p \in Sporadic)
        /\ IsFiniteSet(m) /\ v.dl_miss = Cardinality(m \cup Miss(v, p))
    BY DEF Misses, LifeOK
  <2>3. Miss(w, p) = {} /\ m \cup Miss(v, p) = m \cup {}  BY <2>1, <2>2 DEF Miss
  <2>4. CASE p \notin Sporadic  BY <1>2, <2>1, <2>2, <2>3, <2>4 DEF Misses, w
  <2>5. CASE p \in Sporadic /\ v.late = {}  BY <1>2, <2>1, <2>2, <2>3, <2>5 DEF Misses, w
  <2>6. CASE p \in Sporadic /\ v.late # {}
    <3>2. \A y \in m : y < t
      <4>1. v.release \in Int /\ v.release <= t  BY <2>2, <2>6, DateIs
      <4> QED BY <2>2, <4>1
    <3> QED BY <1>2, <2>1, <2>2, <2>3, <2>6, <3>2 DEF Misses, w
  <2> QED BY <2>4, <2>5, <2>6
<1> QED BY <1>1, <1>2

LEMMA MissesDisable ==
  ASSUME NEW p \in Edf, NEW v, NEW m, NEW s, NEW b, NEW d, NEW t,
         Misses(v, m, s, b, d, t, p), Jobs(v, b, d, t, p), v.status = "IDLE"
  PROVE  Misses(DisableLife(v, p), m, s, NIL, d, t, p)
<1> DEFINE w == DisableLife(v, p)
<1>2. /\ w.status = "WAIT" /\ w.release = v.release /\ w.deadline = {}
      /\ w.late = v.late /\ w.dl_miss = v.dl_miss
  BY LifeFields DEF DisableLife, Jobs
<1> HIDE DEF w
<1> QED BY <1>2 DEF w, Misses, Miss

LEMMA MissesEnd ==
  ASSUME NEW p \in Edf, NEW v, NEW m, NEW b, NEW d, NEW t, NEW c,
         Misses(v, m, {}, b, d, t, p), LifeOK(v, p, t), v.status = "JOB"
  PROVE  Misses(EndLife(v, p), m, {}, c, d, t, p)
<1> DEFINE w == EndLife(v, p)
<1>1. /\ w.status = IF v.late # {} THEN "FREE" ELSE "ZOMBIE"
      /\ w.release = v.release /\ w.late = v.late /\ w.dl_miss = v.dl_miss
      /\ w.deadline = IF v.late # {} THEN v.deadline ELSE {}
  BY LifeFields DEF EndLife
<1> HIDE DEF w
<1>2. w.deadline = {}  BY <1>1 DEF LifeOK
<1>3. Miss(w, p) = {}  BY <1>1 DEF Miss
<1>5. Misses(w, m, {}, c, d, t, p)
  <2>1. CASE v.late = {}  BY <1>1, <1>2, <1>3, <2>1 DEF Misses
  <2>2. CASE v.late # {}  BY <1>1, <1>2, <1>3, <2>2 DEF Misses
  <2> QED BY <2>1, <2>2
<1> QED BY <1>5 DEF w

LEMMA MissesDeadline ==
  ASSUME NEW p \in Edf, NEW v \in Lives(p), NEW m \in SUBSET Int, NEW t \in Int, NEW s,
         NEW b, NEW d, Misses(v, m, s, b, d, t, p), LifeOK(v, p, t), NEW x \in Int, x <= t,
         v.deadline = {x}
  PROVE  Misses(DeadlineLife(v), m, {t}, b, d, t, p)
<1> DEFINE w == DeadlineLife(v)
<1>1. /\ w.status = v.status /\ w.release = v.release /\ w.deadline = {}
      /\ w.late = v.late /\ w.dl_miss = v.dl_miss + 1
  BY LifeFields DEF DeadlineLife
<1>2. v.status = "JOB"  BY DEF LifeOK
<1>3. x = t /\ Date(v, p) = t /\ \A y \in m : y < t  BY DEF Misses
<1> HIDE DEF w
<1>4. Miss(w, p) = {t} /\ Miss(v, p) = {}  BY <1>1, <1>2, <1>3 DEF Miss, Date
<1>5. IsFiniteSet(m) /\ v.dl_miss = Cardinality(m)  BY <1>2, <1>4 DEF Misses
<1>6. Cardinality(m \cup {t}) = Cardinality(m) + 1
  <2>1. t \notin m  BY <1>3
  <2> QED BY <1>5, <2>1, FS_AddElement
<1> QED BY <1>1, <1>2, <1>4, <1>5, <1>6 DEF w, Misses

LEMMA MissesOffset ==
  ASSUME NEW p \in Edf, NEW v \in Lives(p), NEW m \in SUBSET Int, NEW t \in Int,
         NEW s \in SUBSET {t}, NEW b, NEW d, Misses(v, m, s, b, d, t, p), LifeOK(v, p, t),
         v.status = "IDLE", v.release <= t, NEW z
  PROVE  Misses(OffsetLife(v, p), m, z, b, d, t, p)
<1> DEFINE w == BegunLife(v)
<1>1. OffsetLife(v, p) = ReleaseLife(w, p)  BY DEF OffsetLife
<1>2. /\ w.status = v.status /\ w.release = v.release /\ w.deadline = v.deadline
      /\ w.late = v.late /\ w.dl_miss = v.dl_miss
  BY LifeFields DEF BegunLife
<1>3. w \in Lives(p)  BY DEF Lives, LifeOf, BegunLife
<1>4. v.release = t /\ v.late = {}  BY DateIs DEF LifeOK
<1> HIDE DEF w
<1>5. Misses(w, m, s, b, d, t, p)  BY <1>2, MissesSame
<1> QED BY <1>1, <1>2, <1>3, <1>4, <1>5, MissesRelease

LEMMA MissesEndperiod ==
  ASSUME NEW p \in Edf, NEW v \in Lives(p), NEW m \in SUBSET Int, NEW t \in Int,
         NEW s \in SUBSET {t}, NEW b, NEW d, Misses(v, m, s, b, d, t, p), LifeOK(v, p, t),
         v.endperiod # {}, v.release <= t
  PROVE  Misses(EndperiodLife(v, p), m, {t}, b, d, t, p)
<1> DEFINE y == EndperiodLife(v, p)
           w == OverLife(v)
<1>1. /\ v.release = t /\ v.late = {} /\ v.status \in {"WAIT", "ZOMBIE", "IDLE", "JOB"}
      /\ v.status = "IDLE" => p \notin Sporadic
      /\ v.deadline # {} => v.status = "JOB"
  <2>1. v.release \in Int /\ v.late = {} /\ v.release >= t  BY DateIs DEF LifeOK
  <2> QED BY <2>1 DEF LifeOK, Lives, Statuses, InJobs
<1>2. s \subseteq {t} /\ m \cup s \subseteq m \cup {t}  OBVIOUS
<1>3. CASE v.status \in {"WAIT", "ZOMBIE"}
  <2>1. /\ y.status = IF v.status = "WAIT" THEN "SLEEP" ELSE "FREE"
        /\ y.release = v.release /\ y.deadline = {} /\ y.late = {} /\ y.dl_miss = v.dl_miss
    BY <1>1, <1>3, LifeFields DEF EndperiodLife
  <2>2. Miss(y, p) = {} /\ Miss(v, p) = {}  BY <1>3, <2>1 DEF Miss
  <2>3. (\A x \in m : x <= t) /\ (v.status = "WAIT" => \A x \in m : x < t)  BY <1>1 DEF Misses
  <2>4. IsFiniteSet(m) /\ y.dl_miss = Cardinality(m \cup Miss(y, p))  BY <1>3, <2>1, <2>2 DEF Misses
  <2> HIDE DEF y
  <2>5. y.status \in {"SLEEP", "FREE"} /\ (y.status = "SLEEP" => v.status = "WAIT")  BY <1>3, <2>1
  <2>6. Misses(y, m, {t}, b, d, t, p)  BY <2>1, <2>2, <2>3, <2>4, <2>5 DEF Misses
  <2> QED BY <2>6 DEF y
<1>4. CASE v.status \in {"IDLE", "JOB"} /\ p \in Sporadic
  <2>1. v.status = "JOB"  BY <1>1, <1>4
  <2>2. /\ y.status = v.status /\ y.release = v.release /\ y.deadline = v.deadline
        /\ y.late = {p} /\ y.dl_miss = v.dl_miss
    BY <1>4, LifeFields DEF EndperiodLife
  <2> HIDE DEF y
  <2>3. Miss(y, p) = Miss(v, p) /\ Date(y, p) = Date(v, p) /\ y.release <= t  BY <1>1, <2>2 DEF Miss, Date
  <2>4. Misses(y, m, {t}, b, d, t, p)  BY <1>2, <2>1, <2>2, <2>3 DEF Misses
  <2> QED BY <2>4 DEF y
<1>5. CASE v.status \in {"IDLE", "JOB"} /\ p \notin Sporadic
  <2>1. y = ReleaseLife(w, p)  BY <1>5 DEF EndperiodLife
  <2>2. /\ w.status = v.status /\ w.release = v.release /\ w.deadline = v.deadline
        /\ w.late = v.late /\ w.dl_miss = v.dl_miss
    BY LifeFields DEF OverLife
  <2>3. w \in Lives(p)  BY DEF Lives, LifeOf, OverLife
  <2> HIDE DEF w, y
  <2>4. Misses(w, m, s, b, d, t, p)  BY <2>2, MissesSame
  <2>5. w.status \in {"IDLE", "JOB"} /\ w.release = t /\ w.late = {}  BY <1>1, <1>5, <2>2
  <2> QED BY <2>1, <2>3, <2>4, <2>5, MissesRelease DEF y
<1> QED BY <1>1, <1>3, <1>4, <1>5

\* Where no event is due, the only miss to note is that of the last release of a
\* task in a job.
LEMMA OverdueIs ==
  ASSUME IInv, HistoryOK, JobsOK, MissesOK, ~Due(k), NEW p \in Edf
  PROVE  Overdue(p) <=> Life(k, p).status = "JOB" /\ Date(Life(k, p), p) = now
<1> DEFINE v == Life(k, p)
           b == base[p]
           d == done[p]
           n == d + v.nact + Busy(v)
           T == period[p]
           since == now - (b - rdeadline[p]) - DeadlineTimer(p)
<1>1. /\ Jobs(v, b, d, now, p) /\ Misses(v, missed[p], Serving, b, d, now, p)
      /\ LifeOK(v, p, now) /\ v \in Lives(p) /\ now \in Int /\ d \in Nat
      /\ b \in Int \cup {NIL}
  BY LifeKeeps, PidSets DEF JobsOK, MissesOK, LifeOK, IInv, HistoryOK
<1>2. /\ v.release \in Int /\ T \in Int /\ T > 0 /\ DeadlineTimer(p) \in Int
      /\ 0 <= DeadlineTimer(p) /\ DeadlineTimer(p) < T /\ rdeadline[p] \in Int
      /\ v.nact \in Nat /\ n \in Nat /\ Busy(v) \in {0, 1}
      /\ (v.status = "JOB" <=> Busy(v) = 1)
  BY <1>1, DateIs, TimeIs DEF Lives, Busy
<1>3. p \in Periodic <=> p \notin Sporadic  BY PidAssumption DEF Edf
<1>4. CASE v.status \notin {"IDLE", "JOB"}
  <2>1. b = NIL \/ (p \in Sporadic /\ d >= 1)  BY <1>1, <1>4 DEF Jobs
  <2>2. CASE b = NIL  BY <1>4, <2>2 DEF Overdue
  <2>3. CASE p \in Sporadic /\ d >= 1
    <3>1. ~(d <= 0)  BY <1>1, <2>3
    <3> QED BY <1>3, <1>4, <2>3, <3>1 DEF Overdue
  <2> QED BY <2>1, <2>2, <2>3
<1>5. CASE v.status \in {"IDLE", "JOB"}
  <2>1. /\ b # NIL /\ b \in Int /\ (p \in Sporadic => d = 0)  BY <1>1, <1>5 DEF Misses
  <2>2. /\ v.release = b - rdeadline[p] + Time(p, n)
        /\ n = 0 \/ v.release - T <= now
        /\ v.status = "IDLE" \/ p \in Sporadic => v.nact = 0
    BY <1>1, <1>5, <2>1 DEF Jobs
  <2>3. p \notin Sporadic \/ v.status = "IDLE" => v.release >= now + 1
    <3>1. CASE p \notin Sporadic  BY <1>5, <3>1, NextRelease
    <3>2. CASE v.status = "IDLE"
      <4>1. PICK a \in v.endperiod \cup v.offset : TRUE  BY <1>1, <3>2 DEF LifeOK
      <4>2. a = v.release  BY <1>1, <4>1 DEF LifeOK
      <4> QED BY <4>1, <4>2, LaterTimers
    <3> QED BY <3>1, <3>2
  <2>4. Time(p, n) \in Int  BY <1>2, TimeIs
  <2> HIDE DEF v, b, d, n, T
  <2>5. since = now - v.release + Time(p, n) - DeadlineTimer(p) /\ since \in Int
    BY <1>1, <1>2, <2>1, <2>2, <2>4
  <2> HIDE DEF since
  <2>6. CASE n = 0
    <3>1. v.status # "JOB"
      <4>1. d + v.nact + Busy(v) = 0 /\ d \in Nat /\ v.nact \in Nat  BY <1>1, <1>2, <2>6 DEF n
      <4>2. Busy(v) # 1  BY <1>2, <4>1
      <4> QED BY <1>2, <4>2
    <3>2. v.release >= now + 1 /\ Time(p, n) = 0  BY <1>5, <2>3, <2>6, <3>1, TimeIs
    <3>3. ~(since >= 0)  BY <1>1, <1>2, <2>5, <3>2
    <3> QED BY <3>1, <3>3 DEF Overdue, since, v, b
  <2>7. CASE n # 0
    <3> DEFINE q == n - 1
    <3>1. /\ q \in Nat /\ Time(p, n) = Time(p, q) + T /\ Time(p, q) \in Int
      <4>1. q \in Nat /\ n = q + 1  BY <1>2, <2>7
      <4> HIDE DEF q
      <4> QED BY <4>1, TimeIs DEF T
    <3> HIDE DEF q
    <3>2. Date(v, p) = v.release - T + DeadlineTimer(p)  BY DEF Date, T
    <3>3. since = Time(p, q) <=> Date(v, p) = now
      <4>1. /\ now \in Int /\ v.release \in Int /\ T \in Int /\ DeadlineTimer(p) \in Int
            /\ Time(p, q) \in Int
        BY <1>1, <1>2, <3>1
      <4>2. since = now - v.release + (Time(p, q) + T) - DeadlineTimer(p)  BY <2>5, <3>1
      <4>3. since - Time(p, q) = now - Date(v, p) /\ since \in Int /\ Date(v, p) \in Int
        BY <3>2, <4>1, <4>2
      <4> QED BY <4>1, <4>3
    <3>4. d <= q <=> v.status = "JOB"
      <4>1. n = d + v.nact + Busy(v) /\ q = n - 1  BY DEF n, q
      <4>2. v.status = "IDLE" => v.nact = 0 /\ Busy(v) = 0  BY <1>2, <2>2
      <4>3. v.status = "IDLE" \/ v.status = "JOB"  BY <1>5
      <4> QED BY <1>1, <1>2, <4>1, <4>2, <4>3
    <3>5. Time(p, q) >= 0  BY <1>2, <3>1 DEF Time, T
    <3>6. CASE p \in Periodic
      <4>1. v.release >= now + 1 /\ v.release - T <= now  BY <1>3, <2>2, <2>3, <2>7, <3>6
      <4> DEFINE r == since \div T
      <4>2. since = Time(p, q) => r = q
        <5>1. ASSUME since = Time(p, q) PROVE r = q
          <6>1. q * T <= since /\ since < q * T + T  BY <1>2, <2>5, <3>1, <5>1 DEF Time, T
          <6> QED BY <1>2, <2>5, <3>1, <6>1, DivIs
        <5> QED BY <5>1
      <4>3. since >= 0 /\ since = r * T => since = Time(p, q)
        <5>1. ASSUME since >= 0, since = r * T PROVE since = Time(p, q)
          <6>1. r \in Int  BY <1>2, <2>5
          <6> HIDE DEF r
          <6>2. since = Time(p, r)  BY <5>1 DEF Time, T
          <6>3. Time(p, q) - T < since /\ since < Time(p, q) + T  BY <1>1, <1>2, <2>5, <3>1, <4>1
          <6>4. r = q
            <7>1. Time(p, r) = r * T /\ Time(p, q) = q * T  BY DEF Time, T
            <7>2. (q - 1) * T = q * T - T /\ (q + 1) * T = q * T + T  BY <1>2, <3>1
            <7>3. ASSUME r <= q - 1 PROVE FALSE
              <8>1. r * T <= (q - 1) * T  BY <1>2, <3>1, <6>1, <7>3
              <8> QED BY <1>2, <3>1, <6>1, <6>2, <6>3, <7>1, <7>2, <8>1
            <7>4. ASSUME r >= q + 1 PROVE FALSE
              <8>1. r * T >= (q + 1) * T  BY <1>2, <3>1, <6>1, <7>4
              <8> QED BY <1>2, <3>1, <6>1, <6>2, <6>3, <7>1, <7>2, <8>1
            <7> QED BY <3>1, <6>1, <7>3, <7>4
          <6> QED BY <6>2, <6>4
        <5> QED BY <5>1
      <4>4. Overdue(p) <=> since >= 0 /\ since = r * T /\ d <= r
        BY <2>1, <3>6 DEF Overdue, since, b, d, T
      <4> HIDE DEF r
      <4>5. Time(p, q) = q * T  BY DEF Time, T
      <4>6. Overdue(p) <=> since = Time(p, q) /\ d <= q  BY <3>5, <4>2, <4>3, <4>4, <4>5
      <4> QED BY <3>3, <3>4, <4>6 DEF v
    <3>7. CASE p \in Sporadic
      <4>1. d = 0  BY <2>1, <3>7
      <4>2. Overdue(p) <=> since >= 0 /\ since = 0 * T /\ d <= 0
        BY <1>3, <2>1, <3>7 DEF Overdue, since, b, d, T
      <4>3. 0 * T = 0  BY <1>2
      <4>4. v.status = "JOB" => q = 0  BY <1>2, <2>2, <3>7, <4>1 DEF n, q
      <4>5. v.status = "IDLE" => n = 0  BY <1>2, <2>2, <4>1 DEF n
      <4>6. v.status = "JOB"  BY <1>5, <2>7, <4>5
      <4>7. Time(p, q) = 0  BY <4>4, <4>6, TimeIs
      <4> QED BY <2>5, <3>3, <4>1, <4>2, <4>3, <4>6, <4>7 DEF v
    <3> QED BY <1>3, <3>6, <3>7
  <2> QED BY <2>6, <2>7
<1> QED BY <1>4, <1>5

\* What of the deadlines is noted when time passes, or the interrupt ends.
LEMMA MissesPasses ==
  ASSUME NEW p \in Edf, NEW v \in Lives(p), NEW m \in SUBSET Int, NEW t \in Int,
         NEW s, NEW b, NEW d, Misses(v, m, s, b, d, t, p), s \in SUBSET {t},
         \A x \in v.deadline : x >= t + 1, NEW u \in Int, t <= u, u <= t + 1,
         NEW o, o = IF v.status = "JOB" /\ Date(v, p) = t THEN {t} ELSE {}
  PROVE  Misses(v, m \cup o, {}, b, d, u, p)
<1>1. /\ \A x \in v.deadline : x = Date(v, p) /\ x >= t /\ \A y \in m : y < x
      /\ \A y \in m : y <= t
      /\ Miss(v, p) \subseteq m \cup s
      /\ v.status \in {"IDLE", "JOB", "WAIT"} => \A y \in m : y < v.release
      /\ v.status = "SLEEP" => \A y \in m : y < t
      /\ v.late # {} => v.release <= t
      /\ v.status # "FREE" => IsFiniteSet(m) /\ v.dl_miss = Cardinality(m \cup Miss(v, p))
      /\ v.status \in {"IDLE", "JOB"} => b # NIL /\ (p \in Sporadic => d = 0)
  BY DEF Misses
<1>2. /\ Date(v, p) \in Int /\ v.release \in Int /\ Date(v, p) < v.release
      /\ v.deadline \in SUBSET Int
  BY DateIs DEF Lives
<1>3. ASSUME NEW y \in o
      PROVE  y = t /\ v.status = "JOB" /\ Date(v, p) = t /\ v.deadline = {}
  <2>1. y = t /\ v.status = "JOB" /\ Date(v, p) = t  OBVIOUS
  <2>2. ASSUME NEW x \in v.deadline PROVE FALSE
    <3>1. x = t /\ x >= t + 1  BY <1>1, <2>1
    <3> QED BY <3>1
  <2> QED BY <2>1, <2>2
<1>4. Miss(v, p) \subseteq m \cup o
  <2>1. ASSUME NEW x \in Miss(v, p), x \notin m PROVE x \in o
    <3>1. x = Date(v, p) /\ v.status = "JOB" /\ x \in s  BY <1>1, <2>1 DEF Miss
    <3>2. x = t  BY <3>1
    <3> QED BY <3>1, <3>2
  <2> QED BY <2>1
<1>5. o \subseteq Miss(v, p)  BY <1>3 DEF Miss
<1>6. (m \cup o) \cup Miss(v, p) = m \cup Miss(v, p)  BY <1>5
<1>7. v.status # "FREE" =>
        IsFiniteSet(m \cup o) /\ v.dl_miss = Cardinality((m \cup o) \cup Miss(v, p))
  <2>1. IsFiniteSet(o)
    <3>1. o = {} \/ o = {t}  OBVIOUS
    <3> QED BY <3>1, FS_EmptySet, FS_Singleton
  <2>2. v.status # "FREE" => IsFiniteSet(m \cup o)  BY <1>1, <2>1, FS_Union
  <2> QED BY <1>1, <1>6, <2>2
<1>8. \A x \in v.deadline : x = Date(v, p) /\ x >= u /\ \A y \in m \cup o : y < x
  <2> SUFFICES ASSUME NEW x \in v.deadline
               PROVE  x = Date(v, p) /\ x >= u /\ \A y \in m \cup o : y < x
    OBVIOUS
  <2>1. x \in Int /\ x >= t + 1 /\ x = Date(v, p) /\ \A y \in m : y < x  BY <1>1, <1>2
  <2>2. x >= u  BY <2>1
  <2>3. o = {}  BY <1>3
  <2> QED BY <2>1, <2>2, <2>3
<1>9. \A y \in m \cup o : y <= u
  <2>1. \A y \in m \cup o : y \in Int /\ y <= t  BY <1>1, <1>3
  <2> QED BY <2>1
<1>10. v.status \in {"IDLE", "JOB", "WAIT"} => \A y \in m \cup o : y < v.release  BY <1>1, <1>2, <1>3
<1>11. v.status = "SLEEP" => \A y \in m \cup o : y < u
  <2> SUFFICES ASSUME v.status = "SLEEP", NEW y \in m \cup o PROVE y < u  OBVIOUS
  <2>1. y \in m  BY <1>3
  <2>2. y \in Int /\ y < t  BY <1>1, <2>1
  <2> QED BY <2>2
<1>12. v.late # {} => v.release <= u  BY <1>1, <1>2
<1>13. Miss(v, p) \subseteq (m \cup o) \cup {}  BY <1>4
<1>14. v.status \in {"IDLE", "JOB"} => b # NIL /\ (p \in Sporadic => d = 0)  BY <1>1
<1> HIDE DEF Miss, Date
<1> QED BY <1>7, <1>8, <1>9, <1>10, <1>11, <1>12, <1>13, <1>14 DEF Misses

LEMMA NextMisses ==
  ASSUME ~DisableAnyJob, NIL \notin Int, IInv, HistoryOK, JobsOK, MissesOK, [Next]_vars
  PROVE  MissesOK'
<1> SUFFICES ASSUME NEW p \in Edf
             PROVE  Misses(Life(k', p), missed'[p], Serving', base'[p], done'[p], now', p)
  BY DEF MissesOK
<1> DEFINE v == Life(k, p)
           w == Life(k', p)
           m == missed[p]
           s == Serving
           b == base[p]
           d == done[p]
           t == now
<1>1. /\ Jobs(v, b, d, t, p) /\ LifeOK(v, p, t) /\ v \in Lives(p)
      /\ Misses(v, m, s, b, d, t, p) /\ t \in Int /\ m \in SUBSET Int /\ s \in SUBSET {t}
  <2>1. now \in Int /\ Serving \in SUBSET {now}  BY DEF IInv, Serving
  <2> QED BY <2>1, LifeKeeps, PidSets DEF JobsOK, MissesOK, HistoryOK, LifeOK
<1>2. Steps(p)  BY NextSteps
<1>3. CASE Nothing(p)
  <2>1. w = v /\ base'[p] = b /\ done'[p] = d /\ now' = t /\ missed'[p] = m  BY <1>3 DEF Nothing, Stays
  <2> DEFINE z == Serving'
  <2>2. m \cup s \subseteq m \cup z  BY <1>3, <2>1 DEF Nothing, Serving
  <2> HIDE DEF v, w, m, s, b, d, t, z
  <2>3. Misses(v, m, z, b, d, t, p)  BY <1>1, <2>2, MissesSame
  <2> QED BY <2>1, <2>3 DEF z, w
<1>4. CASE Passes(p)
  <2> DEFINE u == now'
             o == IF v.status = "JOB" /\ Date(v, p) = t THEN {t} ELSE {}
  <2>1. /\ w = v /\ base'[p] = b /\ done'[p] = d /\ u \in Int /\ t <= u /\ u <= t + 1
        /\ \A x \in v.deadline : x >= t + 1
        /\ Serving' = {}
    BY <1>1, <1>4 DEF Passes, Stays, Serving
  <2>2. missed'[p] = m \cup o
    <3>1. Overdue(p) <=> v.status = "JOB" /\ Date(v, p) = t  BY <1>4, OverdueIs DEF Passes
    <3> QED BY <1>4, <3>1 DEF Passes
  <2>3. o = IF v.status = "JOB" /\ Date(v, p) = t THEN {t} ELSE {}  OBVIOUS
  <2> HIDE DEF v, w, m, s, b, d, t, u, o
  <2>4. Misses(v, m \cup o, {}, b, d, u, p)  BY <1>1, <2>1, <2>3, MissesPasses
  <2> QED BY <2>1, <2>2, <2>4 DEF w, u
<1>c. ASSUME Called PROVE s = {} /\ Serving' = {} /\ now' = t  BY <1>c DEF Called, Serving
<1>5. CASE Created(p)
  <2>1. /\ v.status = "FREE" /\ (w = CreateLife(v) \/ w = v)
        /\ base'[p] = b /\ done'[p] = 0 /\ missed'[p] = {} /\ Called
    BY <1>5 DEF Created
  <2>2. s = {} /\ Serving' = {} /\ now' = t  BY <1>c, <2>1
  <2> HIDE DEF v, w, m, s, b, d, t
  <2>3. Misses(w, {}, s, b, 0, t, p)  BY <1>1, <2>1, MissesCreate
  <2> QED BY <2>1, <2>2, <2>3 DEF w
<1>6. CASE Activated(p)
  <2> DEFINE c == t + (offset[p] + rdeadline[p])
  <2>1. /\ v.status = "SLEEP" /\ w = ActivateLife(v, p, t)
        /\ base'[p] = c /\ done'[p] = 0 /\ missed'[p] = m /\ Called
    BY <1>6 DEF Activated, Called
  <2>2. s = {} /\ Serving' = {} /\ now' = t  BY <1>c, <2>1
  <2>3. c # NIL  BY <1>1, TimeIs
  <2> HIDE DEF v, w, m, s, b, d, t, c
  <2>4. Misses(ActivateLife(v, p, t), m, s, c, 0, t, p)  BY <1>1, <2>1, <2>3, MissesActivate
  <2> QED BY <2>1, <2>2, <2>4 DEF w
<1>7. CASE Ended(p)
  <2>1. /\ v.status = "JOB" /\ w = EndcycleLife(v, p)
        /\ base'[p] = b /\ done'[p] = d + 1 /\ missed'[p] = m /\ Called
    BY <1>7 DEF Ended
  <2>2. s = {} /\ Serving' = {} /\ now' = t  BY <1>c, <2>1
  <2> DEFINE e == d + 1
  <2> HIDE DEF v, w, m, s, b, d, t
  <2>3. Misses(v, m, {}, b, d, t, p)  BY <1>1, <2>2
  <2>4. Misses(EndcycleLife(v, p), m, {}, b, IF v.nact > 0 THEN d + 1 ELSE e, t, p)
    BY <1>1, <2>1, <2>3, MissesEndcycle
  <2>5. (IF v.nact > 0 THEN d + 1 ELSE e) = d + 1  OBVIOUS
  <2> QED BY <2>1, <2>2, <2>4, <2>5 DEF w
<1>8. CASE Disabled(p)
  <2>1. /\ v.status = "IDLE" /\ w = DisableLife(v, p)
        /\ base'[p] = NIL /\ done'[p] = d /\ missed'[p] = m /\ Called
    BY <1>8 DEF Disabled
  <2>2. s = {} /\ Serving' = {} /\ now' = t  BY <1>c, <2>1
  <2> HIDE DEF v, w, m, s, b, d, t
  <2>3. Misses(DisableLife(v, p), m, s, NIL, d, t, p)  BY <1>1, <2>1, MissesDisable
  <2> QED BY <2>1, <2>2, <2>3 DEF w
<1>9. CASE Over(p)
  <2> DEFINE c == NIL
  <2>1. /\ v.status = "JOB" /\ w = EndLife(v, p)
        /\ base'[p] = c /\ done'[p] = d /\ missed'[p] = m /\ Called
    BY <1>9 DEF Over
  <2>2. s = {} /\ Serving' = {} /\ now' = t  BY <1>c, <2>1
  <2> HIDE DEF v, w, m, s, b, d, t, c
  <2>3. Misses(v, m, {}, b, d, t, p)  BY <1>1, <2>2
  <2>4. Misses(EndLife(v, p), m, {}, c, d, t, p)  BY <1>1, <2>1, <2>3, MissesEnd
  <2> QED BY <2>1, <2>2, <2>4 DEF w
<1>f. ASSUME Fires(p)
      PROVE  /\ Serving' = {t} /\ now' = t /\ base'[p] = b /\ done'[p] = d
             /\ missed'[p] = m
  BY <1>f DEF Fires, Stays, Serving
<1>10. CASE DeadlineFires(p)
  <2>1. Fires(p) /\ w = DeadlineLife(v)  BY <1>10 DEF DeadlineFires
  <2>2. PICK x \in Int : x <= t /\ v.deadline = {x}  BY <1>10 DEF DeadlineFires
  <2>3. /\ Serving' = {t} /\ now' = t /\ base'[p] = b /\ done'[p] = d
        /\ missed'[p] = m
    BY <1>f, <2>1
  <2> HIDE DEF v, w, m, s, b, d, t
  <2>4. Misses(DeadlineLife(v), m, {t}, b, d, t, p)  BY <1>1, <2>2, MissesDeadline
  <2> QED BY <2>1, <2>3, <2>4 DEF w
<1>11. CASE OffsetFires(p)
  <2>1. Fires(p) /\ v.status = "IDLE" /\ v.release <= t /\ w = OffsetLife(v, p)  BY <1>11 DEF OffsetFires
  <2>2. /\ Serving' = {t} /\ now' = t /\ base'[p] = b /\ done'[p] = d
        /\ missed'[p] = m
    BY <1>f, <2>1
  <2> DEFINE z == {t}
  <2> HIDE DEF v, w, m, s, b, d, t, z
  <2>3. Misses(OffsetLife(v, p), m, z, b, d, t, p)  BY <1>1, <2>1, MissesOffset
  <2> QED BY <2>1, <2>2, <2>3 DEF w, z
<1>12. CASE EndperiodFires(p)
  <2>1. Fires(p) /\ v.endperiod # {} /\ v.release <= t /\ w = EndperiodLife(v, p)
    BY <1>12 DEF EndperiodFires
  <2>2. /\ Serving' = {t} /\ now' = t /\ base'[p] = b /\ done'[p] = d
        /\ missed'[p] = m
    BY <1>f, <2>1
  <2> HIDE DEF v, w, m, s, b, d, t
  <2>3. Misses(EndperiodLife(v, p), m, {t}, b, d, t, p)  BY <1>1, <2>1, MissesEndperiod
  <2> QED BY <2>1, <2>2, <2>3 DEF w
<1> QED BY <1>2, <1>3, <1>4, <1>5, <1>6, <1>7, <1>8, <1>9, <1>10, <1>11, <1>12 DEF Steps

LEMMA InitMisses ==
  ASSUME Init
  PROVE  MissesOK
<1> SUFFICES ASSUME NEW p \in Edf
             PROVE  Misses(Life(k, p), missed[p], Serving, base[p], done[p], now, p)
  BY DEF MissesOK
<1> DEFINE v == Life(k, p)
<1>1. v = Life(k0, p)  BY StartAlive DEF Alive
<1>2. v.status = "FREE" /\ v.late = {}  BY <1>1, PidSets, FreeLife, LifeReads DEF k0
<1>3. v.deadline = {}  BY <1>1, LifeReads DEF Timers, Members, Handlers, k0
<1> HIDE DEF v
<1> QED BY <1>2, <1>3 DEF v, Misses, Miss, Init

LEMMA MissesAreExact == IInv /\ MissesOK => DeadlineMissExact
<1> SUFFICES ASSUME IInv, MissesOK, ~irq, NEW p \in Edf, k.status[p] # "FREE"
             PROVE  k.dl_miss[p] = Cardinality(missed[p])
  BY DEF DeadlineMissExact
<1> DEFINE v == Life(k, p)
           m == missed[p]
<1>2. v.status # "FREE" /\ v.dl_miss = k.dl_miss[p]  BY FreeLife, LifeReads
<1> QED BY <1>2 DEF Misses, MissesOK, Serving

\* The count of missed deadlines, dl_miss, is the number of jobs that were not over
\* at the date of their deadline timer: edf.c has one such timer for all the jobs
\* of a task, set again by each release and deleted when the last job ends. A
\* task is disabled only between two jobs, and NIL stands for no time.
THEOREM TheMissesAreExact ==
  ASSUME ~DisableAnyJob, NIL \notin Int
  PROVE  Spec => []DeadlineMissExact
<1>1. Init => HistoryOK /\ JobsOK /\ MissesOK  BY InitHistory, InitJobs, InitMisses
<1>2. IInv /\ HistoryOK /\ JobsOK /\ MissesOK /\ [Next]_vars
      => HistoryOK' /\ JobsOK' /\ MissesOK'
  BY NextHistory, NextJobs, NextMisses
<1>3. IInv /\ MissesOK => DeadlineMissExact  BY MissesAreExact
<1> QED BY <1>1, <1>2, <1>3, AlwaysIInv, PTL DEF Spec

------------------------------
(* The activations of a soft task that saves them *)

LEMMA ArrivalsAs ==
  ASSUME NEW r, NEW kk, NEW p, ServerAs(r, kk, p), NEW b, NEW d, NEW a, NEW t,
         Arrivals(kk, p, b, d, a, t)
  PROVE  Arrivals(r, p, b, d, a, t)
BY DEF ServerAs, Arrivals, Spaced, Known, Recurs, Ripe, Within, InJobs

LEMMA ServerTrans ==
  ASSUME NEW a, NEW b, NEW c, NEW q, ServerAs(a, b, q), ServerAs(b, c, q)
  PROVE  ServerAs(a, c, q)
BY DEF ServerAs

LEMMA ServerOthers ==
  ASSUME NEW r, Wellformed(r), NEW kk, Wellformed(kk), NEW p, Others(r, kk, p),
         Still(r, kk, p) \/ Quiet(r, kk), NEW q \in Soft, q # p
  PROVE  ServerAs(r, kk, q)
BY PidSets, OthersTimers DEF ServerAs, Others, Alike, Apart, Still, Quiet, Held

LEMMA ServerLikewise ==
  ASSUME NEW r, NEW kk, Likewise(r, kk), Quiet(r, kk), NEW q \in Soft
  PROVE  ServerAs(r, kk, q)
BY PidSets DEF ServerAs, Likewise, Alike, Quiet, Held

LEMMA ServerScheduled ==
  ASSUME NEW r, NEW kk, Scheduled(r, kk), NEW q \in Soft
  PROVE  ServerAs(r, kk, q)
<1>2. Quiet(r, kk) /\ r.release = kk.release /\ r.nact = kk.nact
  BY DEF Scheduled, Same, Fields, UnmovedFields, Quiet
<1> QED BY <1>2, PidSets DEF ServerAs, Unmoved, CanRun, InJobs, Quiet, Held, Scheduled

LEMMA ServerReturn ==
  ASSUME NEW kk, Wellformed(kk), Return(kk), NEW q \in Soft
  PROVE  ServerAs(k', kk, q)
<1> DEFINE r == [kk EXCEPT !.resched = FALSE]
<1>1. k' = r  BY DEF Return
<1>2. Likewise(r, kk) /\ Same(r, kk, {"resched"})  BY ReschedIs
<1> HIDE DEF r
<1> QED BY <1>1, <1>2, QuietSame, ServerLikewise

LEMMA ServerGiveUp ==
  ASSUME NEW kk, NEW t, AllOK(kk, NIL, t), ~Posted(kk, "capacity", NIL), Return(GiveUp(kk)),
         NEW q \in Soft
  PROVE  ServerAs(k', kk, q)
<1> DEFINE r == GiveUp(kk)
<1> HIDE DEF r
<1> QED BY GiveUpIs, ServerScheduled, ServerReturn, ServerTrans DEF Settled, AllOK

LEMMA ServerScheduler ==
  ASSUME NEW kk, AllOK(kk, kk.exec_shadow, now), kk.exec_shadow \in Pids, now \in Int,
         Return(scheduler(kk)), NEW q \in Soft
  PROVE  ServerAs(k', kk, q)
<1> DEFINE r == scheduler(kk)
<1> HIDE DEF r
<1> QED BY schedulerIs, ServerScheduled, ServerReturn, ServerTrans DEF Settled, AllOK

LEMMA ServerIs ==
  ASSUME NEW kk, Wellformed(kk), NEW p \in SaveArrivals
  PROVE  /\ p \in Soft /\ p \in Pids /\ p \in Ranked /\ p # Dummy /\ p \notin RrTasks
         /\ p \notin Edf /\ p \notin Periodic /\ period[p] \in Int /\ period[p] > 0
         /\ kk.status \in [Pids -> Statuses] /\ kk.nact \in [Ranked -> Nat]
         /\ kk.release[p] \in Int /\ kk.nact[p] \in Nat /\ Held(kk, p) \in Int
         /\ kk.frozen \subseteq Freezable /\ kk.frozen_activations \in [Freezable -> Int]
BY CbsAssumption, KernelFields, PidSets DEF Edf, Held, Wellformed

LEMMA SoftTime ==
  ASSUME NEW p \in Soft, NEW n \in Int
  PROVE  Time(p, n) \in Int /\ Time(p, 1) = period[p] /\ Time(p, n + 1) = Time(p, n) + period[p]
BY CbsAssumption DEF Time

\* What each call does to the activations of p.
LEMMA ArrivalsActivate ==
  ASSUME IInv, NIL \notin Int, NEW p \in SaveArrivals, k.status[p] # "FREE", p \notin k.frozen,
         NEW b, NEW d \in Int, NEW a \in Int, Arrivals(k, p, b, d, a, now)
  PROVE  Arrivals(CBS_activate(k, p), p, IF k.status[p] = "SLEEP" THEN now ELSE b, d,
                  IF Arrives(p) THEN a + 1 ELSE a, now)
<1> DEFINE r == CBS_activate(k, p)
<1>1. AllOK(k, k.exec_shadow, now) /\ now \in Int /\ Wellformed(k)  BY DEF IInv, AllOK
<1>2. p \in Soft  BY CbsAssumption
<1>3. /\ AllOK(r, k.exec_shadow, now)
      /\ Same(r, k, {"asleep", "nact", "cbs_dline", "avail", "dline", "edf", "status",
                     "release", "events"})
      /\ CASE k.status[p] # "SLEEP" /\ p \in k.asleep ->
                Same(r, k, {"asleep"}) /\ r.asleep = k.asleep \ {p}
          [] k.status[p] # "SLEEP" /\ p \notin k.asleep -> r = CBS_save(k, p)
          [] OTHER ->
               /\ r.status[p] = "READY" /\ r.nact = k.nact /\ r.asleep = k.asleep \ {p}
               /\ p \in SoftPeriodic =>
                    r.release[p] = now + period[p] /\ Timers(r, p)["reactivate"] # {}
  BY <1>1, <1>2, CBS_activateIs
<1> HIDE DEF r
<1>5. Held(r, p) = 0 /\ Held(k, p) = 0  BY <1>3 DEF Held, Same, Fields
<1>6. /\ period[p] \in Int /\ period[p] > 0 /\ k.release[p] \in Int /\ k.nact[p] \in Nat
      /\ k.nact \in [Ranked -> Nat] /\ p \in Ranked
  BY <1>1, ServerIs
<1> DEFINE c == IF Arrives(p) THEN a + 1 ELSE a
           v == IF k.status[p] = "SLEEP" THEN now ELSE b
<1> SUFFICES Arrivals(r, p, v, d, c, now)  BY DEF r
<1>7. CASE k.status[p] = "SLEEP"
  <2>1. /\ r.status[p] = "READY" /\ r.nact[p] = k.nact[p] /\ p \notin r.asleep
        /\ p \in SoftPeriodic =>
             r.release[p] = now + period[p] /\ Timers(r, p)["reactivate"] # {}
    BY <1>3, <1>7
  <2>3. Recurs(r, p) => r.release[p] - period[p] <= now /\ ~(r.release[p] <= now) /\ now # NIL
    BY <1>1, <1>6, <2>1 DEF Recurs
  <2>4. Spaced(r, p, now, now)  BY <1>2, <2>1, <2>3, SoftTime DEF Spaced, Recurs
  <2>6. Within(r, p) = 1 /\ Within(k, p) = 0  BY <1>7, <2>1 DEF Within, InJobs
  <2>7. Known(r, p, d, now) = Known(k, p, d, now) + 1
    BY <1>5, <1>6, <1>7, <2>1, <2>3, <2>6 DEF Known, Ripe, Recurs
  <2>8. Known(k, p, d, now) = a /\ c = a + 1  BY <1>7 DEF Arrivals, Arrives
  <2>9. v = now  BY <1>7
  <2> HIDE DEF c, v
  <2> QED BY <2>1, <2>4, <2>7, <2>8, <2>9 DEF Arrivals
<1>8. CASE k.status[p] # "SLEEP" /\ p \in k.asleep
  <2>1. Same(r, k, {"asleep"}) /\ p \notin r.asleep  BY <1>3, <1>8
  <2>2. r.status = k.status /\ r.nact = k.nact /\ r.release = k.release /\ r.events = k.events
    BY <2>1 DEF Same, Fields
  <2>4. k.status[p] = "IDLE" /\ p \in SoftPeriodic  BY <1>8 DEF Arrivals
  <2>5. Spaced(r, p, b, now) /\ Recurs(r, p)  BY <2>2, <2>4 DEF Spaced, Recurs, Arrivals, Timers
  <2>6. Ripe(k, p, now) = 0 /\ Ripe(r, p, now) = IF Arrives(p) THEN 1 ELSE 0
    BY <1>8, <2>1, <2>2, <2>4, <2>5 DEF Ripe, Arrives, IsDue
  <2>9. Known(r, p, d, now) = c  BY <1>5, <1>6, <2>2, <2>4, <2>6 DEF Known, Within, InJobs, Arrivals
  <2>10. v = b  BY <1>8
  <2> HIDE DEF c, v
  <2> QED BY <2>1, <2>2, <2>4, <2>5, <2>9, <2>10 DEF Arrivals
<1>9. CASE k.status[p] # "SLEEP" /\ p \notin k.asleep
  <2>1. Same(r, k, {"nact"}) /\ r.nact[p] = k.nact[p] + 1
    <3>1. r = CBS_save(k, p)  BY <1>3, <1>9
    <3> QED BY <1>1, <1>2, <1>6, <3>1, CBS_saveIs
  <2>2. /\ r.status = k.status /\ r.asleep = k.asleep /\ r.release = k.release
        /\ r.events = k.events
    BY <2>1 DEF Same, Fields
  <2>4. /\ (Recurs(r, p) <=> Recurs(k, p)) /\ Ripe(r, p, now) = Ripe(k, p, now)
        /\ Within(r, p) = Within(k, p) /\ Within(k, p) \in Int /\ Ripe(k, p, now) \in Int
    BY <2>2 DEF Recurs, Ripe, Within
  <2>5. Known(r, p, d, now) = Known(k, p, d, now) + 1  BY <1>5, <1>6, <2>1, <2>4 DEF Known
  <2>7. k.status[p] # "ZOMBIE" => c = a + 1  BY <1>9 DEF Arrives
  <2>8. v = b  BY <1>9
  <2> HIDE DEF c, v
  <2> QED BY <1>9, <2>2, <2>4, <2>5, <2>7, <2>8 DEF Arrivals, Spaced, Timers
<1> QED BY <1>7, <1>8, <1>9

LEMMA ArrivalsReactivate ==
  ASSUME NEW r, NEW kk, Wellformed(kk), NEW p \in SaveArrivals, NIL \notin Int, Quiet(r, kk),
         p \in SoftPeriodic, NEW t \in Int, kk.release[p] = t,
         kk.status[p] \notin {"FREE", "SLEEP", "ZOMBIE"},
         IF p \in kk.asleep /\ kk.status[p] = "IDLE"
           THEN r.status[p] = "SLEEP" /\ r.nact = kk.nact
           ELSE /\ r.release[p] = kk.release[p] + period[p] /\ Timers(r, p)["reactivate"] # {}
                /\ IF kk.status[p] = "IDLE" THEN r.status[p] = "READY" /\ r.nact = kk.nact
                   ELSE r.status[p] = kk.status[p] /\ r.nact = CBS_save(kk, p).nact,
         NEW b, b # NIL => b \in Int, NEW d \in Int, NEW a \in Int, Arrivals(kk, p, b, d, a, t)
  PROVE  Arrivals(r, p, b, d, a, t)
<1>1. p \in Soft  BY CbsAssumption
<1>3. /\ period[p] \in Int /\ period[p] > 0 /\ kk.release[p] \in Int /\ kk.nact[p] \in Nat
      /\ Held(kk, p) \in Int
  BY ServerIs
<1>4. Held(r, p) = Held(kk, p) /\ (p \in r.asleep <=> p \in kk.asleep)  BY DEF Quiet, Held
<1>5. Known(kk, p, d, t) = a /\ Recurs(kk, p) /\ kk.release[p] <= t  BY DEF Arrivals, Recurs
<1>6. CASE p \in kk.asleep
  <2>1. kk.status[p] = "IDLE"  BY <1>6 DEF Arrivals
  <2>2. r.status[p] = "SLEEP" /\ r.nact[p] = kk.nact[p]  BY <1>6, <2>1
  <2>3. ~Recurs(r, p) /\ Ripe(r, p, t) = 0 /\ Ripe(kk, p, t) = 0  BY <1>6, <2>2 DEF Ripe, Recurs
  <2>5. Known(r, p, d, t) = a  BY <1>3, <1>4, <1>5, <2>1, <2>2, <2>3 DEF Known, Within, InJobs
  <2> QED BY <1>4, <1>6, <2>2, <2>3, <2>5 DEF Arrivals, Spaced
<1>7. CASE p \notin kk.asleep
  <2>1. /\ r.release[p] = kk.release[p] + period[p] /\ Timers(r, p)["reactivate"] # {}
        /\ IF kk.status[p] = "IDLE" THEN r.status[p] = "READY" /\ r.nact = kk.nact
           ELSE r.status[p] = kk.status[p] /\ r.nact = CBS_save(kk, p).nact
    BY <1>7
  <2>3. /\ r.status[p] \notin {"FREE", "SLEEP", "ZOMBIE"}
        /\ r.nact[p] + Within(r, p) = kk.nact[p] + Within(kk, p) + 1
        /\ r.nact[p] \in Int /\ Within(r, p) \in Int /\ Within(kk, p) \in Int
    <3>1. CASE kk.status[p] = "IDLE"  BY <1>3, <2>1, <3>1 DEF Within, InJobs
    <3>2. CASE kk.status[p] # "IDLE"
      <4>1. CBS_save(kk, p).nact = [kk.nact EXCEPT ![p] = @ + 1]  BY <1>1, CBS_saveIs
      <4> QED BY <1>3, <2>1, <3>2, <4>1, ServerIs DEF Within
    <3> QED BY <3>1, <3>2
  <2>4. Known(r, p, d, t) = a  BY <1>3, <1>4, <1>5, <1>7, <2>1, <2>3 DEF Known, Ripe
  <2>5. PICK n \in Int : kk.release[p] = b + Time(p, n)  BY <1>5 DEF Arrivals, Spaced
  <2>6. b # NIL /\ b \in Int  BY <1>5 DEF Arrivals, Spaced
  <2>7. n + 1 \in Int /\ r.release[p] = b + Time(p, n + 1)
    <3>1. Time(p, n) \in Int /\ Time(p, n + 1) = Time(p, n) + period[p]  BY <1>1, SoftTime
    <3> QED BY <1>3, <2>1, <2>5, <2>6, <3>1
  <2>9. Spaced(r, p, b, t)  BY <1>3, <1>5, <2>1, <2>6, <2>7 DEF Spaced
  <2> QED BY <1>4, <1>7, <2>3, <2>4, <2>9 DEF Arrivals
<1> QED BY <1>6, <1>7

LEMMA ArrivalsEndcycle ==
  ASSUME NEW kk, NEW p \in SaveArrivals, NEW t, AllOK(kk, p, now), t = now, now \in Int,
         NEW b, NEW d \in Int, NEW a \in Int, Arrivals(kk, p, b, d, a, t)
  PROVE  Arrivals(CBS_endcycle(kk, p), p, b, d + 1, a, t)
<1> DEFINE r == CBS_endcycle(kk, p)
<1>1. p \in Soft /\ Wellformed(kk)  BY CbsAssumption DEF AllOK
<1>2. /\ AllOK(r, NIL, now) /\ Quiet(r, kk) /\ kk.status[p] = "EXE" /\ r.release = kk.release
      /\ Timers(r, p) = Timers(kk, p)
      /\ IF kk.nact[p] > 0 THEN r.status[p] = "READY" /\ r.nact[p] = kk.nact[p] - 1
         ELSE /\ r.status[p] = IF p \in SoftPeriodic THEN "IDLE" ELSE "SLEEP"
              /\ r.nact = kk.nact
  BY <1>1, CBS_endcycleIs
<1> HIDE DEF r
<1>4. p \notin kk.asleep  BY <1>2 DEF Arrivals
<1>5. Held(r, p) = Held(kk, p) /\ p \notin r.asleep  BY <1>2, <1>4 DEF Quiet, Held
<1>6. /\ r.status[p] \in {"READY", "IDLE", "SLEEP"}
      /\ r.status[p] = "SLEEP" <=> p \notin SoftPeriodic /\ r.status[p] # "READY"
      /\ Within(r, p) = IF r.status[p] = "READY" THEN 1 ELSE 0
      /\ Within(kk, p) = 1
  BY <1>2 DEF Within, InJobs
<1>7. Recurs(r, p) <=> Recurs(kk, p)  BY <1>2, <1>6 DEF Recurs
<1>10. Known(r, p, d + 1, t) = Known(kk, p, d, t)
  BY <1>1, <1>2, <1>4, <1>5, <1>6, <1>7, ServerIs DEF Known, Ripe
<1> QED BY <1>2, <1>5, <1>6, <1>7, <1>10 DEF r, Arrivals, Spaced

LEMMA ArrivalsOver ==
  ASSUME NEW r, NEW kk, NEW p, NEW b, NEW d, NEW a, NEW t, Arrivals(kk, p, b, d, a, t),
         Quiet(r, kk), kk.status[p] \in {"EXE", "ZOMBIE"}, r.status[p] \in {"FREE", "ZOMBIE"}
  PROVE  Arrivals(r, p, NIL, d, a, t)
BY DEF Arrivals, Spaced, Recurs, Quiet

LEMMA ArrivalsDisable ==
  ASSUME IInv, NEW p \in SaveArrivals, p \in SoftPeriodic, k.status[p] = "IDLE",
         NEW b, NEW d \in Int, NEW a \in Int, Arrivals(k, p, b, d, a, now)
  PROVE  Arrivals(CBS_message(k, p, "disable"), p, b, d,
                  IF p \notin k.asleep /\ IsDue(p) THEN a - 1 ELSE a, now)
<1> DEFINE P == k.asleep \cup {p}
           r == [k EXCEPT !.asleep = P]
           c == IF p \notin k.asleep /\ IsDue(p) THEN a - 1 ELSE a
<1>1. Wellformed(k) /\ now \in Int /\ CBS_message(k, p, "disable") = r  BY DEF IInv, AllOK, CBS_message
<1>2. P \in SUBSET Pids /\ p \in P  BY <1>1, ServerIs, KernelFields DEF Wellformed
<1> HIDE DEF P
<1>3. Same(r, k, {"asleep"}) /\ r.asleep = P
  BY <1>1, <1>2, AsleepIs, KernelFields DEF Wellformed, Kernels
<1> HIDE DEF r
<1>4. /\ r.status = k.status /\ r.nact = k.nact /\ r.release = k.release /\ r.events = k.events
      /\ r.frozen = k.frozen /\ r.frozen_activations = k.frozen_activations
  BY <1>3 DEF Same, Fields
<1>8. /\ Within(k, p) = 0 /\ Within(r, p) = 0 /\ Ripe(r, p, now) = 0
      /\ Ripe(k, p, now) = IF p \notin k.asleep /\ IsDue(p) THEN 1 ELSE 0
  BY <1>2, <1>3, <1>4 DEF Within, InJobs, Ripe, Recurs, IsDue
<1>10. Known(r, p, d, now) = c  BY <1>1, <1>4, <1>8, ServerIs DEF Known, Held, Arrivals
<1> HIDE DEF c
<1>11. Arrivals(r, p, b, d, c, now)  BY <1>2, <1>3, <1>4, <1>10
                                        DEF Arrivals, Spaced, Recurs, Timers
<1> QED BY <1>1, <1>11 DEF c

LEMMA ArrivalsFrozen ==
  ASSUME NEW r, NEW kk, Wellformed(kk), NEW p \in SaveArrivals, NEW t \in Int,
         Same(r, kk, {"frozen", "frozen_activations"}), Held(r, p) \in Int,
         NEW b, NEW d \in Int, NEW a \in Int, Arrivals(kk, p, b, d, a, t)
  PROVE  Arrivals(r, p, b, d, a + Held(r, p) - Held(kk, p), t)
<1>1. /\ r.status = kk.status /\ r.nact = kk.nact /\ r.release = kk.release
      /\ r.events = kk.events /\ r.asleep = kk.asleep
  BY DEF Same, Fields
<1>3. Spaced(r, p, b, t)  BY <1>1 DEF Arrivals, Spaced, Recurs, Timers
<1> QED BY <1>1, <1>3, ServerIs DEF Arrivals, Known, Within, Ripe, Recurs

\* A new descriptor: the flag and the count of p are reset after its level's part.
LEMMA ArrivalsCreate ==
  ASSUME IInv, NEW p \in SaveArrivals, k.status[p] = "FREE", NEW d, NEW a,
         NEW b, Arrivals(k, p, b, d, a, now), NEW r, r = CBS_create(k, p)
  PROVE  Arrivals(Unfreeze(r, p), p, b, 0, 0, now)
<1>1. p \in Soft /\ p \in Pids /\ Wellformed(k)  BY CbsAssumption, PidSets DEF IInv, AllOK
<1>2. Wellformed(r) /\ r.status[p] = "SLEEP" /\ r.nact[p] = 0 /\ r.asleep = k.asleep \ {p}
  BY <1>1, CBS_createIs
<1> DEFINE s == Unfreeze(r, p)
<1>3. Same(s, r, {"frozen", "frozen_activations"})  BY <1>1, <1>2, UnfreezeIs
<1>4. p \notin s.frozen  BY <1>2, KernelFields DEF Wellformed, Kernels, Unfreeze
<1> HIDE DEF s
<1>5. s.status[p] = "SLEEP" /\ s.nact[p] = 0 /\ p \notin s.asleep  BY <1>2, <1>3 DEF Same, Fields
<1>6. Known(s, p, 0, now) = 0 /\ Spaced(s, p, b, now)
  BY <1>4, <1>5 DEF Known, Spaced, Within, InJobs, Held, Ripe, Recurs
<1> QED BY <1>5, <1>6 DEF Arrivals, s

LEMMA ArrivalKept ==
  ASSUME NEW q, ArrivalOK(q), ServerAs(k', k, q), now' = now,
         base'[q] = base[q], done'[q] = done[q], arrived'[q] = arrived[q]
  PROVE  ArrivalOK(q)'
BY ArrivalsAs DEF ArrivalOK

LEMMA ServerAside ==
  ASSUME NEW r, NEW kk, Likewise(r, kk), NEW C, Same(r, kk, C),
         C \cap {"asleep", "frozen", "frozen_activations"} = {}, NEW q \in Soft
  PROVE  ServerAs(r, kk, q)
BY QuietSame, ServerLikewise

LEMMA ServerFrozen ==
  ASSUME NEW r, NEW kk, Same(r, kk, {"frozen", "frozen_activations"}), NEW q,
         Held(r, q) = Held(kk, q)
  PROVE  ServerAs(r, kk, q)
BY DEF ServerAs, Timers, Same, Fields

LEMMA task_createArrives ==
  ASSUME IInv, HistoryOK, ArrivalsOK, NEW x \in Pids, NEW p \in Ranked \cup RrTasks,
         task_create(x, p), NEW q \in SaveArrivals
  PROVE  ArrivalOK(q)'
<1> DEFINE a == public_create(k, p)
           b == Unfreeze(a, p)
<1>1. /\ k.status[p] = "FREE" /\ Return(b) /\ Wellformed(k) /\ p \in Pids /\ now' = now
      /\ Forget(p) /\ base' = base /\ q \in Soft /\ q \in Ranked /\ ArrivalOK(q)
  BY PidSets, CbsAssumption DEF task_create, Running, IInv, AllOK, ArrivalsOK
<1>2. AllOK(a, k.exec_shadow, now) /\ Others(a, k, p) /\ Still(a, k, p)  BY <1>1, createIs DEF IInv
<1>3. q \in Soft => a = CBS_create(k, p) \/ p # q  BY PidSets DEF public_create
<1> HIDE DEF a
<1>4. /\ Wellformed(a) /\ Wellformed(b) /\ Likewise(b, a)
      /\ Same(b, a, {"frozen", "frozen_activations"})
  BY <1>1, <1>2, UnfreezeIs DEF AllOK
<1>5. Held(b, q) = Held(a, q) \/ p = q  BY <1>4, KernelFields DEF Wellformed, Unfreeze, Held, Kernels
<1>6. CASE p = q
  <2>1. Arrivals(b, q, base[q], 0, 0, now)  BY <1>1, <1>3, <1>6, ArrivalsCreate DEF ArrivalOK
  <2> HIDE DEF b
  <2>3. done'[q] = 0 /\ arrived'[q] = 0  BY <1>1, <1>6 DEF Forget, HistoryOK, ArrivalsOK
  <2> QED BY <1>1, <1>4, <2>1, <2>3, ServerReturn, ArrivalsAs DEF ArrivalOK
<1>7. CASE p # q
  <2> HIDE DEF b
  <2>3. ServerAs(k', k, q)
    BY <1>1, <1>2, <1>4, <1>5, <1>7, ServerFrozen, ServerOthers, ServerReturn, ServerTrans
  <2> QED BY <1>1, <1>7, <2>3, ArrivalKept DEF Forget, HistoryOK, ArrivalsOK
<1> QED BY <1>6, <1>7

LEMMA task_activateArrives ==
  ASSUME IInv, HistoryOK, ArrivalsOK, NIL \notin Int, NEW x \in Pids,
         NEW p \in Ranked \cup RrTasks, task_activate(x, p), NEW q \in SaveArrivals
  PROVE  ArrivalOK(q)'
<1> DEFINE a == public_activate(k, p)
           v == IF k.status[q] = "SLEEP" THEN now ELSE base[q]
           c == IF Arrives(q) THEN arrived[q] + 1 ELSE arrived[q]
<1>1. /\ k.status[p] # "FREE" /\ Return(scheduler(a)) /\ Wellformed(k) /\ now \in Int
      /\ AllOK(k, k.exec_shadow, now) /\ k.exec_shadow \in Pids /\ p \notin k.frozen
      /\ q \in Soft /\ q \in Ranked /\ q \notin Edf /\ ArrivalOK(q) /\ now' = now
  BY PidSets, CbsAssumption DEF task_activate, IInv, AllOK, ArrivalsOK
<1>2. /\ AllOK(a, k.exec_shadow, now) /\ a.exec_shadow = k.exec_shadow
      /\ Others(a, k, p) /\ Still(a, k, p)
  BY <1>1, activateIs
<1>3. a = CBS_activate(k, p) \/ p # q  BY <1>1, PidSets DEF public_activate
<1> HIDE DEF a
<1>4. ServerAs(k', a, q)  BY <1>1, <1>2, ServerScheduler
<1>5. done[q] \in Int /\ arrived[q] \in Int /\ done'[q] = done[q]
  BY <1>1 DEF HistoryOK, ArrivalsOK, task_activate
<1>6. CASE p = q
  <2>1. Arrivals(a, q, v, done[q], c, now)  BY <1>1, <1>3, <1>5, <1>6, ArrivalsActivate DEF ArrivalOK
  <2>2. base'[q] = v /\ arrived'[q] = c
    BY <1>1, <1>6 DEF task_activate, NoteArrival, HistoryOK, ArrivalsOK
  <2> HIDE DEF v, c
  <2> QED BY <1>1, <1>4, <1>5, <2>1, <2>2, ArrivalsAs DEF ArrivalOK
<1>7. CASE p # q
  <2>1. ServerAs(k', k, q)  BY <1>1, <1>2, <1>4, <1>7, ServerOthers, ServerTrans DEF AllOK
  <2> QED BY <1>1, <1>5, <1>7, <2>1, ArrivalKept
             DEF task_activate, NoteArrival, HistoryOK, ArrivalsOK
<1> QED BY <1>6, <1>7

LEMMA task_frozenArrives ==
  ASSUME IInv, HistoryOK, ArrivalsOK, NEW x \in Pids, NEW p \in Ranked \cup RrTasks, Freezes(x, p),
         NEW q \in SaveArrivals
  PROVE  ArrivalOK(q)'
<1>1. /\ now' = now /\ now \in Int /\ Wellformed(k) /\ base' = base /\ done' = done /\ q \in Soft
      /\ q \in Ranked /\ ArrivalOK(q) /\ done[q] \in Int /\ arrived[q] \in Int
  BY CbsAssumption, PidSets, HeldIs DEF IInv, AllOK, HistoryOK, ArrivalsOK
<1>2. PICK r \in Kernels :
        /\ Return(r) /\ Same(r, k, {"frozen", "frozen_activations"})
        /\ arrived'[q] = arrived[q] + Held(r, q) - Held(k, q)
  BY HeldIs DEF ArrivalsOK
<1> QED BY <1>1, <1>2, AsideIs, ServerIs, ArrivalsFrozen, ServerReturn, ArrivalsAs
           DEF ArrivalOK, Aside

LEMMA task_disableArrives ==
  ASSUME ~DisableAnyJob, IInv, HistoryOK, ArrivalsOK, NEW x \in Pids,
         NEW p \in Ranked \cup RrTasks, task_disable(x, p), NEW q \in SaveArrivals
  PROVE  ArrivalOK(q)'
<1> DEFINE a == public_message(k, p, "disable")
           c == IF q \notin k.asleep /\ IsDue(q) THEN arrived[q] - 1 ELSE arrived[q]
<1>1. /\ k.status[p] = "IDLE" /\ ~Posted(k, "offset", p) /\ Return(a) /\ Wellformed(k)
      /\ AllOK(k, k.exec_shadow, now) /\ p \in Periodic \cup SoftPeriodic /\ q \in Soft
      /\ q \notin Edf /\ ArrivalOK(q) /\ done[q] \in Int /\ arrived[q] \in Int /\ now' = now
      /\ done'[q] = done[q]
  BY PidSets, CbsAssumption DEF task_disable, Running, IInv, AllOK, ArrivalsOK, HistoryOK
<1>2. AllOK(a, k.exec_shadow, now) /\ Others(a, k, p) /\ Still(a, k, p)  BY <1>1, disableIs
<1>3. a = CBS_message(k, p, "disable") \/ p # q  BY <1>1, PidSets DEF public_message
<1> HIDE DEF a
<1>4. ServerAs(k', a, q)  BY <1>1, <1>2, ServerReturn DEF AllOK
<1>5. base'[q] = base[q]  BY <1>1 DEF task_disable, HistoryOK, Edf
<1>6. CASE p = q
  <2>2. Arrivals(a, q, base[q], done[q], c, now)  BY <1>1, <1>3, <1>6, ArrivalsDisable DEF ArrivalOK, Edf
  <2>3. arrived'[q] = c  BY <1>6 DEF task_disable, ArrivalsOK
  <2> HIDE DEF c
  <2> QED BY <1>1, <1>4, <1>5, <2>2, <2>3, ArrivalsAs DEF ArrivalOK
<1>7. CASE p # q
  <2>1. ServerAs(k', k, q)  BY <1>1, <1>2, <1>4, <1>7, ServerOthers, ServerTrans DEF AllOK
  <2> QED BY <1>1, <1>5, <1>7, <2>1, ArrivalKept DEF task_disable, ArrivalsOK
<1> QED BY <1>6, <1>7

LEMMA ServerCharged ==
  ASSUME IInv, NEW q \in Soft
  PROVE  ServerAs(kern_epilogue_macro(k), k, q)
<1> DEFINE r == kern_epilogue_macro(k)
<1> HIDE DEF r
<1> QED BY kern_epilogue_macroIs, ServerAside DEF r, IInv, AllOK

LEMMA task_endcycleArrives ==
  ASSUME IInv, HistoryOK, ArrivalsOK, NEW x \in Pids, task_endcycle(x), NEW q \in SaveArrivals
  PROVE  ArrivalOK(q)'
<1> DEFINE a == kern_epilogue_macro(k)
           b == public_message(a, x, "endcycle")
<1>1. /\ k.exec_shadow = x /\ x \in Pids \ {Dummy} /\ Return(GiveUp(b)) /\ now' = now /\ now \in Int
      /\ base' = base /\ arrived' = arrived /\ q \in Soft /\ q \in Ranked /\ ArrivalOK(q)
      /\ done[q] \in Int /\ arrived[q] \in Int
  BY CbsAssumption, PidSets DEF task_endcycle, Running, IInv, HistoryOK, ArrivalsOK
<1>2. AllOK(a, x, now) /\ ~Posted(a, "capacity", NIL)  BY <1>1, ChargedIs
<1>3. ServerAs(a, k, q)  BY <1>1, ServerCharged
<1>4. b = CBS_endcycle(a, x) \/ x # q  BY <1>1, PidSets DEF public_message, CBS_message
<1> HIDE DEF a
<1>5. AllOK(b, NIL, now) /\ Others(b, a, x) /\ Quiet(b, a)  BY <1>1, <1>2, endcycleIs
<1> HIDE DEF b
<1>7. ServerAs(k', b, q)  BY <1>1, <1>2, <1>5, CapacityStays, ServerGiveUp DEF AllOK
<1>8. CASE x = q
  <2>2. Arrivals(b, q, base[q], done[q] + 1, arrived[q], now)
    BY <1>1, <1>2, <1>3, <1>4, <1>8, ArrivalsAs, ArrivalsEndcycle DEF ArrivalOK
  <2> QED BY <1>1, <1>7, <1>8, <2>2, ArrivalsAs DEF ArrivalOK, task_endcycle, HistoryOK
<1>9. CASE x # q
  <2>2. ServerAs(k', k, q)  BY <1>1, <1>2, <1>3, <1>5, <1>7, <1>9, ServerOthers, ServerTrans DEF AllOK
  <2> QED BY <1>1, <1>9, <2>2, ArrivalKept DEF task_endcycle, HistoryOK
<1> QED BY <1>8, <1>9

LEMMA nanosleepArrives ==
  ASSUME IInv, NEW x \in Pids, NEW d \in Delays, nanosleep(x, d), NEW q \in Soft
  PROVE  ServerAs(k', k, q)
<1> DEFINE a == kern_epilogue_macro(k)
<1>1. AllOK(a, x, now) /\ ServerAs(a, k, q)  BY nanosleepIs, ServerCharged
<1>2. PICK b : /\ AllOK(b, NIL, now) /\ Sleeps(b, a, x)
               /\ Return(GiveUp(b)) /\ ~Posted(b, "capacity", NIL)
  BY nanosleepIs
<1> HIDE DEF a
<1>3. Quiet(b, a) /\ b.release = a.release /\ b.nact = a.nact  BY <1>2 DEF Sleeps, Same, Fields, Quiet
<1>4. ServerAs(b, a, q)
  <2>1. CASE x = q  BY <1>2, <1>3, <2>1 DEF Sleeps, ServerAs, Quiet, InJobs, Handlers, Held
  <2> QED BY <1>1, <1>2, <1>3, <2>1, ServerOthers DEF Sleeps, AllOK
<1> QED BY <1>1, <1>2, <1>4, ServerGiveUp, ServerTrans

LEMMA task_endArrives ==
  ASSUME IInv, HistoryOK, ArrivalsOK, NEW x \in Pids, task_end(x), NEW q \in SaveArrivals
  PROVE  ArrivalOK(q)'
<1> DEFINE a == public_end(k, x)
<1>1. /\ k.exec_shadow = x /\ x # Dummy /\ now' = now /\ AllOK(k, x, now) /\ now \in Int
      /\ done' = done /\ arrived' = arrived /\ q \in Soft /\ q \in Ranked /\ ArrivalOK(q)
      /\ AllOK(a, NIL, now) /\ Others(a, k, x) /\ Quiet(a, k)
  BY task_endIs, CbsAssumption, PidSets DEF task_end, ArrivalsOK, IInv
<1>2. PICK c : Uncapped(c, a) /\ Return(GiveUp(c))  BY task_endIs
<1>4. x = q => a.status[q] = "ZOMBIE" /\ k.status[q] = "EXE"
  <2>1. x = q => a = CBS_end(k, x)  BY <1>1, PidSets DEF public_end
  <2> HIDE DEF a
  <2> QED BY <1>1, <2>1, CBS_endIs DEF AllOK, TaskOK, QueueOK
<1> HIDE DEF a
<1>9. ServerAs(k', a, q)  BY <1>1, <1>2, ServerAside, ServerGiveUp, ServerTrans DEF Uncapped
<1>10. CASE x = q
  <2>3. base'[q] = NIL  BY <1>1, <1>10 DEF task_end, HistoryOK
  <2> QED BY <1>1, <1>4, <1>9, <1>10, <2>3, ArrivalsOver, ArrivalsAs DEF ArrivalOK
<1>11. CASE x # q
  <2>1. ServerAs(k', k, q)  BY <1>1, <1>9, <1>11, ServerOthers, ServerTrans DEF AllOK
  <2> QED BY <1>1, <1>11, <2>1, ArrivalKept DEF task_end, HistoryOK
<1> QED BY <1>10, <1>11

LEMMA preemptArrives ==
  ASSUME IInv, NEW x \in Pids, task_nopreempt(x) \/ task_preempt(x), NEW q \in Soft
  PROVE  ServerAs(k', k, q)
<1>1. PICK r : /\ AllOK(r, x, now) /\ Likewise(r, k) /\ Same(r, k, {"nopreempt", "events"})
               /\ Return(r) \/ Return(scheduler(r))
  BY preemptIs
<1>2. r.exec_shadow = x /\ Wellformed(r)  BY <1>1, preemptIs DEF Same, Fields, AllOK
<1>3. ServerAs(r, k, q)  BY <1>1, ServerAside
<1> QED BY <1>1, <1>2, <1>3, ServerReturn, ServerScheduler, ServerTrans DEF IInv

LEMMA PrimitiveArrivals ==
  ASSUME ~DisableAnyJob, NIL \notin Int, IInv, HistoryOK, ArrivalsOK, NEW x \in Pids,
         Primitive(x), NEW q \in SaveArrivals
  PROVE  ArrivalOK(q)'
<1>1. CASE (\E d \in Delays : nanosleep(x, d)) \/ task_nopreempt(x) \/ task_preempt(x)
  <2>1. ServerAs(k', k, q)  BY <1>1, CbsAssumption, nanosleepArrives, preemptArrives
  <2> QED BY <1>1, <2>1, ArrivalKept
             DEF ArrivalsOK, nanosleep, task_nopreempt, task_preempt, NoJob
<1> QED BY <1>1, task_createArrives, task_activateArrives, task_frozenArrives, task_disableArrives,
           task_endcycleArrives, task_endArrives DEF Primitive, Freezes

LEMMA rescheduleArrives ==
  ASSUME IInv, reschedule, NEW q \in Soft
  PROVE  ServerAs(k', k, q)
BY ServerScheduler, ServerReturn DEF IInv, AllOK, reschedule

LEMMA wake_upArrives ==
  ASSUME NIL \notin Int, IInv, HistoryOK, ArrivalsOK, wake_up, NEW q \in SaveArrivals
  PROVE  ArrivalOK(q)'
<1> DEFINE e == k.events[1]
           h == e.handler
           p == e.pid
           m == [k EXCEPT !.events = Tail(@)]
           r == CBS_timer_reactivate(m, p)
           A == Arrivals(k', q, base[q], done[q], arrived[q], now)
<1>1. /\ k.events # <<>> /\ e.time <= now /\ now' = now /\ base' = base /\ done' = done
      /\ arrived' = arrived /\ AllOK(k, k.exec_shadow, now) /\ now \in Int /\ Wellformed(k)
      /\ Handles(k', h, m, p) /\ Wellformed(k')
      /\ h = "capacity" => Likewise(k', k) /\ Same(k', k, {"events", "resched"})
      /\ h \notin {"capacity", "delay"} => Others(k', k, p) /\ Quiet(k', k)
      /\ h \in {"endperiod", "deadline", "offset"} => p \in Edf
  BY WakeIs, wake_upKeeps DEF AllOK
<1>2. /\ q \in Soft /\ q \in Ranked /\ q \notin Edf /\ ArrivalOK(q)
      /\ done[q] \in Int /\ arrived[q] \in Int /\ (base[q] # NIL => base[q] \in Int)
  BY CbsAssumption, PidSets DEF ArrivalsOK, HistoryOK
<1> SUFFICES A  BY <1>1 DEF ArrivalOK
<1>3. ServerAs(k', k, q) => A  BY <1>1, <1>2, ArrivalsAs DEF ArrivalOK
<1>4. p # q /\ Others(k', k, p) /\ Quiet(k', k) => A  BY <1>1, <1>2, <1>3, ServerOthers
<1>5. CASE h = "capacity"
  <2>1. Quiet(k', k)  BY <1>1, <1>5, QuietSame
  <2> QED BY <1>1, <1>2, <1>3, <1>5, <2>1, ServerLikewise
<1>6. CASE h = "delay" /\ k' = delay_timer(m, p)
  <2>1. /\ Wellformed(k') /\ Others(k', k, p)
        /\ k.status[p] = "WAIT_NANOSLEEP" /\ k'.status[p] = "READY"
        /\ Same(k', k, {"cbs_dline", "avail", "dline", "edf", "rr", "status", "resched", "events"})
        /\ \A c \in Handlers \ {"delay"} : Timers(k', p)[c] = Timers(k, p)[c]
    BY <1>1, <1>6, delayIs DEF AllOK
  <2> HIDE DEF p
  <2>2. Quiet(k', k) /\ k'.release = k.release /\ k'.nact = k.nact  BY <2>1 DEF Same, Fields, Quiet
  <2>3. CASE p = q  BY <1>3, <2>1, <2>2, <2>3 DEF ServerAs, Quiet, InJobs, Handlers, Held
  <2> QED BY <1>4, <2>1, <2>2, <2>3
<1>7. CASE h \in {"endperiod", "deadline", "offset"}  BY <1>1, <1>2, <1>4, <1>7
<1>10. CASE h = "reactivate" /\ k' = r
  <2>1. /\ Quiet(r, k) /\ p \in SoftPeriodic /\ k.release[p] = e.time
        /\ k.release[p] >= now /\ k.status[p] \notin {"FREE", "SLEEP", "ZOMBIE"}
        /\ IF p \in k.asleep /\ k.status[p] = "IDLE"
             THEN r.status[p] = "SLEEP" /\ r.nact = k.nact
             ELSE /\ r.release[p] = k.release[p] + period[p] /\ Timers(r, p)["reactivate"] # {}
                  /\ IF k.status[p] = "IDLE" THEN r.status[p] = "READY" /\ r.nact = k.nact
                     ELSE r.status[p] = k.status[p] /\ r.nact = CBS_save(k, p).nact
        /\ Wellformed(r) /\ Others(r, k, p)
    BY <1>1, <1>10, reactivateIs DEF AllOK
  <2> HIDE DEF r
  <2>2. CASE p = q
    <3>1. k.release[q] = now  BY <1>1, <1>2, <2>1, <2>2, ServerIs
    <3>2. Arrivals(k, q, base[q], done[q], arrived[q], now)  BY <1>2 DEF ArrivalOK
    <3> HIDE DEF e, h, m, p
    <3> QED BY <1>1, <1>2, <1>10, <2>1, <2>2, <3>1, <3>2, ArrivalsReactivate
  <2> QED BY <1>4, <1>10, <2>1, <2>2
<1>11. CASE h = "zombie" /\ k' = CBS_timer_zombie(m, p)
  <2>1. /\ Quiet(k', k) /\ k.status[p] = "ZOMBIE" /\ k'.status[p] = "FREE" /\ Others(k', k, p)
    BY <1>1, <1>11, zombieIs
  <2> HIDE DEF p
  <2>2. CASE p = q  BY <1>2, <2>1, <2>2, ArrivalsOver DEF ArrivalOK, Arrivals
  <2> QED BY <1>4, <2>1, <2>2
<1> HIDE DEF h, p
<1> QED BY <1>1, <1>5, <1>6, <1>7, <1>10, <1>11 DEF Handles

LEMMA tickArrives ==
  ASSUME NIL \notin Int, IInv, HistoryOK, ArrivalsOK, tick, NEW q \in SaveArrivals
  PROVE  ArrivalOK(q)'
<1> DEFINE b == base[q]
           d == done[q]
           a == arrived[q]
           u == k.release[q]
           c == IF NextArrival(q, now + 1) THEN 1 ELSE 0
           T == period[q]
<1>1. /\ k' = k /\ now' = now + 1 /\ base' = base /\ done' = done /\ arrived'[q] = a + c
      /\ ~Due(k) /\ Arrivals(k, q, b, d, a, now) /\ d \in Int /\ a \in Int /\ (b # NIL => b \in Int)
      /\ now \in Int /\ Wellformed(k) /\ q \in Soft
  BY CbsAssumption, ServerIs DEF tick, ArrivalsOK, ArrivalOK, IInv, AllOK, HistoryOK
<1>2. /\ q \in Pids /\ q \in Ranked /\ u \in Int /\ k.nact[q] \in Int /\ Held(k, q) \in Int
      /\ T \in Int /\ T > 0
  BY <1>1, ServerIs
<1>3. CASE Recurs(k, q)
  <2>1. u >= now + 1
    <3>1. PICK x : x \in Timers(k, q)["reactivate"]  BY <1>1, <1>3 DEF Arrivals, Spaced
    <3>2. x = u  BY <1>2, <3>1 DEF IInv, AllOK, TaskOK, ReleaseOK, ReleaseTimers
    <3>3. PICK e \in Members(k.events) : x = e.time  BY <3>1 DEF Timers, Handlers
    <3> QED BY <1>1, <3>2, <3>3, LaterEvents
  <2>2. PICK n \in Int : u = b + Time(q, n)  BY <1>1, <1>3 DEF Arrivals, Spaced
  <2>3. b # NIL /\ b \in Int /\ u - T <= now  BY <1>1, <1>3 DEF Arrivals, Spaced
  <2>4. Time(q, n) \in Int /\ Time(q, n) = n * T  BY <1>1, SoftTime DEF Time
  <2> DEFINE m == (now + 1 - b) % T
             last == now + 1 - b = n * T
             past == u <= now + 1
  <2>5. m = 0 <=> last
    <3>1. now + 1 - b \in Int /\ n * T - T < now + 1 - b /\ now + 1 - b <= n * T
      BY <1>1, <1>2, <2>1, <2>2, <2>3, <2>4
    <3> HIDE DEF b, T
    <3> QED BY <1>2, <3>1, LastMultiple
  <2>6. last <=> past  BY <1>1, <1>2, <2>1, <2>2, <2>3, <2>4
  <2>7. NextArrival(q, now + 1) <=> q \notin k.asleep /\ past
    <3>1. NextArrival(q, now + 1) <=>
            q \in SoftPeriodic /\ b # NIL /\ q \notin k.asleep /\ m = 0
      BY <1>1, <1>2, <2>3 DEF NextArrival
    <3> HIDE DEF b, m, last, past
    <3> QED BY <1>3, <2>3, <2>5, <2>6, <3>1, Zenon DEF Recurs
  <2>9. Ripe(k, q, now + 1) = c  BY <1>3, <2>7 DEF Ripe
  <2>11. Known(k, q, d, now + 1) = Known(k, q, d, now) + c
    <3> HIDE DEF c
    <3> QED BY <1>1, <1>2, <2>1, <2>9 DEF Known, Within, Ripe
  <2> HIDE DEF c
  <2> QED BY <1>1, <1>2, <1>3, <2>3, <2>11 DEF ArrivalOK, Arrivals, Spaced
<1>4. CASE ~Recurs(k, q)  BY <1>1, <1>4 DEF ArrivalOK, Arrivals, Known, Ripe, Spaced, NextArrival, Recurs
<1> QED BY <1>3, <1>4

LEMMA ArrivedTyped ==
  ASSUME IInv, ArrivalsOK, [Next]_vars
  PROVE  arrived' \in [SaveArrivals -> Int]
<1>1. arrived \in [SaveArrivals -> Int] /\ k.frozen_activations \in [Freezable -> Int]
      /\ k.frozen \subseteq Freezable
  BY KernelFields DEF ArrivalsOK, IInv, AllOK, Wellformed
<1>2. CASE wake_up \/ reschedule \/ UNCHANGED vars
  BY <1>1, <1>2 DEF wake_up, event, NoJob, reschedule, vars, softHistory
<1>3. CASE tick  BY <1>1, <1>3 DEF tick
<1>4. ASSUME NEW x \in Pids, Primitive(x) PROVE arrived' \in [SaveArrivals -> Int]
  <2>1. ASSUME NEW p \in Ranked \cup RrTasks, \/ task_create(x, p)
                                              \/ task_activate(x, p)
                                              \/ task_activate_frozen(x, p)
        PROVE  arrived' \in [SaveArrivals -> Int]
    BY <1>1, <2>1 DEF task_create, Forget, task_activate, NoteArrival, task_activate_frozen
  <2>2. ASSUME NEW p \in Ranked \cup RrTasks, \/ task_block_activation(x, p)
                                              \/ task_unblock_activation(x, p)
                                              \/ task_disable(x, p)
        PROVE  arrived' \in [SaveArrivals -> Int]
    BY <1>1, <2>2 DEF task_block_activation, NoJob, task_unblock_activation, task_disable
  <2>3. CASE \/ task_endcycle(x) \/ task_end(x) \/ task_nopreempt(x) \/ task_preempt(x)
             \/ \E d \in Delays : nanosleep(x, d)
    BY <1>1, <2>3 DEF task_endcycle, task_end, task_nopreempt, task_preempt, nanosleep, NoJob
  <2> QED BY <1>4, <2>1, <2>2, <2>3 DEF Primitive
<1> QED BY <1>2, <1>3, <1>4 DEF Next

LEMMA NextArrivals ==
  ASSUME ~DisableAnyJob, NIL \notin Int, IInv, HistoryOK, ArrivalsOK, [Next]_vars
  PROVE  ArrivalsOK'
<1> SUFFICES ASSUME NEW q \in SaveArrivals PROVE ArrivalOK(q)'  BY ArrivedTyped DEF ArrivalsOK
<1>1. q \in Soft /\ ArrivalOK(q)  BY CbsAssumption DEF ArrivalsOK
<1>2. CASE wake_up \/ tick  BY <1>2, wake_upArrives, tickArrives
<1>3. CASE reschedule  BY <1>1, <1>3, rescheduleArrives, ArrivalKept DEF reschedule
<1>4. CASE UNCHANGED vars  BY <1>1, <1>4 DEF vars, softHistory, ArrivalOK
<1>5. CASE \E x \in Pids : Primitive(x)  BY <1>5, PrimitiveArrivals
<1> QED BY <1>2, <1>3, <1>4, <1>5 DEF Next

LEMMA InitArrivals ==
  ASSUME Init
  PROVE  ArrivalsOK
<1>1. arrived \in [SaveArrivals -> Int] /\ k = Started  BY DEF Init
<1> SUFFICES ASSUME NEW q \in SaveArrivals PROVE ArrivalOK(q)  BY <1>1 DEF ArrivalsOK
<1>2. PICK b : Wellformed(b) /\ Others(b, k0, Main) /\ Quiet(b, k0) /\ Scheduled(Started, b)
  BY StartIs DEF AllOK
<1>3. q \in Soft /\ q \in Pids /\ q # Main /\ q \in Ranked /\ q # Dummy
  BY CbsAssumption, PidAssumption, PidSets
<1>4. ServerAs(k, k0, q)  BY <1>1, <1>2, <1>3, StartIs, ServerOthers, ServerScheduled, ServerTrans
<1>5. k0.status[q] = "FREE" /\ k0.asleep = {}  BY <1>3 DEF k0
<1>7. base[q] = NIL  BY <1>3 DEF Init
<1> QED BY <1>4, <1>5, <1>7 DEF ArrivalOK, Arrivals, Spaced, Recurs, ServerAs, InJobs

LEMMA NoneIsLost == IInv /\ HistoryOK /\ ArrivalsOK => NoArrivalLost
<1> SUFFICES ASSUME IInv, HistoryOK, ArrivalsOK, ~irq, ~Due(k), NEW p \in SaveArrivals,
                    k.status[p] \notin {"FREE", "ZOMBIE"}
             PROVE  done[p] + k.nact[p] + (IF InJob(p) THEN 1 ELSE 0)
                      + (IF p \in k.frozen THEN k.frozen_activations[p] ELSE 0) = arrived[p]
  BY DEF NoArrivalLost
<1>1. Arrivals(k, p, base[p], done[p], arrived[p], now) /\ Wellformed(k) /\ now \in Int
  BY DEF ArrivalsOK, ArrivalOK, IInv, AllOK
<1>2. p \in Pids /\ p \in Ranked /\ k.release[p] \in Int /\ k.nact[p] \in Int /\ Held(k, p) \in Int
  BY <1>1, ServerIs
<1>3. Ripe(k, p, now) = 0
  <2> SUFFICES ASSUME Recurs(k, p) PROVE ~(k.release[p] <= now)  BY DEF Ripe
  <2>1. PICK x : x \in Timers(k, p)["reactivate"]  BY <1>1 DEF Arrivals, Spaced
  <2>2. x = k.release[p]  BY <1>2, <2>1 DEF IInv, AllOK, TaskOK, ReleaseOK, ReleaseTimers
  <2>3. PICK e \in Members(k.events) : x = e.time  BY <2>1 DEF Timers, Handlers
  <2> QED BY <1>1, <1>2, <2>2, <2>3, LaterEvents
<1>4. Known(k, p, done[p], now) = arrived[p]  BY <1>1 DEF Arrivals
<1> QED BY <1>2, <1>3, <1>4 DEF Held, Known, Within, InJob, InJobs, HistoryOK

\* No activation of a soft task that saves them is lost or run twice, in cbs.c and
\* in the primitives that block activations: each is a job that has ended or runs,
\* or waits in nact, or in frozen_activations until unblocking returns their number
\* to its caller, also if the task is disabled and activated again, put to sleep,
\* ended or created again. A task is disabled only between two jobs, and NIL stands
\* for no time.
THEOREM NoActivationIsLost ==
  ASSUME ~DisableAnyJob, NIL \notin Int
  PROVE  Spec => []NoArrivalLost
<1>1. Init => HistoryOK /\ ArrivalsOK  BY InitHistory, InitArrivals
<1>2. IInv /\ HistoryOK /\ ArrivalsOK /\ [Next]_vars => HistoryOK' /\ ArrivalsOK'
  BY NextHistory, NextArrivals
<1>3. IInv /\ HistoryOK /\ ArrivalsOK => NoArrivalLost  BY NoneIsLost
<1> QED BY <1>1, <1>2, <1>3, AlwaysIInv, PTL DEF Spec

------------------------------
(* The turns of the Round Robin tasks *)

LEMMA ClaimInt ==
  ASSUME NEW kk, Wellformed(kk), NEW x, NEW t \in Int, NEW p, NEW q \in RrTasks
  PROVE  Claim(kk, x, t, p, q) \in Int
<1>1. kk.avail[q] \in Int /\ kk.cap_lasttime \in Int  BY KernelFields, PidSets DEF Wellformed
<1> QED BY <1>1 DEF Claim

LEMMA NoLongerTrans ==
  ASSUME NEW a, Wellformed(a), NEW b, Wellformed(b), NEW c, Wellformed(c), NEW x, NEW y, NEW z,
         NEW t \in Int, NEW p, NoLonger(a, z, b, y, t, p), NoLonger(b, y, c, x, t, p)
  PROVE  NoLonger(a, z, c, x, t, p)
<1> SUFFICES ASSUME NEW q \in RrTasks \ {p}
             PROVE  NotMore(Claim(a, z, t, p, q), Claim(c, x, t, p, q))
  BY DEF NoLonger
<1>1. NotMore(Claim(a, z, t, p, q), Claim(b, y, t, p, q)) /\ Claim(a, z, t, p, q) \in Int
  BY ClaimInt DEF NoLonger
<1>2. NotMore(Claim(b, y, t, p, q), Claim(c, x, t, p, q)) /\ Claim(b, y, t, p, q) \in Int
      /\ Claim(c, x, t, p, q) \in Int
  BY ClaimInt DEF NoLonger
<1> QED BY <1>1, <1>2 DEF NotMore

LEMMA SteadyThen ==
  ASSUME NEW a, Wellformed(a), NEW b, Wellformed(b), NEW c, Wellformed(c), NEW x, NEW y, NEW z,
         NEW t \in Int, Steady(b, y, c, x, t)
  PROVE  /\ Steady(a, z, b, y, t) => Steady(a, z, c, x, t)
         /\ Fairly(a, z, b, y, t) => Fairly(a, z, c, x, t)
BY NoLongerTrans DEF Steady, Fairly

LEMMA SlicesOthers ==
  ASSUME NEW r, NEW kk, Slices(kk), NEW p, Others(r, kk, p),
         p \in RrTasks /\ r.status[p] # "FREE" => Slice(r, p)
  PROVE  Slices(r)
<1> SUFFICES ASSUME NEW q \in RrTasks, r.status[q] # "FREE" PROVE Slice(r, q)  BY DEF Slices
<1>1. CASE q = p  BY <1>1
<1>2. CASE q # p  BY <1>2, PidSets DEF Slices, Slice, Others, Alike, Apart
<1> QED BY <1>1, <1>2

\* A task that stands still, or that begins to wait at the end of the queue.
LEMMA OthersTurns ==
  ASSUME NEW r, NEW kk, Wellformed(kk), Slices(kk), NEW p \in Pids, Others(r, kk, p),
         Joins(r, kk, p), NEW x, NEW y, NEW t \in Int, y = x \/ (y = NIL /\ p = x),
         p \in RrTasks /\ p = y => r.avail[p] = kk.avail[p]
  PROVE  Steady(r, y, kk, x, t) /\ Slices(r)
<1> SUFFICES ASSUME NEW z \in RrTasks, kk.status[z] = "READY"
             PROVE  /\ r.status[z] = "READY" /\ r.avail[z] = kk.avail[z]
                    /\ NoLonger(r, y, kk, x, t, z)
  BY SlicesOthers DEF Steady, Joins
<1>1. z # p /\ z \in Pids  BY PidSets DEF Joins
<1>2. r.status[z] = "READY" /\ r.avail[z] = kk.avail[z] /\ r.cap_lasttime = kk.cap_lasttime
  BY <1>1 DEF Others, Alike, Apart
<1>3. ASSUME NEW q \in RrTasks \ {z} PROVE NotMore(Claim(r, y, t, z, q), Claim(kk, x, t, z, q))
  <2>1. Claim(kk, x, t, z, q) \in Int /\ q # NIL  BY PidSets, ClaimInt
  <2>2. Sooner(r.rr, q, z) => Sooner(kk.rr, q, z)
    <3>1. CASE p \in RrTasks
      <4>1. kk.rr \in Seq(RrTasks)  BY KernelFields DEF Wellformed
      <4> QED BY <1>1, <3>1, <4>1, BeforeLast DEF Joins
    <3>2. CASE p \notin RrTasks  BY <3>2 DEF Others, Apart
    <3> QED BY <3>1, <3>2
  <2>3. CASE q # p
    <3>1. r.avail[q] = kk.avail[q] /\ kk.avail[q] \in Int /\ (q = x <=> q = y)
      BY <2>1, <2>3, PidSets, KernelFields DEF Others, Apart, Wellformed
    <3> QED BY <1>2, <2>1, <2>2, <3>1 DEF Claim, NotMore
  <2>4. CASE q = p
    <3>1. ~Sooner(r.rr, q, z)  BY <2>2, <2>4, BeforeMembers DEF Joins
    <3> QED BY <1>2, <2>1, <2>4, <3>1 DEF Claim, NotMore
  <2> QED BY <2>3, <2>4
<1> QED BY <1>2, <1>3 DEF NoLonger

\* The fields that the turns do not depend on.
Idle == Fields \ {"status", "avail", "wcet", "capped", "rr", "cap_lasttime"}

LEMMA TurnsSame ==
  ASSUME NEW r, NEW kk, Wellformed(kk), NEW C, Same(r, kk, C), C \subseteq Idle, NEW x,
         NEW t \in Int
  PROVE  /\ Steady(r, x, kk, x, t) /\ Fairly(r, x, kk, x, t)
         /\ Slices(kk) => Slices(r)
         /\ r.cap_lasttime = kk.cap_lasttime
<1>1. /\ r.status = kk.status /\ r.avail = kk.avail /\ r.wcet = kk.wcet /\ r.capped = kk.capped
      /\ r.rr = kk.rr /\ r.cap_lasttime = kk.cap_lasttime
  BY DEF Same, Fields, Idle
<1>2. \A p, q : Claim(r, x, t, p, q) = Claim(kk, x, t, p, q)  BY <1>1 DEF Claim
<1>3. \A p : NoLonger(r, x, kk, x, t, p)  BY <1>2, ClaimInt DEF NoLonger, NotMore
<1> QED BY <1>1, <1>3 DEF Steady, Fairly, Slices, Slice

LEMMA SelectTurns ==
  ASSUME NEW kk, NEW t \in Int, AllOK(kk, NIL, t), Slices(kk)
  PROVE  LET r == Select(kk)
         IN  Fairly(r, NIL, kk, NIL, t) /\ Slices(r)
<1> DEFINE r == Select(kk)
<1> SUFFICES Fairly(r, NIL, kk, NIL, t) /\ Slices(r)  OBVIOUS
<1>1. Wellformed(kk) /\ AllOK(r, NIL, t) /\ Same(r, kk, SelectFields)  BY SelectIs DEF AllOK
<1>2. /\ r.status = kk.status /\ r.wcet = kk.wcet /\ r.capped = kk.capped
      /\ r.cap_lasttime = kk.cap_lasttime
  BY <1>1 DEF Same, Fields, SelectFields
<1>3. \A p \in RrTasks : p # NIL /\ p \in Pids  BY PidSets
<1>4. \A p \in RrTasks : p \in Members(kk.rr) <=> kk.status[p] = "READY"
  BY <1>1, <1>3 DEF AllOK, TaskOK, QueueOK
<1>5. \A p \in RrTasks : kk.avail[p] \in Int /\ kk.wcet[p] \in Int
  BY <1>1, <1>3, KernelFields DEF Wellformed
<1>6. ASSUME r.rr = kk.rr, \A p \in RrTasks : r.avail[p] = kk.avail[p]
      PROVE  Fairly(r, NIL, kk, NIL, t) /\ Slices(r)
  <2>1. \A p, q \in RrTasks : NotMore(Claim(r, NIL, t, p, q), Claim(kk, NIL, t, p, q))
    BY <1>3, <1>5, <1>6 DEF Claim, NotMore
  <2> QED BY <1>2, <1>6, <2>1 DEF Fairly, NoLonger, Slices, Slice
<1>7. CASE kk.edf # <<>>
  <2> DEFINE m == Eligible(kk)
  <2>1. r = [m EXCEPT !.exec_shadow = Head(m.edf)]  BY <1>7 DEF Select
  <2>2. Kept(m, kk)  BY <1>1, PidSets, EligibleIs DEF AllOK, TaskOK, QueueOK
  <2> HIDE DEF m
  <2>3. r.rr = m.rr /\ r.avail = m.avail /\ m.rr = kk.rr
    BY <2>1, <2>2 DEF Kept, Same, Fields, Wellformed, Kernels
  <2> HIDE DEF r
  <2> QED BY <1>6, <2>2, <2>3 DEF Kept
<1>8. CASE kk.edf = <<>> /\ kk.rr # <<>>
  <2> DEFINE m == RR_scheduler(kk)
  <2>1. r = [m EXCEPT !.exec_shadow = Head(m.rr)]  BY <1>8 DEF Select
  <2>2. \A p \in Members(kk.rr) : p \in RrTasks /\ kk.wcet[p] > 0
    <3>1. \A p \in Members(kk.rr) : p \in RrTasks  BY <1>1, KernelFields DEF Members, Wellformed
    <3> QED BY <1>1, <1>3, <1>4, <3>1 DEF AllOK, TaskOK, QueueOK
  <2>3. /\ Wellformed(m)
        /\ \A p \in Pids \ Members(kk.rr) : m.avail[p] = kk.avail[p]
        /\ \A p \in Members(kk.rr) :
             /\ kk.avail[p] <= kk.wcet[p] => m.avail[p] <= kk.wcet[p]
             /\ \/ m.avail[p] > kk.avail[p]
                \/ \A x \in RrTasks : Sooner(m.rr, x, p) =>
                     Sooner(kk.rr, x, p) /\ m.avail[x] = kk.avail[x]
    BY <1>1, <1>8, <2>2, RR_schedulerIs
  <2> HIDE DEF m
  <2>4. r.rr = m.rr /\ r.avail = m.avail  BY <2>1, <2>3 DEF Wellformed, Kernels
  <2> HIDE DEF r
  <2>5. ASSUME NEW p \in RrTasks, kk.status[p] # "FREE" PROVE Slice(r, p)
    <3>1. Slice(kk, p)  BY <2>5 DEF Slices
    <3>2. m.avail[p] <= slice[p]  BY <1>3, <2>3, <3>1 DEF Slice
    <3> QED BY <1>2, <2>4, <3>1, <3>2 DEF Slice
  <2>6. ASSUME NEW p \in RrTasks, kk.status[p] = "READY", ~(r.avail[p] > kk.avail[p]),
               NEW q \in RrTasks \ {p}
        PROVE  NotMore(Claim(r, NIL, t, p, q), Claim(kk, NIL, t, p, q))
    <3>1. Sooner(r.rr, q, p) => Sooner(kk.rr, q, p) /\ r.avail[q] = kk.avail[q]  BY <1>4, <2>3, <2>4, <2>6
    <3> QED BY <1>3, <1>5, <3>1 DEF Claim, NotMore
  <2> QED BY <1>2, <2>5, <2>6 DEF Fairly, NoLonger, Slices
<1>9. CASE kk.edf = <<>> /\ kk.rr = <<>>
  <2>1. r = [kk EXCEPT !.exec_shadow = Dummy]  BY <1>9 DEF Select
  <2>2. r.rr = kk.rr /\ r.avail = kk.avail  BY <1>1, <2>1 DEF Wellformed, Kernels
  <2> HIDE DEF r
  <2> QED BY <1>6, <2>2
<1> QED BY <1>7, <1>8, <1>9

\* The task that is dispatched was the first in the queue, and an event will stop it.
LEMMA DispatchTurns ==
  ASSUME NEW kk, NEW t \in Int, AllOK(kk, NIL, t), Chosen(kk), ~Posted(kk, "capacity", NIL),
         Slices(kk), kk.schedule_time = t
  PROVE  LET r == Dispatch(kk)
         IN  /\ Fairly(r, r.exec_shadow, kk, NIL, t) /\ r.avail = kk.avail
             /\ \A p \in RrTasks : r.status[p] = "READY" => kk.status[p] = "READY"
             /\ Slices(r) /\ r.cap_lasttime = t /\ Caps(r)
<1> DEFINE p == kk.exec_shadow
           d == public_dispatch(Status(kk, p, "EXE"), p)
           c == [d EXCEPT !.cap_lasttime = t]
           u == t + kk.avail[p]
           r == Dispatch(kk)
<1> SUFFICES /\ Fairly(r, r.exec_shadow, kk, NIL, t) /\ r.avail = kk.avail
             /\ \A z \in RrTasks : r.status[z] = "READY" => kk.status[z] = "READY"
             /\ Slices(r) /\ r.cap_lasttime = t /\ Caps(r)
  OBVIOUS
<1>1. p \in Pids /\ Wellformed(d) /\ Others(d, kk, p) /\ Same(d, kk, {"status", "edf", "rr"})
  BY public_dispatchIs DEF AllOK
<1>2. r = IF p \in kk.capped THEN Post(c, "capacity", NIL, u) ELSE c  BY DEF Dispatch
<1>3. Wellformed(kk) /\ u \in Int  BY <1>1, KernelFields DEF AllOK, Wellformed
<1>4. kk.rr \in Seq(RrTasks) /\ kk.avail \in [Pids -> Int] /\ d.avail = kk.avail
      /\ d.capped = kk.capped /\ d.wcet = kk.wcet /\ d.nopreempt = kk.nopreempt
      /\ d.events = kk.events /\ d.exec_shadow = p
  BY <1>1, <1>3, KernelFields DEF Wellformed, Same, Fields
<1>5. p \in RrTasks => /\ kk.rr # <<>> /\ p = Head(kk.rr) /\ p \in Members(kk.rr)
                       /\ d.rr = Extract(p, kk.rr) /\ d.status[p] = "EXE" /\ kk.status[p] = "READY"
  <2> SUFFICES ASSUME p \in RrTasks
               PROVE  /\ kk.rr # <<>> /\ p = Head(kk.rr) /\ p \in Members(kk.rr)
                      /\ d.rr = Extract(p, kk.rr) /\ d.status[p] = "EXE" /\ kk.status[p] = "READY"
    OBVIOUS
  <2>1. p \notin Edf /\ p \notin Soft /\ p \notin Ranked /\ p # Dummy  BY PidSets
  <2>2. kk.edf # <<>> => Head(kk.edf) \in Ranked  BY <1>3, KernelFields DEF Wellformed
  <2>3. kk.rr # <<>> /\ p = Head(kk.rr)  BY <2>1, <2>2 DEF Chosen
  <2>4. p \in Members(kk.rr)  BY <1>4, <2>3 DEF Members
  <2> DEFINE s == Status(kk, p, "EXE")
  <2>5. d = [s EXCEPT !.rr = Extract(p, @)]  BY <2>1 DEF public_dispatch, RR_dispatch
  <2>6. Wellformed(s) /\ Same(s, kk, {"status"}) /\ s.status = [kk.status EXCEPT ![p] = "EXE"]
    BY <1>1, <1>3, StatusNames, StatusIs
  <2> HIDE DEF s, d
  <2>7. d.rr = Extract(p, kk.rr) /\ d.status[p] = "EXE"
    <3>1. s \in Kernels /\ s.rr = kk.rr  BY <2>6 DEF Wellformed, Same, Fields
    <3>2. d.rr = Extract(p, s.rr) /\ d.status = s.status  BY <2>5, <3>1 DEF Kernels
    <3>3. kk.status \in [Pids -> Statuses]  BY <1>3, KernelFields DEF Wellformed
    <3> QED BY <1>1, <2>6, <3>1, <3>2, <3>3
  <2> QED BY <1>1, <2>3, <2>4, <2>7 DEF AllOK, TaskOK, QueueOK
<1>6. p \notin RrTasks => d.rr = kk.rr  BY <1>1 DEF Others, Apart
<1> HIDE DEF d, r, u
<1>7. ~Posted(c, "capacity", NIL) /\ Wellformed(c) /\ Same(c, d, {"cap_lasttime"})
      /\ c.cap_lasttime = t
  BY <1>1, <1>4, LastTimeIs DEF Posted, Same, Fields
<1> HIDE DEF c
<1>8. /\ Same(r, c, {"events"})
      /\ p \in kk.capped => Event("capacity", NIL, u) \in Members(r.events)
  <2>1. CASE p \in kk.capped  BY <1>2, <1>3, <1>7, <2>1, PostIs DEF Handlers, Addressed, Event
  <2>2. CASE p \notin kk.capped  BY <1>2, <2>2 DEF Same
  <2> QED BY <2>1, <2>2
<1>9. /\ r.status = d.status /\ r.avail = kk.avail /\ r.wcet = kk.wcet /\ r.capped = kk.capped
      /\ r.rr = d.rr /\ r.cap_lasttime = t /\ r.nopreempt = kk.nopreempt /\ r.exec_shadow = p
  BY <1>4, <1>7, <1>8 DEF Same, Fields
<1>10. \A z \in RrTasks : r.status[z] = kk.status[z] \/ (z = p /\ r.status[z] = "EXE")
  BY <1>1, <1>5, <1>9, PidSets DEF Others, Alike
<1>11. Slices(r)  BY <1>5, <1>9, <1>10 DEF Slices, Slice
<1>12. Caps(r)  BY <1>8, <1>9, <1>11, <1>5, <1>10 DEF Caps, Slices, Slice, u
<1>13. ASSUME NEW z \in RrTasks, kk.status[z] = "READY", r.status[z] = "READY", NEW q \in RrTasks \ {z}
       PROVE  NotMore(Claim(r, p, t, z, q), Claim(kk, NIL, t, z, q))
  <2>1. z # p /\ z \in Members(kk.rr) /\ kk.avail[q] \in Int /\ q # NIL
    BY <1>1, <1>5, <1>9, <1>13, <1>4, PidSets DEF AllOK, TaskOK, QueueOK
  <2>2. CASE q = p
    <3>1. Sooner(kk.rr, q, z)  BY <1>4, <1>5, <2>1, <2>2, HeadBefore
    <3> QED BY <1>9, <2>1, <2>2, <3>1 DEF Claim, NotMore
  <2>3. CASE q # p
    <3>1. Sooner(r.rr, q, z) => Sooner(kk.rr, q, z)  BY <1>4, <1>5, <1>6, <1>9, BeforeExtract
    <3> QED BY <1>9, <2>1, <2>3, <3>1 DEF Claim, NotMore
  <2> QED BY <2>2, <2>3
<1> QED BY <1>9, <1>10, <1>11, <1>12, <1>13 DEF Fairly, NoLonger

LEMMA SelectDispatchTurns ==
  ASSUME NEW kk, NEW t \in Int, AllOK(kk, NIL, t), ~Posted(kk, "capacity", NIL),
         Slices(kk), kk.schedule_time = t
  PROVE  Turned(Dispatch(Select(kk)), kk, NIL, t)
<1> DEFINE m == Select(kk)
           r == Dispatch(m)
<1>1. /\ AllOK(m, NIL, t) /\ Same(m, kk, SelectFields) /\ Chosen(m)
      /\ Fairly(m, NIL, kk, NIL, t) /\ Slices(m)
  BY SelectIs, SelectTurns
<1>2. Wellformed(r) /\ Wellformed(kk)  BY SelectDispatchIs DEF Resumed, AllOK
<1> HIDE DEF m
<1>3. m.events = kk.events /\ m.status = kk.status /\ m.schedule_time = t
  BY <1>1 DEF Same, Fields, SelectFields
<1>4. /\ Fairly(r, r.exec_shadow, m, NIL, t) /\ r.avail = m.avail
      /\ \A p \in RrTasks : r.status[p] = "READY" => m.status[p] = "READY"
      /\ Slices(r) /\ r.cap_lasttime = t /\ Caps(r)
  BY <1>1, <1>3, DispatchTurns DEF Posted
<1> HIDE DEF r
<1>5. ASSUME NEW p \in RrTasks, kk.status[p] = "READY", r.status[p] = "READY"
      PROVE  r.avail[p] > kk.avail[p] \/ NoLonger(r, r.exec_shadow, kk, NIL, t, p)
  <2>1. m.avail[p] \in Int  BY <1>1, KernelFields, PidSets DEF AllOK, Wellformed
  <2> QED BY <1>1, <1>2, <1>3, <1>4, <1>5, <2>1, NoLongerTrans DEF AllOK, Fairly
<1> QED BY <1>4, <1>5 DEF Turned, Fairly, r, m

\* The time that is charged is what the task has run.
LEMMA ChargedTurns ==
  ASSUME NEW kk, kk.exec_shadow \in Pids, AllOK(kk, kk.exec_shadow, now), now \in Int,
         Slices(kk), kk.cap_lasttime <= now
  PROVE  LET r == kern_epilogue_macro(kk)
         IN  Steady(r, NIL, kk, kk.exec_shadow, now) /\ Slices(r)
<1> DEFINE x == kk.exec_shadow
           r == kern_epilogue_macro(kk)
           charged == IF x \in kk.capped THEN now - kk.cap_lasttime ELSE 0
<1>1. /\ Wellformed(kk) /\ Same(r, kk, {"schedule_time", "avail", "events"})
      /\ r.avail = [kk.avail EXCEPT ![x] = @ - charged]
  BY kern_epilogue_macroIs DEF AllOK
<1> HIDE DEF r
<1>2. /\ r.status = kk.status /\ r.wcet = kk.wcet /\ r.capped = kk.capped
      /\ r.rr = kk.rr /\ r.cap_lasttime = kk.cap_lasttime
  BY <1>1 DEF Same, Fields
<1>3. charged \in Int /\ charged >= 0 /\ kk.avail \in [Pids -> Int] /\ kk.status[x] = "EXE"
  BY <1>1, KernelFields DEF Wellformed, AllOK, TaskOK, QueueOK
<1> HIDE DEF charged
<1>4. Slices(r)
  <2> SUFFICES ASSUME NEW p \in RrTasks, kk.status[p] # "FREE" PROVE Slice(r, p)  BY <1>2 DEF Slices
  <2>1. Slice(kk, p) /\ r.avail[p] <= kk.avail[p] /\ slice[p] \in Int /\ kk.avail[p] \in Int
        /\ r.avail[p] \in Int
    BY <1>1, <1>3, PidSets, RrAssumption DEF Slices
  <2> QED BY <1>2, <2>1 DEF Slice
<1>5. ASSUME NEW p \in RrTasks, kk.status[p] = "READY"
      PROVE  r.avail[p] = kk.avail[p] /\ NoLonger(r, NIL, kk, x, now, p)
  <2>1. r.avail[p] = kk.avail[p]  BY <1>1, <1>3, <1>5
  <2>2. ASSUME NEW q \in RrTasks \ {p} PROVE NotMore(Claim(r, NIL, now, p, q), Claim(kk, x, now, p, q))
    <3>1. q # NIL /\ q \in Pids  BY PidSets
    <3>2. CASE q = x
      <4>1. ~Sooner(kk.rr, q, p)  BY <1>3, <3>2, BeforeMembers DEF AllOK, TaskOK, QueueOK
      <4> QED BY <1>2, <3>1, <4>1 DEF Claim, NotMore
    <3>3. CASE q # x  BY <1>1, <1>2, <1>3, <3>1, <3>3 DEF Claim, NotMore
    <3> QED BY <3>2, <3>3
  <2> QED BY <2>1, <2>2 DEF NoLonger
<1> QED BY <1>2, <1>4, <1>5 DEF Steady, r

\* A Round Robin task goes to the head of the queue with what it has left, or to
\* the tail with a new slice.
LEMMA EpilogueTurns ==
  ASSUME NEW kk, kk.exec_shadow \in Pids, AllOK(kk, kk.exec_shadow, now), now \in Int,
         Slices(kk), kk.cap_lasttime <= now
  PROVE  LET r == public_epilogue(kern_epilogue_macro(kk), kk.exec_shadow)
         IN  Steady(r, NIL, kk, kk.exec_shadow, now) /\ Slices(r)
<1> DEFINE x == kk.exec_shadow
           c == kern_epilogue_macro(kk)
           r == public_epilogue(c, x)
<1> SUFFICES Steady(r, NIL, kk, x, now) /\ Slices(r)  OBVIOUS
<1>1. /\ Wellformed(kk) /\ AllOK(c, x, now) /\ Same(c, kk, {"schedule_time", "avail", "events"})
      /\ c.avail = [kk.avail EXCEPT ![x] = @ - IF x \in kk.capped THEN now - kk.cap_lasttime ELSE 0]
  BY kern_epilogue_macroIs, AllLikewise DEF AllOK
<1>2. Steady(c, NIL, kk, x, now) /\ Slices(c)  BY ChargedTurns
<1> HIDE DEF c
<1>3. AllOK(r, NIL, now) /\ Others(r, c, x)  BY <1>1, public_epilogueIs
<1>4. Wellformed(c) /\ Wellformed(r) /\ c.status[x] = "EXE"  BY <1>1, <1>3 DEF AllOK, TaskOK, QueueOK
<1>5. ASSUME Steady(r, NIL, c, NIL, now) PROVE Steady(r, NIL, kk, x, now)
  BY <1>1, <1>2, <1>4, <1>5, SteadyThen
<1>6. CASE x \notin RrTasks  BY <1>2, <1>3, <1>4, <1>5, <1>6, OthersTurns DEF Joins
<1>7. CASE x \in RrTasks
  <2>1. r = RR_epilogue(c, x) /\ x \notin Members(c.rr)
    BY <1>1, <1>4, <1>7, PidSets DEF public_epilogue, AllOK, TaskOK, QueueOK
  <2> HIDE DEF r
  <2>2. Same(r, c, {"avail", "rr", "status"}) /\ Slice(c, x)
    BY <1>2, <1>4, <1>7, <2>1, RR_epilogueIs DEF Slices
  <2>3. r.wcet = c.wcet /\ r.capped = c.capped /\ r.cap_lasttime = c.cap_lasttime
    BY <2>2 DEF Same, Fields
  <2>4. c.avail \in [Pids -> Int] /\ slice[x] \in Int
    BY <1>4, <1>7, KernelFields, RrAssumption DEF Wellformed
  <2>5. CASE c.avail[x] <= 0
    <3>1. r.rr = InsertLast(x, c.rr) /\ r.avail[x] = c.avail[x] + c.wcet[x]
      BY <1>4, <2>1, <2>4, <2>5 DEF RR_epilogue, Status, Wellformed, Kernels
    <3>2. Slice(r, x)  BY <2>2, <2>3, <2>4, <2>5, <3>1 DEF Slice
    <3> QED BY <1>2, <1>3, <1>4, <1>5, <2>1, <3>1, <3>2, PidSets, OthersTurns DEF Joins
  <2>6. CASE c.avail[x] > 0
    <3>1. r.rr = InsertFirst(x, c.rr) /\ r.avail = c.avail
      BY <1>4, <2>1, <2>4, <2>6 DEF RR_epilogue, Status, Wellformed, Kernels
    <3>2. Slice(r, x)  BY <2>2, <2>3, <3>1 DEF Slice
    <3>3. ASSUME NEW z \in RrTasks, kk.status[z] = "READY", NEW q \in RrTasks \ {z}
          PROVE  NotMore(Claim(r, NIL, now, z, q), Claim(kk, x, now, z, q))
      <4>1. /\ c.rr = kk.rr /\ x \in kk.capped /\ c.status = kk.status
        BY <1>1, <2>2 DEF Same, Fields, Slice
      <4>2. /\ kk.avail \in [Pids -> Int] /\ c.rr \in Seq(RrTasks) /\ now - kk.cap_lasttime \in Int
            /\ q # NIL /\ q \in Pids
        <5>1. q # NIL /\ q \in Pids  BY PidSets
        <5>2. kk \in Kernels /\ c \in Kernels  BY <1>1, <1>4 DEF Wellformed
        <5> QED BY <5>1, <5>2, KernelFields
      <4>3. CASE q = x  BY <1>1, <3>1, <4>1, <4>2, <4>3 DEF Claim, NotMore
      <4>4. CASE q # x
        <5>1. Sooner(r.rr, q, z) => Sooner(kk.rr, q, z)
          BY <1>4, <1>7, <3>1, <3>3, <4>1, <4>2, <4>4, BeforeFirst
        <5> QED BY <1>1, <3>1, <4>2, <4>4, <5>1 DEF Claim, NotMore
      <4> QED BY <4>3, <4>4
    <3>4. \A z \in RrTasks : kk.status[z] = "READY" => r.status[z] = "READY" /\ r.avail[z] = kk.avail[z]
      BY <1>2, <1>3, <1>4, <3>1, PidSets DEF Steady, Others, Alike
    <3> QED BY <1>2, <1>3, <3>2, <3>3, <3>4, SlicesOthers DEF Steady, NoLonger
  <2> QED BY <2>4, <2>5, <2>6
<1> QED BY <1>6, <1>7

LEMMA schedulerTurns ==
  ASSUME NEW kk, kk.exec_shadow \in Pids, AllOK(kk, kk.exec_shadow, now), now \in Int,
         Slices(kk), kk.cap_lasttime <= now
  PROVE  Turned(scheduler(kk), kk, kk.exec_shadow, now)
<1> DEFINE x == kk.exec_shadow
           c == kern_epilogue_macro(kk)
           b == public_epilogue(c, x)
           r == Dispatch(Select(b))
<1>1. CASE x \notin kk.nopreempt
  <2>1. scheduler(kk) = r  BY <1>1, PidSets DEF scheduler
  <2>2. AllOK(c, x, now) /\ c.schedule_time = now /\ ~Posted(c, "capacity", NIL)
    BY kern_epilogue_macroIs, AllLikewise DEF AllOK
  <2>3. Steady(b, NIL, kk, x, now) /\ Slices(b)  BY EpilogueTurns
  <2> HIDE DEF c
  <2>4. AllOK(b, NIL, now) /\ Others(b, c, x)  BY <2>2, public_epilogueIs
  <2> HIDE DEF b
  <2>5. b.schedule_time = now /\ ~Posted(b, "capacity", NIL)
    BY <2>2, <2>4, CapacityStays DEF Others, Apart, AllOK
  <2>6. Turned(r, b, NIL, now) /\ Wellformed(r)
    BY <2>3, <2>4, <2>5, SelectDispatchTurns, SelectDispatchIs DEF Resumed, AllOK
  <2> HIDE DEF r
  <2> QED BY <2>1, <2>3, <2>4, <2>6, SteadyThen DEF Turned, AllOK
<1>2. CASE x \in kk.nopreempt
  <2>1. scheduler(kk) = kk  BY <1>2, PidSets DEF scheduler
  <2> QED BY <1>2, <2>1, TurnsSame DEF Turned, Caps, AllOK, Same
<1> QED BY <1>1, <1>2

LEMMA GiveUpTurns ==
  ASSUME NEW kk, NEW t \in Int, AllOK(kk, NIL, t), ~Posted(kk, "capacity", NIL),
         Slices(kk), kk.schedule_time = t
  PROVE  Turned(GiveUp(kk), kk, NIL, t)
<1> DEFINE m == [kk EXCEPT !.exec_shadow = NIL]
<1>1. Wellformed(m) /\ Likewise(m, kk) /\ Same(m, kk, {"exec_shadow"}) /\ m.exec_shadow = NIL
  BY ShadowIs DEF AllOK
<1> HIDE DEF m
<1>2. /\ Steady(m, NIL, kk, NIL, t) /\ Slices(m) /\ m.schedule_time = t
      /\ AllOK(m, NIL, t) /\ ~Posted(m, "capacity", NIL)
  <2>1. Steady(m, NIL, kk, NIL, t) /\ Slices(m)  BY <1>1, TurnsSame DEF AllOK, Idle, Fields
  <2> QED BY <1>1, <2>1, AllLikewise DEF Posted, Same, Fields
<1>3. GiveUp(kk) = Dispatch(Select(m))
  <2>1. scheduler(m) = Dispatch(Select(m))  BY <1>1, KernelFields, PidSets DEF scheduler, Wellformed
  <2> QED BY <2>1 DEF GiveUp, m
<1>4. Turned(GiveUp(kk), m, NIL, t) /\ Wellformed(GiveUp(kk))
  BY <1>2, <1>3, SelectDispatchTurns, SelectDispatchIs DEF Resumed, AllOK
<1> QED BY <1>1, <1>2, <1>4, SteadyThen DEF Turned, AllOK

\* A primitive has led to m, then the scheduler to r.
LEMMA TurnsReturn ==
  ASSUME IInv, NEW m, Wellformed(m), NEW y, Steady(m, y, k, k.exec_shadow, now),
         NEW r, Wellformed(r), Turned(r, m, y, now), Return(r), now' = now
  PROVE  FairStep
<1> DEFINE c == [r EXCEPT !.resched = FALSE]
<1>1. Wellformed(c) /\ Same(c, r, {"resched"}) /\ k' = c  BY ReschedIs DEF Return
<1> HIDE DEF c
<1>2. Fairly(c, c.exec_shadow, r, c.exec_shadow, now) /\ Slices(c) /\ c.cap_lasttime <= now
  BY <1>1, TurnsSame DEF IInv, Turned, Idle, Fields
<1>3. Fairly(r, r.exec_shadow, k, k.exec_shadow, now)  BY SteadyThen DEF IInv, AllOK, Turned
<1>4. /\ c.status = r.status /\ c.avail = r.avail /\ c.exec_shadow = r.exec_shadow
      /\ c.nopreempt = r.nopreempt /\ c.cap_lasttime = r.cap_lasttime /\ c.events = r.events
      /\ c.rr = r.rr
  BY <1>1 DEF Same, Fields
<1>5. Fairly(c, c.exec_shadow, k, k.exec_shadow, now)  BY <1>3, <1>4 DEF Fairly, NoLonger, Claim
<1>6. Caps(c)  BY <1>4 DEF Turned, Caps
<1> QED BY <1>1, <1>2, <1>5, <1>6 DEF FairStep, SlicesOK

\* The running task goes on, and so does what will stop it.
LEMMA CapsStay ==
  ASSUME NEW m, NEW kk, Wellformed(kk), Caps(kk), kk.exec_shadow \in Pids, NEW p \in Pids,
         Others(m, kk, p), p \in RrTasks => p # kk.exec_shadow, m.exec_shadow = kk.exec_shadow,
         m.exec_shadow \in m.nopreempt <=> kk.exec_shadow \in kk.nopreempt
  PROVE  Caps(m)
<1> DEFINE x == kk.exec_shadow
           e == Event("capacity", NIL, kk.cap_lasttime + kk.avail[x])
<1> SUFFICES ASSUME x \in RrTasks \ m.nopreempt
             PROVE  Event("capacity", NIL, m.cap_lasttime + m.avail[x]) \in Members(m.events)
  BY DEF Caps
<1>1. m.avail[x] = kk.avail[x] /\ m.cap_lasttime = kk.cap_lasttime  BY DEF Others, Apart
<1>2. kk.cap_lasttime + kk.avail[x] \in Int  BY KernelFields DEF Wellformed
<1>3. e \in Events /\ e.pid # p  BY <1>2, PidSets DEF Events, Event, Handlers
<1> QED BY <1>1, <1>3 DEF Others, Caps

LEMMA TurnsOn ==
  ASSUME IInv, SlicesOK, ~irq, NEW m, Wellformed(m), NEW p \in Pids, Others(m, k, p),
         Calm(m, k), Joins(m, k, p), p \in RrTasks => p # k.exec_shadow, Return(m), now' = now
  PROVE  FairStep
<1>1. Steady(m, k.exec_shadow, k, k.exec_shadow, now) /\ Slices(m)
  BY OthersTurns DEF IInv, AllOK, SlicesOK
<1>2. Caps(m)  BY CapsStay DEF IInv, AllOK, SlicesOK, Calm
<1>3. Same(m, m, Idle)  BY DEF Same
<1>4. Fairly(m, k.exec_shadow, m, k.exec_shadow, now)  BY <1>3, TurnsSame DEF IInv
<1> QED BY <1>1, <1>2, <1>4, TurnsReturn DEF Turned, Calm, Others, Apart, SlicesOK

LEMMA TurnsChoose ==
  ASSUME IInv, SlicesOK, NEW m, AllOK(m, k.exec_shadow, now), m.exec_shadow = k.exec_shadow,
         m.cap_lasttime = k.cap_lasttime, Slices(m),
         Steady(m, k.exec_shadow, k, k.exec_shadow, now), Return(scheduler(m)), now' = now
  PROVE  FairStep
<1>1. Turned(scheduler(m), m, k.exec_shadow, now) /\ Wellformed(scheduler(m))
  BY schedulerTurns, schedulerIs DEF IInv, SlicesOK, Settled, AllOK
<1> QED BY <1>1, TurnsReturn DEF AllOK

LEMMA TurnsGiveUp ==
  ASSUME IInv, NEW m, AllOK(m, NIL, now), ~Posted(m, "capacity", NIL), Slices(m),
         m.schedule_time = now, Steady(m, NIL, k, k.exec_shadow, now), Return(GiveUp(m)),
         now' = now
  PROVE  FairStep
<1>1. Turned(GiveUp(m), m, NIL, now) /\ Wellformed(GiveUp(m))
  BY GiveUpTurns, GiveUpIs DEF IInv, Settled, AllOK
<1> QED BY <1>1, TurnsReturn DEF AllOK

LEMMA task_createTurns ==
  ASSUME IInv, SlicesOK, NEW x \in Pids, NEW p \in Ranked \cup RrTasks, task_create(x, p)
  PROVE  FairStep
<1> DEFINE a == public_create(k, p)
           b == Unfreeze(a, p)
<1>1. ~irq /\ k.status[p] = "FREE" /\ Return(b) /\ now' = now /\ p \in Pids
  BY PidSets DEF task_create, Running
<1>2. AllOK(a, k.exec_shadow, now) /\ Calm(a, k) /\ Others(a, k, p)  BY <1>1, createIs DEF IInv
<1>3. p \in RrTasks => Slice(a, p) /\ a.rr = k.rr
  BY PidSets, RR_createIs DEF public_create, IInv, AllOK, Same, Fields
<1> HIDE DEF a
<1>4. Wellformed(b) /\ Others(b, a, p) /\ Same(b, a, {"frozen", "frozen_activations"})
  BY <1>1, <1>2, UnfreezeIs DEF AllOK
<1> HIDE DEF b
<1>5. Joins(b, k, p) /\ p # k.exec_shadow
  BY <1>1, <1>3, <1>4 DEF Joins, Slice, Same, Fields, IInv, AllOK, TaskOK, QueueOK
<1> QED BY <1>1, <1>2, <1>4, <1>5, OthersTrans, TurnsOn DEF Calm, Same, Fields

LEMMA task_activateTurns ==
  ASSUME IInv, SlicesOK, NEW x \in Pids, NEW p \in Ranked \cup RrTasks, task_activate(x, p)
  PROVE  FairStep
<1> DEFINE a == public_activate(k, p)
<1>1. k.status[p] # "FREE" /\ Return(scheduler(a)) /\ now' = now /\ p \in Pids
  BY PidSets DEF task_activate
<1>2. AllOK(a, k.exec_shadow, now) /\ a.exec_shadow = k.exec_shadow /\ Others(a, k, p)
  BY <1>1, activateIs DEF IInv
<1>3. CASE a = k  BY <1>1, <1>3, TurnsSame, TurnsChoose DEF IInv, AllOK, SlicesOK, Same
<1>4. CASE a # k
  <2>1. p \in RrTasks => a = RR_unblock(k, p) /\ k.status[p] = "SLEEP"
    BY <1>4, PidSets DEF public_activate, RR_activate
  <2> HIDE DEF a
  <2>2. p \in RrTasks => p \notin Members(k.rr) /\ p # k.exec_shadow /\ Slice(k, p)
    BY <1>1, <2>1 DEF IInv, AllOK, TaskOK, QueueOK, SlicesOK, Slices
  <2>3. p \in RrTasks => a.rr = InsertLast(p, k.rr) /\ Same(a, k, {"rr", "status"})
    BY <2>1, <2>2, RR_unblockIs DEF IInv, AllOK
  <2>4. Joins(a, k, p)  BY <2>1, <2>2, <2>3 DEF Joins, Slice, Same, Fields
  <2> QED BY <1>1, <1>2, <2>2, <2>4, OthersTurns, TurnsChoose DEF IInv, AllOK, SlicesOK, Others, Apart
<1> QED BY <1>3, <1>4

LEMMA FreezesTurns ==
  ASSUME IInv, SlicesOK, NEW x \in Pids, NEW p \in Ranked \cup RrTasks, Freezes(x, p)
  PROVE  FairStep
<1>1. PICK r \in Kernels : Return(r) /\ Same(r, k, {"frozen", "frozen_activations"})  BY HeldIs
<1>2. Wellformed(r) /\ \A q : Others(r, k, q)  BY <1>1, AsideIs DEF IInv, AllOK, Aside
<1> QED BY <1>1, <1>2, PidSets, HeldIs, CalmSame, TurnsOn DEF Joins

LEMMA task_disableTurns ==
  ASSUME ~DisableAnyJob, IInv, SlicesOK, NEW x \in Pids, NEW p \in Ranked \cup RrTasks,
         task_disable(x, p)
  PROVE  FairStep
<1> DEFINE r == public_message(k, p, "disable")
<1>1. /\ ~irq /\ p \in Periodic \cup SoftPeriodic /\ k.status[p] = "IDLE"
      /\ ~Posted(k, "offset", p) /\ Return(r) /\ now' = now
  BY DEF task_disable, Running
<1>2. p \in Pids /\ p \notin RrTasks  BY <1>1, CbsAssumption, PidSets DEF Edf
<1>3. AllOK(r, k.exec_shadow, now) /\ Calm(r, k) /\ Others(r, k, p)  BY <1>1, disableIs DEF IInv
<1> HIDE DEF r
<1> QED BY <1>1, <1>2, <1>3, TurnsOn DEF Joins, AllOK

\* The running task blocks: no Round Robin task has it before it any more.
LEMMA TurnsBlock ==
  ASSUME IInv, SlicesOK, NEW x, x = k.exec_shadow, NEW a, a = kern_epilogue_macro(k),
         NEW b, AllOK(b, NIL, now), Others(b, a, x), Return(GiveUp(b)), now' = now,
         x \in RrTasks => b.rr = a.rr /\ (b.status[x] # "FREE" => Slice(b, x))
  PROVE  FairStep
<1>1. /\ AllOK(a, x, now) /\ ~Posted(a, "capacity", NIL) /\ a.schedule_time = now
      /\ Steady(a, NIL, k, x, now) /\ Slices(a)
  BY ChargedIs, kern_epilogue_macroIs, ChargedTurns DEF IInv, AllOK, SlicesOK
<1>2. x \in Pids /\ x # NIL /\ now \in Int  BY PidSets DEF IInv
<1>3. Joins(b, a, x)  BY <1>1, <1>2 DEF Joins, AllOK, TaskOK, QueueOK
<1>4. Steady(b, NIL, a, NIL, now) /\ Slices(b)  BY <1>1, <1>2, <1>3, OthersTurns DEF AllOK
<1>5. Steady(b, NIL, k, x, now)  BY <1>1, <1>2, <1>4, SteadyThen DEF IInv, AllOK
<1>6. b.schedule_time = now /\ ~Posted(b, "capacity", NIL)
  BY <1>1, <1>2, CapacityStays DEF Others, Apart, AllOK
<1> QED BY <1>4, <1>5, <1>6, TurnsGiveUp

LEMMA task_endcycleTurns ==
  ASSUME IInv, SlicesOK, NEW x \in Pids, task_endcycle(x)
  PROVE  FairStep
<1> DEFINE a == kern_epilogue_macro(k)
           b == public_message(a, x, "endcycle")
<1>1. k.exec_shadow = x /\ x \in Pids \ {Dummy} /\ Return(GiveUp(b)) /\ now' = now
  BY DEF task_endcycle, Running
<1>2. AllOK(a, x, now) /\ Slices(a)  BY <1>1, ChargedIs, ChargedTurns DEF IInv, SlicesOK
<1> HIDE DEF a
<1>3. AllOK(b, NIL, now) /\ Others(b, a, x)  BY <1>1, <1>2, endcycleIs
<1>4. x \in RrTasks => b = Status(a, x, "SLEEP")  BY PidSets DEF public_message, RR_message
<1> HIDE DEF b
<1>5. x \in RrTasks => Same(b, a, {"status"})
  <2>1. Same(Status(a, x, "SLEEP"), a, {"status"})  BY <1>2, StatusIs, StatusNames DEF AllOK
  <2> QED BY <1>4, <2>1
<1>6. x \in RrTasks => Slice(a, x)  BY <1>1, <1>2 DEF AllOK, Slices, TaskOK, QueueOK
<1> QED BY <1>1, <1>3, <1>5, <1>6, TurnsBlock DEF a, Same, Fields, Slice

LEMMA nanosleepTurns ==
  ASSUME IInv, SlicesOK, NEW x \in Pids, NEW d \in Delays, nanosleep(x, d)
  PROVE  FairStep
<1> DEFINE a == kern_epilogue_macro(k)
<1>1. k.exec_shadow = x /\ x # Dummy /\ now' = now /\ AllOK(a, x, now) /\ Slices(a)
  BY nanosleepIs, ChargedTurns DEF IInv, SlicesOK
<1>2. PICK b : AllOK(b, NIL, now) /\ Sleeps(b, a, x) /\ Return(GiveUp(b))  BY nanosleepIs
<1> HIDE DEF a
<1> QED BY <1>1, <1>2, TurnsBlock DEF Sleeps, a, Same, Fields, Slices, Slice

LEMMA task_endTurns ==
  ASSUME IInv, SlicesOK, NEW x \in Pids, task_end(x)
  PROVE  FairStep
<1> DEFINE a == public_end(k, x)
<1>1. k.exec_shadow = x /\ x # Dummy /\ AllOK(a, NIL, now) /\ Others(a, k, x) /\ now' = now  BY task_endIs
<1>2. PICK c : Uncapped(c, a) /\ Return(GiveUp(c))  BY task_endIs
<1>3. Joins(a, k, x)
  <2> SUFFICES ASSUME x \in RrTasks PROVE a.rr = k.rr /\ a.status[x] = "FREE"
    BY <1>1 DEF Joins, IInv, AllOK, TaskOK, QueueOK
  <2>1. a = Status(k, x, "FREE")  BY PidSets DEF public_end, RR_end
  <2> HIDE DEF a
  <2>2. Wellformed(k) /\ k.status \in [Pids -> Statuses]  BY KernelFields DEF IInv, AllOK, Wellformed
  <2>3. Same(a, k, {"status"}) /\ a.status = [k.status EXCEPT ![x] = "FREE"]
    BY <2>1, <2>2, StatusIs, StatusNames
  <2> QED BY <2>2, <2>3 DEF Same, Fields
<1> HIDE DEF a
<1>4. Steady(a, NIL, k, x, now) /\ Slices(a)
  BY <1>1, <1>3, PidSets, OthersTurns DEF IInv, AllOK, SlicesOK
<1>5. Steady(c, NIL, a, NIL, now) /\ Slices(c)
  BY <1>1, <1>2, <1>4, TurnsSame DEF Uncapped, IInv, AllOK, Idle, Fields
<1>6. Steady(c, NIL, k, x, now)  BY <1>1, <1>2, <1>4, <1>5, SteadyThen DEF Uncapped, IInv, AllOK
<1> QED BY <1>1, <1>2, <1>5, <1>6, TurnsGiveUp DEF Uncapped

LEMMA preemptTurns ==
  ASSUME IInv, SlicesOK, NEW x \in Pids, task_nopreempt(x) \/ task_preempt(x)
  PROVE  FairStep
<1>1. PICK r : /\ AllOK(r, x, now) /\ Same(r, k, {"nopreempt", "events"})
               /\ (Return(r) /\ x \in r.nopreempt) \/ Return(scheduler(r))
  BY preemptIs
<1>2. k.exec_shadow = x /\ now' = now /\ r.exec_shadow = x  BY <1>1, preemptIs DEF Same, Fields
<1>3. Steady(r, x, k, x, now) /\ Slices(r) /\ r.cap_lasttime = k.cap_lasttime
  BY <1>1, TurnsSame DEF IInv, AllOK, SlicesOK, Idle, Fields
<1>4. Same(r, r, Idle)  BY DEF Same
<1>5. Fairly(r, x, r, x, now)  BY <1>1, <1>4, TurnsSame DEF IInv, AllOK
<1>6. x \in r.nopreempt => Turned(r, r, x, now)  BY <1>2, <1>3, <1>5 DEF Turned, Caps, SlicesOK
<1> QED BY <1>1, <1>2, <1>3, <1>6, TurnsReturn, TurnsChoose DEF AllOK

LEMMA rescheduleTurns ==
  ASSUME IInv, SlicesOK, reschedule
  PROVE  FairStep
<1> DEFINE x == k.exec_shadow
<1>1. Wellformed(k) /\ AllOK(k, x, now) /\ now \in Int /\ now' = now  BY DEF IInv, AllOK, reschedule
<1>2. Same(k, k, Idle)  BY DEF Same
<1> HIDE DEF x
<1>3. Steady(k, x, k, x, now) /\ Fairly(k, x, k, x, now)  BY <1>1, <1>2, TurnsSame
<1> USE DEF x
<1> QED BY <1>1, <1>3, TurnsChoose, TurnsReturn DEF reschedule, SlicesOK, Turned

\* An event leaves a request to reschedule, or all as it was for the task that runs.
LEMMA wake_upTurns ==
  ASSUME IInv, SlicesOK, wake_up
  PROVE  FairStep
<1> DEFINE x == k.exec_shadow
           h == k.events[1].handler
           p == k.events[1].pid
           m == [k EXCEPT !.events = Tail(@)]
<1>1. /\ k.events # <<>> /\ now' = now /\ now \in Int /\ Wellformed(k) /\ x \in Pids
      /\ AllOK(k, x, now) /\ AllOK(k', x, now) /\ Heard(k', k) /\ Handles(k', h, m, p)
      /\ h = "capacity" => Same(k', k, {"events", "resched"}) /\ k'.resched
      /\ h \notin {"capacity", "delay"} => Others(k', k, p)
      /\ h \in {"endperiod", "deadline", "offset", "reactivate", "zombie"} => p \in Ranked
  BY WakeIs, wake_upKeeps, PidSets DEF IInv
<1>2. ASSUME k'.exec_shadow = x, Fairly(k', x, k, x, now), Slices(k'),
             k'.cap_lasttime = k.cap_lasttime, k'.resched \/ Caps(k')
      PROVE  FairStep
  BY <1>1, <1>2 DEF FairStep, SlicesOK
<1>3. ASSUME p \in Pids, Others(k', k, p), Joins(k', k, p), p \in RrTasks => p # x /\ k'.resched
      PROVE  FairStep
  <2>1. Steady(k', x, k, x, now) /\ Slices(k')  BY <1>1, <1>3, OthersTurns DEF SlicesOK
  <2>2. CASE k'.resched  BY <1>1, <1>2, <1>3, <2>1, <2>2 DEF Steady, Fairly, Heard, Others, Apart
  <2>3. CASE ~k'.resched
    BY <1>1, <1>2, <1>3, <2>1, <2>3, CapsStay DEF Steady, Fairly, Heard, Others, Apart, SlicesOK
  <2> QED BY <2>2, <2>3
<1>5. CASE h = "capacity"  BY <1>1, <1>2, <1>5, TurnsSame DEF SlicesOK, Idle, Fields, Heard
<1>6. CASE h = "delay" /\ k' = delay_timer(m, p)
  <2>1. /\ p \in Pids /\ Others(k', k, p) /\ k'.resched
        /\ Same(k', k, {"cbs_dline", "avail", "dline", "edf", "rr", "status", "resched", "events"})
        /\ k.status[p] = "WAIT_NANOSLEEP"
        /\ p \in RrTasks => k'.avail = k.avail /\ k'.rr = InsertLast(p, k.rr)
    BY <1>1, <1>6, delayIs
  <2> HIDE DEF p
  <2>2. p # x /\ (p \in RrTasks => p \notin Members(k.rr) /\ Slice(k, p))
    BY <1>1, <2>1 DEF AllOK, TaskOK, QueueOK, SlicesOK, Slices
  <2>3. Joins(k', k, p)  BY <2>1, <2>2 DEF Joins, Slice, Same, Fields
  <2> QED BY <1>3, <2>1, <2>2, <2>3
<1>7. CASE h \in {"endperiod", "deadline", "offset", "reactivate", "zombie"}
  BY <1>1, <1>3, <1>7, PidSets DEF Joins
<1> HIDE DEF h
<1> QED BY <1>1, <1>5, <1>6, <1>7 DEF Handles

LEMMA PrimitiveTurns ==
  ASSUME ~DisableAnyJob, IInv, SlicesOK, NEW x \in Pids, Primitive(x)
  PROVE  FairStep /\ StillWaiting /\ now' = now
<1>1. FairStep
  BY task_createTurns, task_activateTurns, FreezesTurns, task_disableTurns, task_endcycleTurns,
     nanosleepTurns, task_endTurns, preemptTurns DEF Primitive, Freezes
<1>2. StillWaiting /\ now' = now
  BY DEF Primitive, task_create, task_activate, task_activate_frozen, task_block_activation,
         task_unblock_activation, task_disable, task_endcycle, nanosleep, task_end,
         task_nopreempt, task_preempt, Noted
<1> QED BY <1>1, <1>2

\* All that the others may run for before p does.
LEMMA ClaimsLess ==
  ASSUME IsFiniteSet(RrTasks), NEW r, Wellformed(r), NEW kk, Wellformed(kk), NEW x, NEW y,
         NEW t \in Int, NEW p, NoLonger(r, y, kk, x, t, p)
  PROVE  LET c == Claims(r, y, t, p)
             d == Claims(kk, x, t, p)
             others == RrTasks \ {p}
         IN  /\ SumOf(c, others) \in Nat /\ SumOf(d, others) \in Nat
             /\ SumOf(c, others) <= SumOf(d, others)
<1> DEFINE c == Claims(r, y, t, p)
           d == Claims(kk, x, t, p)
<1>1. \A q \in RrTasks \ {p} : c[q] \in Int /\ d[q] \in Int /\ NotMore(c[q], d[q])
  BY ClaimInt DEF Claims, NoLonger
<1> HIDE DEF c, d
<1> QED BY <1>1, FS_Subset, SumMono DEF c, d

LEMMA ClaimsFull ==
  ASSUME IsFiniteSet(RrTasks), NEW kk, NEW x, NEW t \in Int, AllOK(kk, x, t), Slices(kk),
         kk.cap_lasttime <= t, NEW p \in RrTasks
  PROVE  LET c == Claims(kk, x, t, p)
             others == RrTasks \ {p}
         IN  /\ SumOf(c, others) \in Nat /\ SumOf(slice, others) \in Nat
             /\ SumOf(c, others) <= SumOf(slice, others)
<1> DEFINE c == Claims(kk, x, t, p)
<1>1. ASSUME NEW q \in RrTasks \ {p}
      PROVE  c[q] \in Int /\ slice[q] \in Int /\ NotMore(c[q], slice[q])
  <2>1. /\ c[q] = Claim(kk, x, t, p, q) /\ Claim(kk, x, t, p, q) \in Int /\ slice[q] \in Int
        /\ kk.avail[q] \in Int /\ kk.cap_lasttime \in Int /\ q \in Pids
    BY ClaimInt, PidSets, RrAssumption, KernelFields DEF Claims, AllOK, Wellformed
  <2>2. q = x \/ Sooner(kk.rr, q, p) => kk.status[q] # "FREE"
    BY <2>1, BeforeMembers DEF AllOK, TaskOK, QueueOK
  <2> QED BY <2>1, <2>2 DEF Claim, NotMore, Slices, Slice
<1> HIDE DEF c
<1> QED BY <1>1, FS_Subset, SumMono DEF c

LEMMA FairShare ==
  ASSUME IsFiniteSet(RrTasks), IInv, IInv', FairStep, StillWaiting, now' = now, ShareOK
  PROVE  ShareOK'
<1> DEFINE x == k.exec_shadow
           y == k'.exec_shadow
<1>1. /\ now \in Int /\ AllOK(k', y, now) /\ Slices(k') /\ k'.cap_lasttime <= now
      /\ Wellformed(k') /\ Wellformed(k) /\ Fairly(k', y, k, x, now)
  BY DEF IInv, AllOK, FairStep, SlicesOK
<1>2. waited' \in [RrTasks -> Int]  BY DEF ShareOK, StillWaiting
<1>3. ASSUME NEW p \in RrTasks
      PROVE  LET others == RrTasks \ {p}
             IN  IF k'.status[p] = "READY"
                   THEN waited'[p] + SumOf(Claims(k', y, now, p), others) <= SumOf(slice, others)
                   ELSE waited'[p] = 0
  <2> DEFINE c == SumOf(Claims(k', y, now, p), RrTasks \ {p})
             d == SumOf(Claims(k, x, now, p), RrTasks \ {p})
             s == SumOf(slice, RrTasks \ {p})
  <2>1. /\ waited'[p] = IF k'.status[p] = "READY" /\ k'.avail[p] <= k.avail[p] THEN waited[p] ELSE 0
        /\ waited[p] \in Int
        /\ IF k.status[p] = "READY" THEN waited[p] + d <= s ELSE waited[p] = 0
    BY DEF StillWaiting, ShareOK
  <2>2. c \in Nat /\ s \in Nat /\ c <= s  BY <1>1, ClaimsFull
  <2>3. NoLonger(k', y, k, x, now, p) => d \in Nat /\ c <= d  BY <1>1, ClaimsLess
  <2>4. k'.avail[p] \in Int /\ k.avail[p] \in Int  BY <1>1, PidSets, KernelFields DEF Wellformed
  <2>5. /\ k.status[p] = "READY" /\ k'.status[p] = "READY" /\ k'.avail[p] <= k.avail[p]
        => NoLonger(k', y, k, x, now, p)
    BY <1>1, <2>4 DEF Fairly
  <2> HIDE DEF c, d, s
  <2>6. k'.status[p] = "READY" => waited'[p] + c <= s  BY <2>1, <2>2, <2>3, <2>5
  <2> QED BY <2>1, <2>6 DEF c, s
<1> QED BY <1>2, <1>3 DEF ShareOK

\* While a task runs, what it may still claim gets less.
LEMMA tickShare ==
  ASSUME IsFiniteSet(RrTasks), IInv, IInv', SlicesOK, ShareOK, tick
  PROVE  SlicesOK' /\ ShareOK'
<1> DEFINE x == k.exec_shadow
           t == now + 1
<1>1. /\ ~irq /\ ~Due(k) /\ now' = t /\ k' = k /\ now \in Int /\ t \in Int /\ Wellformed(k)
      /\ AllOK(k, x, now) /\ AllOK(k, x, t) /\ x \in Pids
      /\ k.avail \in [Pids -> Int] /\ k.cap_lasttime \in Int
  BY KernelFields DEF tick, IInv, AllOK, Wellformed
<1>2. Slices(k) /\ k.cap_lasttime <= now /\ Caps(k)  BY <1>1 DEF SlicesOK, IInv
<1>3. SlicesOK'  BY <1>1, <1>2 DEF SlicesOK, Slices, Slice, Caps
<1>4. waited' = [p \in RrTasks |->
        IF k.status[p] = "READY"
          THEN waited[p] + (IF x \in RrTasks \ k.nopreempt THEN 1 ELSE 0)
          ELSE 0]
  BY DEF tick
<1>5. ASSUME NEW p \in RrTasks, k.status[p] = "READY"
      PROVE  waited'[p] + SumOf(Claims(k, x, t, p), RrTasks \ {p}) <= SumOf(slice, RrTasks \ {p})
  <2> DEFINE T == RrTasks \ {p}
             c == Claims(k, x, t, p)
             d == Claims(k, x, now, p)
  <2>1. p # x /\ waited[p] + SumOf(d, T) <= SumOf(slice, T) /\ waited[p] \in Int
    BY <1>1, <1>5 DEF AllOK, TaskOK, QueueOK, ShareOK
  <2>2. /\ SumOf(c, T) \in Nat /\ SumOf(d, T) \in Nat /\ SumOf(slice, T) \in Nat
    BY <1>1, <1>2, ClaimsFull
  <2>3. ASSUME NEW q \in T
        PROVE  c[q] \in Int /\ d[q] \in Int /\ c[q] = IF q = x THEN d[q] - 1 ELSE d[q]
    <3>1. c[q] = Claim(k, x, t, p, q) /\ d[q] = Claim(k, x, now, p, q) /\ k.avail[q] \in Int
      BY <1>1, PidSets DEF Claims
    <3> HIDE DEF c, d
    <3> QED BY <1>1, <3>1 DEF Claim
  <2>4. IsFiniteSet(T)  BY FS_Subset
  <2>5. CASE x \in RrTasks \ k.nopreempt
    <3>1. k.cap_lasttime + k.avail[x] >= t  BY <1>1, <1>2, <2>5, LaterEvents DEF Caps, Event
    <3>2. x \in T /\ d[x] >= 1  BY <1>1, <2>1, <2>5, <3>1 DEF Claims, Claim
    <3> HIDE DEF c, d, T
    <3>3. SumOf(c, T) + 1 <= SumOf(d, T)  BY <2>3, <2>4, <3>2, SumDrop DEF NotMore
    <3> QED BY <1>4, <1>5, <2>1, <2>2, <2>5, <3>3 DEF c, T
  <2>6. CASE x \notin RrTasks \ k.nopreempt
    <3> HIDE DEF c, d, T
    <3>1. SumOf(c, T) <= SumOf(d, T)  BY <2>3, <2>4, SumMono DEF NotMore
    <3> QED BY <1>4, <1>5, <2>1, <2>2, <2>6, <3>1 DEF c, T
  <2> QED BY <2>5, <2>6
<1> QED BY <1>1, <1>3, <1>4, <1>5 DEF ShareOK

LEMMA NextShare ==
  ASSUME ~DisableAnyJob, IsFiniteSet(RrTasks), IInv, IInv', SlicesOK, ShareOK, [Next]_vars
  PROVE  SlicesOK' /\ ShareOK'
<1>1. CASE wake_up  BY <1>1, wake_upTurns, FairShare DEF wake_up, event, Noted, FairStep
<1>2. CASE reschedule  BY <1>2, rescheduleTurns, FairShare DEF reschedule, Noted, FairStep
<1>3. CASE tick  BY <1>3, tickShare
<1>4. ASSUME NEW x \in Pids, Primitive(x) PROVE SlicesOK' /\ ShareOK'
  BY <1>4, PrimitiveTurns, FairShare DEF FairStep
<1>5. CASE UNCHANGED vars  BY <1>5 DEF vars, SlicesOK, Slices, Slice, Caps, ShareOK, Claims, Claim
<1> QED BY <1>1, <1>2, <1>3, <1>4, <1>5 DEF Next

LEMMA InitShare ==
  ASSUME IsFiniteSet(RrTasks), Init
  PROVE  SlicesOK /\ ShareOK
<1>1. now = 0 /\ k = Started /\ waited = [p \in RrTasks |-> 0]  BY DEF Init
<1>2. PICK b : /\ AllOK(b, NIL, 0) /\ Started = Dispatch(Select(b)) /\ b.events = <<>>
               /\ Slices(b) /\ b.schedule_time = 0
  BY StartIs
<1>3. Slices(k) /\ k.cap_lasttime <= now /\ Caps(k)  BY <1>1, <1>2, SelectDispatchTurns DEF Turned, Posted
<1>4. AllOK(k, k.exec_shadow, now) /\ now \in Int  BY InitIInv DEF IInv
<1>5. ASSUME NEW p \in RrTasks
      PROVE  0 + SumOf(Claims(k, k.exec_shadow, now, p), RrTasks \ {p}) <= SumOf(slice, RrTasks \ {p})
  BY <1>3, <1>4, ClaimsFull
<1> QED BY <1>1, <1>3, <1>5 DEF SlicesOK, ShareOK

LEMMA SharesAreKept ==
  ASSUME IsFiniteSet(RrTasks), IInv, SlicesOK, ShareOK
  PROVE  RrShare
<1> SUFFICES ASSUME NEW p \in RrTasks PROVE waited[p] <= SumOf(slice, RrTasks \ {p})  BY DEF RrShare
<1> DEFINE c == SumOf(Claims(k, k.exec_shadow, now, p), RrTasks \ {p})
           s == SumOf(slice, RrTasks \ {p})
<1>1. c \in Nat /\ s \in Nat  BY ClaimsFull DEF IInv, SlicesOK
<1>2. waited[p] \in Int /\ IF k.status[p] = "READY" THEN waited[p] + c <= s ELSE waited[p] = 0
  BY DEF ShareOK
<1> HIDE DEF c, s
<1> QED BY <1>1, <1>2 DEF s

\* Between two turns of a ready Round Robin task each other task of the level runs
\* for at most a slice: the time that is charged, the events that stop the running
\* task, and the places in the queue, at whose ends RR_epilogue, RR_unblock and the
\* rotation of RR_scheduler put a task, let none wait longer, whatever preempts,
\* sleeps, is ended or activated. The tasks are finitely many, as in the code's
\* table, and a task is disabled only between two jobs.
THEOREM TheRoundRobinIsFair ==
  ASSUME ~DisableAnyJob, IsFiniteSet(RrTasks)
  PROVE  Spec => []RrShare
<1>1. Init => SlicesOK /\ ShareOK  BY InitShare
<1>2. IInv /\ IInv' /\ SlicesOK /\ ShareOK /\ [Next]_vars => SlicesOK' /\ ShareOK'  BY NextShare
<1>3. IInv /\ SlicesOK /\ ShareOK => RrShare  BY SharesAreKept
<1> QED BY <1>1, <1>2, <1>3, AlwaysIInv, PTL DEF Spec
=============================================================================
