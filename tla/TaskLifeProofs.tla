--------------------------- MODULE TaskLifeProofs ---------------------------
(* Theorems about the life cycle of tasks, for any number of descriptors.  *)
(* They need what callers must respect: no cleanup handler in a joinable   *)
(* task, one joiner per task, and cancellation left enabled.  Each of the  *)
(* three fails without its assumption.                                     *)
EXTENDS TaskLife, IqueueOpsProofs

\* What the callers respect.
Discipline == ~JoinableHandlers /\ SingleJoiner /\ CancelStates \subseteq {TRUE}

Waiting(x) == status[x] = "WAIT_JOIN"

FreeOK ==
  /\ Distinct(freedesc)
  /\ \A p \in Pids :
       p \in Members(freedesc) <=>
         status[p] = "FREE" /\ ~(discarded[p] /\ wait_for_join[p])

\* The fields of one descriptor.
Flags ==
  \A p \in Pids :
    /\ enabled[p]
    /\ status[p] # "FREE" => ~discarded[p] /\ ~wait_for_join[p]
    /\ status[p] # "FREE" /\ joinable[p] => ~cleanup[p]
    /\ status[p] \in {"FREE", "SLEEP"} => phase[p] = "user"
    /\ phase[p] = "cleanup" => cleanup[p]
    /\ phase[p] # "cleanup" => ending[p] = 0
    /\ phase[p] \in {"entry", "wait"} => target[p] \in Pids

\* A blocked joiner and the task it waits for know each other.
Links ==
  \A x \in Pids :
    /\ shadow[x] # x => Waiting(x)
    /\ Waiting(x) => /\ phase[x] = "wait"
                     /\ status[target[x]] # "FREE"
                     /\ waiting_for_me[target[x]] = x
                     /\ shadow[x] = target[x]
    /\ status[x] # "FREE" /\ waiting_for_me[x] # NIL =>
         waiting_for_me[x] \in Pids /\ Waiting(waiting_for_me[x])
         /\ target[waiting_for_me[x]] = x

\* The target of a join stays joinable and is not reused; a joiner that was
\* made ready, and not by a kill, will find it ended.
Targets ==
  /\ \A x, p \in Pids : InJoin(x, p) =>
       joinable[p] /\ (status[p] # "FREE" \/ wait_for_join[p])
  /\ \A x, y, p \in Pids : InJoin(x, p) /\ InJoin(y, p) => x = y
  /\ \A x \in Pids : phase[x] = "wait" /\ status[x] = "READY" /\ ~killreq[x] =>
       wait_for_join[target[x]]

LifeOK == TypeOK /\ ~raised /\ FreeOK /\ Flags /\ Links /\ Targets

\* What an action has to show.
Keeps == LifeOK' /\ JoinStep /\ ReuseStep

-----------------------------------------------------------------------------
(* Creation and activation *)

LEMMA CreateKeeps ==
  ASSUME Discipline, LifeOK, NEW j \in BOOLEAN, NEW k \in DOMAIN freedesc, Available(k),
         Discard(k, {freedesc[k]}), Fill(freedesc[k], j),
         \/ /\ status' = [status EXCEPT ![freedesc[k]] = "SLEEP"]
            /\ freedesc' = DropFirst(k, freedesc)
         \/ /\ freedesc' = InsertFirst(freedesc[k], DropFirst(k, freedesc))
            /\ UNCHANGED status
  PROVE  Keeps
<1> DEFINE f == freedesc[k]
           rest == DropFirst(k, freedesc)
<1>1. freedesc \in Seq(Pids) /\ Distinct(freedesc) /\ NIL \notin Pids
  BY TaskLifeAssumption DEF LifeOK, TypeOK, FreeOK, TaskLifeAssumption
<1>2. k \in 1 .. Len(freedesc) /\ Len(freedesc) \in Nat /\ DOMAIN freedesc = 1 .. Len(freedesc)
  BY <1>1
<1>3. f \in Pids /\ f \in Members(freedesc)
  BY <1>1, <1>2 DEF Members
<1>4. /\ status[f] = "FREE" /\ ~wait_for_join[f] /\ phase[f] = "user" /\ ending[f] = 0
  BY <1>3 DEF LifeOK, FreeOK, Flags, Available
<1>5. rest \in Seq(Pids) /\ Distinct(rest)
      /\ Members(rest) = Members(freedesc) \ {freedesc[i] : i \in 1 .. k}
  <2>1. k \in 0 .. Len(freedesc)
    BY <1>2
  <2> QED BY <1>1, <2>1, DropFirstProperties
<1>6. {freedesc[i] : i \in 1 .. k} = Skipped(k) \cup {f}
  <2>1. \A i \in 1 .. k : i = k \/ i \in 1 .. k - 1
    BY <1>2
  <2>2. k \in 1 .. k /\ \A i \in 1 .. k - 1 : i \in 1 .. k
    BY <1>2
  <2> QED BY <2>1, <2>2 DEF Skipped
<1>7. f \notin Skipped(k) /\ \A p \in Skipped(k) : p \in Members(freedesc) /\ wait_for_join[p]
  <2>1. \A i \in 1 .. k - 1 : i \in DOMAIN freedesc /\ i # k
    BY <1>2
  <2>2. \A i \in 1 .. k - 1 : freedesc[i] # freedesc[k]
    BY <1>1, <2>1 DEF Distinct
  <2> QED BY <2>1, <2>2 DEF Skipped, Available, Members
<1>8. /\ joinable' = [joinable EXCEPT ![f] = j]
      /\ wait_for_join' = [wait_for_join EXCEPT ![f] = FALSE]
      /\ killreq' = [killreq EXCEPT ![f] = FALSE]
      /\ enabled' = [enabled EXCEPT ![f] = TRUE]
      /\ cleanup' = [cleanup EXCEPT ![f] = FALSE]
      /\ shadow' = [shadow EXCEPT ![f] = f]
      /\ waiting_for_me' = [waiting_for_me EXCEPT ![f] = NIL]
      /\ phase' = phase /\ target' = target /\ ending' = ending /\ raised' = raised
      /\ discarded' = [p \in Pids |-> p # f /\ (discarded[p] \/ p \in Skipped(k))]
  BY DEF Fill, Discard, callVars
<1>9. \/ /\ status' = [status EXCEPT ![f] = "SLEEP"] /\ freedesc' = rest
      \/ /\ status' = status /\ freedesc' = InsertFirst(f, rest)
  OBVIOUS
<1> HIDE DEF f, rest
<1>10. f \notin Members(rest)
  BY <1>5, <1>6
<1>11. /\ InsertFirst(f, rest) \in Seq(Pids) /\ Distinct(InsertFirst(f, rest))
       /\ Members(InsertFirst(f, rest)) = Members(rest) \cup {f}
  BY <1>3, <1>5, <1>10, InsertFirstProperties
<1>12. TypeOK'
  BY <1>3, <1>5, <1>8, <1>9, <1>11 DEF LifeOK, TypeOK
<1>13. \A p \in Pids \ {f} :
         /\ joinable'[p] = joinable[p] /\ wait_for_join'[p] = wait_for_join[p]
         /\ killreq'[p] = killreq[p] /\ enabled'[p] = enabled[p]
         /\ cleanup'[p] = cleanup[p] /\ shadow'[p] = shadow[p]
         /\ waiting_for_me'[p] = waiting_for_me[p] /\ status'[p] = status[p]
         /\ discarded'[p] = (discarded[p] \/ p \in Skipped(k))
  BY <1>3, <1>8, <1>9 DEF LifeOK, TypeOK
<1>14. /\ ~wait_for_join'[f] /\ enabled'[f] /\ ~cleanup'[f] /\ shadow'[f] = f
       /\ waiting_for_me'[f] = NIL /\ ~discarded'[f]
       /\ \/ status'[f] = "SLEEP" /\ freedesc' = rest
          \/ status'[f] = "FREE" /\ freedesc' = InsertFirst(f, rest)
  BY <1>3, <1>4, <1>8, <1>9 DEF LifeOK, TypeOK
<1>15. FreeOK'
  <2>1. Distinct(freedesc')
    BY <1>5, <1>11, <1>14
  <2>2. f \in Members(freedesc') <=> status'[f] = "FREE"
    BY <1>10, <1>11, <1>14
  <2>3. ASSUME NEW p \in Pids \ {f}
        PROVE  p \in Members(freedesc') <=>
                 status'[p] = "FREE" /\ ~(discarded'[p] /\ wait_for_join'[p])
    <3>1. p \in Members(freedesc') <=> p \in Members(freedesc) /\ p \notin Skipped(k)
      BY <1>5, <1>6, <1>11, <1>14
    <3>2. p \in Members(freedesc) <=>
            status[p] = "FREE" /\ ~(discarded[p] /\ wait_for_join[p])
      BY DEF LifeOK, FreeOK
    <3> QED BY <1>7, <1>13, <3>1, <3>2
  <2> QED BY <1>14, <2>1, <2>2, <2>3 DEF FreeOK
<1>16. Flags'
  <2>1. \A p \in Pids : p \in Skipped(k) => status[p] = "FREE"
    BY <1>7 DEF LifeOK, FreeOK
  <2>2. \A p \in Pids \ {f} : status'[p] # "FREE" =>
          (discarded'[p] <=> discarded[p]) /\ status[p] # "FREE"
    BY <1>13, <2>1
  <2> SUFFICES ASSUME NEW p \in Pids
               PROVE  /\ enabled'[p]
                      /\ status'[p] # "FREE" => ~discarded'[p] /\ ~wait_for_join'[p]
                      /\ status'[p] # "FREE" /\ joinable'[p] => ~cleanup'[p]
                      /\ status'[p] \in {"FREE", "SLEEP"} => phase'[p] = "user"
                      /\ phase'[p] = "cleanup" => cleanup'[p]
                      /\ phase'[p] # "cleanup" => ending'[p] = 0
                      /\ phase'[p] \in {"entry", "wait"} => target'[p] \in Pids
    BY Zenon DEF Flags
  <2>3. CASE p = f
    BY <1>4, <1>8, <1>14, <2>3
  <2>4. CASE p # f
    BY <1>8, <1>13, <2>2, <2>4 DEF LifeOK, Flags
  <2> QED BY <2>3, <2>4
<1>17. \A x \in Pids : InJoin(x, f) => FALSE
  BY <1>3, <1>4 DEF LifeOK, Targets
<1>18. \A x \in Pids : Waiting(x)' <=> Waiting(x)
  BY <1>4, <1>13, <1>14 DEF Waiting
<1>19. \A x \in Pids : Waiting(x) => target[x] \in Pids /\ target[x] # f /\ x # f
  BY <1>4, <1>17 DEF LifeOK, Links, Flags, InJoin, Waiting
<1>20. Links'
  BY <1>1, <1>8, <1>13, <1>14, <1>18, <1>19 DEF LifeOK, Links
<1>21. Targets'
  <2>1. \A x, p \in Pids : InJoin(x, p)' <=> InJoin(x, p)
    BY <1>8 DEF InJoin
  <2>2. \A x, p \in Pids : InJoin(x, p) => p # f /\ x # f
    BY <1>4, <1>17 DEF InJoin
  <2>3. ASSUME NEW x \in Pids, phase'[x] = "wait", status'[x] = "READY", ~killreq'[x]
        PROVE  wait_for_join'[target'[x]]
    <3>1. InJoin(x, target[x]) /\ target[x] \in Pids /\ x # f
      BY <1>4, <1>8, <2>3 DEF InJoin, LifeOK, Flags
    <3> QED BY <1>8, <1>13, <2>2, <2>3, <3>1 DEF LifeOK, Targets
  <2> QED BY <1>13, <2>1, <2>2, <2>3 DEF LifeOK, Targets
<1>22. JoinStep
  BY <1>8 DEF JoinStep, JoinSucceeds
<1>23. ReuseStep
  BY <1>13, <1>17 DEF ReuseStep, InJoin
<1> QED BY <1>8, <1>12, <1>15, <1>16, <1>20, <1>21, <1>22, <1>23 DEF Keeps, LifeOK

LEMMA NoneKeeps ==
  ASSUME Discipline, LifeOK, NEW c \in Pids, task_createn_none(c)
  PROVE  Keeps
<1>1. /\ freedesc' = <<>>
      /\ discarded' = [p \in Pids |-> discarded[p] \/ p \in Skipped(Len(freedesc) + 1)]
      /\ UNCHANGED <<status, shadow, waiting_for_me, joinable, wait_for_join,
                     cancelVars, callVars, ending, raised>>
  BY DEF task_createn_none, Discard
<1>2. Skipped(Len(freedesc) + 1) = Members(freedesc)
  <2>1. freedesc \in Seq(Pids)
    BY DEF LifeOK, TypeOK
  <2>2. DOMAIN freedesc = 1 .. (Len(freedesc) + 1) - 1
    BY <2>1
  <2> QED BY <2>2 DEF Skipped, Members
<1>3. \A p \in Members(freedesc) : wait_for_join[p]
  BY DEF task_createn_none, Members
<1>4. TypeOK'
  BY <1>1 DEF LifeOK, TypeOK, cancelVars, callVars
<1>5. Members(<<>>) = {} /\ Distinct(<<>>)
  BY DEF Members, Distinct
<1>6. FreeOK'
  BY <1>1, <1>2, <1>3, <1>5 DEF LifeOK, FreeOK
<1>7. Flags'
  BY <1>1, <1>2 DEF LifeOK, FreeOK, Flags, cancelVars, callVars
<1>8. Links' /\ Targets' /\ raised' = raised
  BY <1>1 DEF LifeOK, Links, Targets, Waiting, InJoin, cancelVars, callVars
<1>9. JoinStep /\ ReuseStep
  BY <1>1 DEF JoinStep, JoinSucceeds, ReuseStep, callVars
<1> QED BY <1>4, <1>6, <1>7, <1>8, <1>9 DEF Keeps, LifeOK

LEMMA ActivateKeeps ==
  ASSUME Discipline, LifeOK, NEW c \in Pids, NEW p \in Pids, task_activate(c, p)
  PROVE  Keeps
<1>1. /\ status[p] = "SLEEP" /\ status' = [status EXCEPT ![p] = "READY"]
      /\ UNCHANGED <<shadow, waiting_for_me, controlVars, cancelVars, freedesc,
                     callVars, ending, raised>>
  BY DEF task_activate
<1>2. TypeOK'
  BY <1>1 DEF LifeOK, TypeOK, controlVars, cancelVars, callVars
<1>3. /\ status'[p] = "READY" /\ phase[p] = "user"
      /\ \A q \in Pids : /\ q # p => status'[q] = status[q]
                         /\ status'[q] = "FREE" <=> status[q] = "FREE"
                         /\ status'[q] = "SLEEP" => status[q] = "SLEEP"
                         /\ Waiting(q)' <=> Waiting(q)
  BY <1>1 DEF LifeOK, TypeOK, Flags, Waiting
<1>4. FreeOK' /\ Flags' /\ Links'
  BY <1>1, <1>3 DEF LifeOK, FreeOK, Flags, Links, controlVars, cancelVars, callVars
<1>5. Targets'
  BY <1>1, <1>3 DEF LifeOK, Targets, InJoin, controlVars, cancelVars, callVars
<1>6. JoinStep /\ ReuseStep
  BY <1>1, <1>3 DEF JoinStep, JoinSucceeds, ReuseStep, callVars
<1> QED BY <1>1, <1>2, <1>4, <1>5, <1>6 DEF Keeps, LifeOK

-----------------------------------------------------------------------------
(* The end of a task *)

\* What the end of x finds: it has a joiner exactly if one is blocked on it.
LEMMA JoinerIsBlocked ==
  ASSUME LifeOK, NEW x \in Pids, status[x] = "READY"
  PROVE  /\ \A y \in Joiner(x) : y \in Pids /\ Waiting(y) /\ y # x /\ target[y] = x
         /\ \A y \in Pids : Waiting(y) /\ target[y] = x => y \in Joiner(x) /\ joinable[x]
         /\ \A y \in Pids \ {x} : shadow[y] = x => y \in Joiner(x)
<1>1. \A y \in Joiner(x) : y \in Pids /\ Waiting(y) /\ y # x /\ target[y] = x
  BY DEF Joiner, LifeOK, Links, Waiting
<1>2. \A y \in Pids : Waiting(y) /\ target[y] = x => y \in Joiner(x) /\ joinable[x]
  <2>1. \A y \in Pids : Waiting(y) /\ target[y] = x => InJoin(y, x)
    BY DEF LifeOK, Links, InJoin
  <2>2. \A y \in Pids : Waiting(y) /\ target[y] = x => waiting_for_me[x] = y
    BY DEF LifeOK, Links
  <2>3. NIL \notin Pids
    BY TaskLifeAssumption DEF TaskLifeAssumption
  <2> QED BY <2>1, <2>2, <2>3 DEF LifeOK, Targets, Joiner
<1>3. \A y \in Pids \ {x} : shadow[y] = x => y \in Joiner(x)
  BY <1>2 DEF LifeOK, Links
<1> QED BY <1>1, <1>2, <1>3

LEMMA MakefreeKeeps ==
  ASSUME Discipline, LifeOK, NEW x \in Pids, status[x] = "READY",
         phase[x] = "cleanup" => ending[x] < MaxEndings, Makefree(x)
  PROVE  Keeps
<1> DEFINE w == Joiner(x)
           stat == [p \in Pids |-> IF p \in w THEN "READY" ELSE status[p]]
           shad == [p \in Pids |-> IF p \in w THEN p ELSE shadow[p]]
<1>1. /\ \A y \in w : y \in Pids /\ Waiting(y) /\ y # x /\ target[y] = x
      /\ \A y \in Pids : Waiting(y) /\ target[y] = x => y \in w /\ joinable[x]
      /\ \A y \in Pids \ {x} : shadow[y] = x => y \in w
  BY JoinerIsBlocked
<1>2. /\ wait_for_join' = [wait_for_join EXCEPT ![x] = @ \/ joinable[x]]
      /\ shadow' = shad
      /\ raised' = (\E p \in Pids \ {x} : shad[p] = x)
      /\ UNCHANGED <<waiting_for_me, joinable, discarded, cancelVars>>
  BY DEF Makefree
<1>3. \A p \in Pids \ {x} : shad[p] # x
  BY <1>1
<1>4. raised' = FALSE
  BY <1>2, <1>3
<1>5. CASE cleanup[x]
  <2>1. ~joinable[x]
    BY <1>5 DEF LifeOK, Flags
  <2>2. w = {}
    BY <2>1 DEF Joiner
  <2>3. stat = status /\ shad = shadow
    BY <2>2 DEF LifeOK, TypeOK
  <2>4. /\ status' = stat
        /\ phase' = [phase EXCEPT ![x] = "cleanup"]
        /\ ending' = [ending EXCEPT ![x] = @ + 1]
        /\ UNCHANGED <<freedesc, target>>
    BY <1>4, <1>5 DEF Makefree
  <2> HIDE DEF stat, shad, w
  <2>5. /\ status' = status /\ shadow' = shadow /\ wait_for_join' = wait_for_join
        /\ freedesc' = freedesc /\ target' = target /\ phase'[x] = "cleanup"
        /\ \A p \in Pids \ {x} : phase'[p] = phase[p] /\ ending'[p] = ending[p]
        /\ waiting_for_me' = waiting_for_me /\ joinable' = joinable
        /\ discarded' = discarded /\ killreq' = killreq /\ enabled' = enabled
        /\ cleanup' = cleanup
    <3>1. wait_for_join' = wait_for_join
      BY <1>2, <2>1 DEF LifeOK, TypeOK
    <3> QED BY <1>2, <2>3, <2>4, <3>1 DEF LifeOK, TypeOK, cancelVars
  <2>6. TypeOK'
    <3>1. ending[x] \in 0 .. 2 /\ ending[x] < 2
      <4>1. ending[x] \in 0 .. 2
        BY DEF LifeOK, TypeOK, MaxEndings
      <4> QED BY <4>1 DEF LifeOK, Flags, MaxEndings
    <3>2. ending[x] + 1 \in 0 .. 2
      BY <3>1
    <3>3. ending' \in [Pids -> 0 .. MaxEndings]
      BY <2>4, <3>2 DEF LifeOK, TypeOK, MaxEndings
    <3> QED BY <1>4, <2>4, <2>5, <3>3 DEF LifeOK, TypeOK
  <2>7. FreeOK' /\ Flags'
    BY <1>5, <2>5 DEF LifeOK, FreeOK, Flags
  <2>8. \A y \in Pids : Waiting(y) => y # x
    BY DEF Waiting
  <2>9. Links' /\ Targets'
    BY <2>5, <2>8 DEF LifeOK, Links, Targets, InJoin, Waiting
  <2>10. JoinStep /\ ReuseStep
    BY <2>5 DEF JoinStep, JoinSucceeds, ReuseStep
  <2> QED BY <1>4, <2>6, <2>7, <2>9, <2>10 DEF Keeps, LifeOK
<1>6. CASE ~cleanup[x]
  <2>1. /\ status' = [stat EXCEPT ![x] = "FREE"]
        /\ freedesc' = InsertLast(x, freedesc)
        /\ phase' = [phase EXCEPT ![x] = "user"]
        /\ target' = [target EXCEPT ![x] = NIL]
        /\ ending' = [ending EXCEPT ![x] = 0]
    BY <1>4, <1>6 DEF Makefree, Finish
  <2>2. /\ status'[x] = "FREE" /\ phase'[x] = "user" /\ ending'[x] = 0
        /\ wait_for_join'[x] = (wait_for_join[x] \/ joinable[x])
        /\ shadow'[x] = shadow[x]
        /\ \A p \in Pids \ {x} :
             /\ status'[p] = IF p \in w THEN "READY" ELSE status[p]
             /\ shadow'[p] = IF p \in w THEN p ELSE shadow[p]
             /\ wait_for_join'[p] = wait_for_join[p] /\ phase'[p] = phase[p]
             /\ target'[p] = target[p] /\ ending'[p] = ending[p]
    BY <1>1, <1>2, <2>1 DEF LifeOK, TypeOK
  <2>3. TypeOK'
    <3>1. freedesc' \in Seq(Pids)
      BY <2>1 DEF LifeOK, TypeOK, InsertLast
    <3>2. /\ status' \in [Pids -> {"FREE", "SLEEP", "READY", "WAIT_JOIN"}]
          /\ shadow' \in [Pids -> Pids]
      BY <1>2, <2>1 DEF LifeOK, TypeOK
    <3>3. /\ phase' \in [Pids -> {"user", "entry", "wait", "cleanup"}]
          /\ target' \in [Pids -> Pids \cup {NIL}]
          /\ ending' \in [Pids -> 0 .. MaxEndings]
          /\ wait_for_join' \in [Pids -> BOOLEAN]
      <4>1. 0 \in 0 .. MaxEndings
        BY DEF MaxEndings
      <4> QED BY <1>2, <2>1, <4>1 DEF LifeOK, TypeOK
    <3> QED BY <1>2, <1>4, <3>1, <3>2, <3>3 DEF LifeOK, TypeOK, cancelVars
  <2> HIDE DEF stat, shad, w
  <2>4. /\ waiting_for_me' = waiting_for_me /\ joinable' = joinable
        /\ discarded' = discarded /\ killreq' = killreq /\ enabled' = enabled
        /\ cleanup' = cleanup
    BY <1>2 DEF cancelVars
  <2>5. FreeOK'
    <3>1. x \notin Members(freedesc) /\ Distinct(freedesc) /\ freedesc \in Seq(Pids)
      BY DEF LifeOK, FreeOK, TypeOK
    <3>2. Distinct(freedesc') /\ Members(freedesc') = Members(freedesc) \cup {x}
      BY <2>1, <3>1, InsertLastProperties
    <3>3. ~discarded[x]
      BY DEF LifeOK, Flags
    <3>4. \A p \in Pids \ {x} : status'[p] = "FREE" <=> status[p] = "FREE"
      BY <1>1, <2>2 DEF Waiting
    <3> QED BY <2>2, <2>4, <3>1, <3>2, <3>3, <3>4 DEF LifeOK, FreeOK
  <2>6. Flags'
    <3>1. \A p \in Pids \ {x} : /\ status'[p] = "FREE" <=> status[p] = "FREE"
                                /\ status'[p] = "SLEEP" <=> status[p] = "SLEEP"
      BY <1>1, <2>2 DEF Waiting
    <3> QED BY <2>2, <2>4, <3>1 DEF LifeOK, Flags
  <2>7. \A y \in Pids : Waiting(y)' <=> Waiting(y) /\ y \notin w /\ y # x
    BY <1>1, <2>2 DEF Waiting
  <2>8. Links'
    <3> SUFFICES ASSUME NEW y \in Pids
                 PROVE  /\ shadow'[y] # y => Waiting(y)'
                        /\ Waiting(y)' => /\ phase'[y] = "wait"
                                          /\ status'[target'[y]] # "FREE"
                                          /\ waiting_for_me'[target'[y]] = y
                                          /\ shadow'[y] = target'[y]
                        /\ status'[y] # "FREE" /\ waiting_for_me'[y] # NIL =>
                             /\ waiting_for_me'[y] \in Pids /\ status'[waiting_for_me'[y]] = "WAIT_JOIN"
                             /\ target'[waiting_for_me'[y]] = y
      BY DEF Links, Waiting
    <3>1. shadow'[y] # y => Waiting(y)'
      <4>1. shadow[x] = x
        BY DEF LifeOK, Links, Waiting
      <4> QED BY <2>2, <2>7, <4>1 DEF LifeOK, Links
    <3>2. ASSUME Waiting(y)'
          PROVE  /\ phase'[y] = "wait" /\ status'[target'[y]] # "FREE"
                 /\ waiting_for_me'[target'[y]] = y /\ shadow'[y] = target'[y]
      <4>1. Waiting(y) /\ y \notin w /\ y # x
        BY <2>7, <3>2
      <4>2. target[y] # x /\ target[y] \in Pids
        BY <1>1, <4>1 DEF LifeOK, Links, Flags
      <4>3. status'[target[y]] # "FREE"
        BY <2>2, <4>1, <4>2 DEF LifeOK, Links
      <4> QED BY <2>2, <2>4, <4>1, <4>3 DEF LifeOK, Links
    <3>3. ASSUME status'[y] # "FREE", waiting_for_me'[y] # NIL
          PROVE  /\ waiting_for_me'[y] \in Pids /\ status'[waiting_for_me'[y]] = "WAIT_JOIN"
                 /\ target'[waiting_for_me'[y]] = y
      <4>1. y # x /\ status[y] # "FREE"
        BY <1>1, <2>2, <3>3 DEF Waiting
      <4>2. /\ waiting_for_me[y] \in Pids /\ Waiting(waiting_for_me[y])
            /\ target[waiting_for_me[y]] = y
        BY <2>4, <3>3, <4>1 DEF LifeOK, Links
      <4>3. waiting_for_me[y] \notin w /\ waiting_for_me[y] # x
        BY <1>1, <4>1, <4>2 DEF Waiting
      <4> QED BY <2>2, <2>4, <4>2, <4>3 DEF Waiting
    <3> QED BY <3>1, <3>2, <3>3
  <2>9. Targets'
    <3>1. \A y, p \in Pids : InJoin(y, p)' => y # x /\ InJoin(y, p)
      BY <2>2 DEF InJoin
    <3>2. ASSUME NEW y \in Pids, NEW p \in Pids, InJoin(y, p)'
          PROVE  joinable'[p] /\ (status'[p] # "FREE" \/ wait_for_join'[p])
      <4>1. joinable[p] /\ (status[p] # "FREE" \/ wait_for_join[p])
        BY <3>1, <3>2 DEF LifeOK, Targets
      <4>2. CASE p = x
        BY <2>2, <2>4, <4>1, <4>2
      <4>3. CASE p # x
        BY <2>2, <2>4, <4>1, <4>3
      <4> QED BY <4>2, <4>3
    <3>3. ASSUME NEW y \in Pids, phase'[y] = "wait", status'[y] = "READY", ~killreq'[y]
          PROVE  wait_for_join'[target'[y]]
      <4>1. y # x /\ phase[y] = "wait" /\ target'[y] = target[y] /\ target[y] \in Pids
        BY <2>2, <3>3 DEF LifeOK, Flags
      <4>2. CASE y \in w
        <5>1. target[y] = x /\ InJoin(y, x)
          BY <1>1, <4>1, <4>2 DEF InJoin
        <5>2. joinable[x]
          BY <5>1 DEF LifeOK, Targets
        <5> QED BY <2>2, <4>1, <5>1, <5>2
      <4>3. CASE y \notin w
        <5>1. wait_for_join[target[y]]
          BY <2>2, <2>4, <3>3, <4>1, <4>3 DEF LifeOK, Targets
        <5> QED BY <2>2, <4>1, <5>1
      <4> QED BY <4>2, <4>3
    <3>4. \A y, z, p \in Pids : InJoin(y, p)' /\ InJoin(z, p)' => y = z
      BY <3>1 DEF LifeOK, Targets
    <3> QED BY <3>2, <3>3, <3>4 DEF Targets
  <2>10. JoinStep
    BY <2>2 DEF JoinStep, JoinSucceeds
  <2>11. ReuseStep
    BY <1>1, <2>2 DEF ReuseStep
  <2> QED BY <1>4, <2>3, <2>5, <2>6, <2>8, <2>9, <2>10, <2>11 DEF Keeps, LifeOK
<1> QED BY <1>5, <1>6

LEMMA CleanupEndKeeps ==
  ASSUME Discipline, LifeOK, NEW x \in Pids, cleanup_end(x)
  PROVE  Keeps
<1>1. /\ status[x] = "READY" /\ phase[x] = "cleanup"
      /\ cleanup' = [cleanup EXCEPT ![x] = FALSE]
      /\ status' = [status EXCEPT ![x] = "FREE"]
      /\ freedesc' = InsertLast(x, freedesc)
      /\ phase' = [phase EXCEPT ![x] = "user"]
      /\ target' = [target EXCEPT ![x] = NIL]
      /\ ending' = [ending EXCEPT ![x] = 0]
      /\ UNCHANGED <<shadow, waiting_for_me, controlVars, killreq, enabled, raised>>
  BY DEF cleanup_end, Finish, Running
<1>2. ~joinable[x] /\ ~discarded[x] /\ shadow[x] = x
  BY <1>1 DEF LifeOK, Flags, Links, Waiting
<1>3. /\ x \notin Members(freedesc) /\ Distinct(freedesc) /\ freedesc \in Seq(Pids)
  BY <1>1 DEF LifeOK, FreeOK, TypeOK
<1>4. /\ freedesc' \in Seq(Pids) /\ Distinct(freedesc')
      /\ Members(freedesc') = Members(freedesc) \cup {x}
  BY <1>1, <1>3, InsertLastProperties
<1>5. TypeOK'
  <2>1. 0 \in 0 .. MaxEndings
    BY DEF MaxEndings
  <2> QED BY <1>1, <1>4, <2>1 DEF LifeOK, TypeOK, controlVars
<1>6. /\ ~cleanup'[x] /\ status'[x] = "FREE" /\ phase'[x] = "user" /\ ending'[x] = 0
      /\ \A p \in Pids \ {x} :
           /\ cleanup'[p] = cleanup[p] /\ status'[p] = status[p] /\ phase'[p] = phase[p]
           /\ target'[p] = target[p] /\ ending'[p] = ending[p]
      /\ shadow' = shadow /\ waiting_for_me' = waiting_for_me /\ joinable' = joinable
      /\ wait_for_join' = wait_for_join /\ discarded' = discarded
      /\ killreq' = killreq /\ enabled' = enabled /\ raised' = raised
  BY <1>1 DEF LifeOK, TypeOK, controlVars
<1>7. FreeOK'
  BY <1>2, <1>4, <1>6 DEF LifeOK, FreeOK
<1>8. Flags'
  BY <1>6 DEF LifeOK, Flags
<1>9. \A y \in Pids : ~InJoin(y, x) /\ (Waiting(y) => y # x /\ target[y] \in Pids \ {x})
  <2>1. \A y \in Pids : ~InJoin(y, x)
    BY <1>2 DEF LifeOK, Targets
  <2> QED BY <1>1, <2>1 DEF LifeOK, Links, Flags, InJoin, Waiting
<1>10. Links'
  <2>1. \A y \in Pids : Waiting(y)' <=> Waiting(y)
    BY <1>1, <1>6 DEF Waiting
  <2> QED BY <1>1, <1>2, <1>6, <1>9, <2>1 DEF LifeOK, Links
<1>11. Targets'
  <2>1. \A y, p \in Pids : InJoin(y, p)' => y # x /\ p # x /\ InJoin(y, p)
    BY <1>6, <1>9 DEF InJoin
  <2>2. ASSUME NEW y \in Pids, phase'[y] = "wait", status'[y] = "READY", ~killreq'[y]
        PROVE  wait_for_join'[target'[y]]
    BY <1>6, <2>2 DEF LifeOK, Targets
  <2> QED BY <1>6, <2>1, <2>2 DEF LifeOK, Targets
<1>12. JoinStep /\ ReuseStep
  BY <1>1, <1>6 DEF JoinStep, JoinSucceeds, ReuseStep
<1> QED BY <1>5, <1>6, <1>7, <1>8, <1>10, <1>11, <1>12 DEF Keeps, LifeOK

\* task_cleanup_push and _pop, task_setcancelstate, task_joinable and
\* task_unjoinable: one flag of one task.
LEMMA FlagKeeps ==
  ASSUME Discipline, LifeOK, NEW x \in Pids, NEW p \in Pids,
         \/ \E b \in BOOLEAN : task_cleanup(x, b)
         \/ \E state \in CancelStates : task_setcancelstate(x, state)
         \/ task_joinable(x, p)
         \/ task_unjoinable(x, p)
  PROVE  Keeps
<1> DEFINE Others ==
             /\ freedesc' = freedesc /\ status' = status /\ shadow' = shadow
             /\ waiting_for_me' = waiting_for_me /\ wait_for_join' = wait_for_join
             /\ discarded' = discarded /\ killreq' = killreq /\ phase' = phase
             /\ target' = target /\ ending' = ending /\ raised' = raised
           Enabled == enabled' = enabled \/ enabled' = [enabled EXCEPT ![x] = TRUE]
           Handler ==
             /\ joinable' = joinable /\ status[x] = "READY" /\ phase[x] = "user"
             /\ \E b \in BOOLEAN : /\ b => ~joinable[x]
                                   /\ cleanup' = [cleanup EXCEPT ![x] = b]
           Joinable ==
             /\ cleanup' = cleanup /\ joinable' = [joinable EXCEPT ![p] = TRUE]
             /\ ~cleanup[p] \/ joinable[p]
           Flag == \/ cleanup' = cleanup /\ joinable' = joinable
                   \/ Handler \/ Joinable
<1>0. Others /\ Enabled /\ Flag
  <2>1. CASE \E b \in BOOLEAN : task_cleanup(x, b)
    <3>1. PICK b \in BOOLEAN : task_cleanup(x, b)
      BY <2>1
    <3>2. Others /\ enabled' = enabled
      BY <3>1 DEF task_cleanup, controlVars, callVars
    <3>3. Handler
      BY <3>1 DEF task_cleanup, controlVars, Discipline, Running
    <3> QED BY <3>2, <3>3
  <2>2. CASE \E state \in CancelStates : task_setcancelstate(x, state)
    <3>1. PICK state \in CancelStates : task_setcancelstate(x, state)
      BY <2>2
    <3>2. state = TRUE
      BY DEF Discipline
    <3> QED BY <3>1, <3>2 DEF task_setcancelstate, controlVars, callVars
  <2>3. CASE task_joinable(x, p)
    BY <2>3 DEF task_joinable, cancelVars, callVars, Discipline
  <2>4. CASE task_unjoinable(x, p)
    BY <2>4 DEF task_unjoinable, cancelVars, callVars
  <2> QED BY <2>1, <2>2, <2>3, <2>4
<1>1. Others
  BY <1>0
<1>2. Enabled /\ Flag
  BY <1>0
<1>3. TypeOK'
  <2>1. enabled' \in [Pids -> BOOLEAN]
    BY <1>2 DEF LifeOK, TypeOK
  <2>2. cleanup' \in [Pids -> BOOLEAN]
    BY <1>2 DEF LifeOK, TypeOK
  <2>3. joinable' \in [Pids -> BOOLEAN]
    BY <1>2 DEF LifeOK, TypeOK
  <2> QED BY <1>1, <2>1, <2>2, <2>3 DEF LifeOK, TypeOK
<1>4. \A q \in Pids : /\ enabled[q] => enabled'[q]
                      /\ joinable[q] => joinable'[q]
                      /\ (joinable[q] => ~cleanup[q]) => (joinable'[q] => ~cleanup'[q])
                      /\ phase[q] = "cleanup" => (cleanup'[q] <=> cleanup[q])
  <2> SUFFICES ASSUME NEW q \in Pids
               PROVE  /\ enabled[q] => enabled'[q]
                      /\ joinable[q] => joinable'[q]
                      /\ (joinable[q] => ~cleanup[q]) => (joinable'[q] => ~cleanup'[q])
                      /\ phase[q] = "cleanup" => (cleanup'[q] <=> cleanup[q])
    OBVIOUS
  <2>1. enabled[q] => enabled'[q]
    BY <1>2 DEF LifeOK, TypeOK
  <2>2. joinable[q] => joinable'[q]
    BY <1>2 DEF LifeOK, TypeOK
  <2>3. (joinable[q] => ~cleanup[q]) => (joinable'[q] => ~cleanup'[q])
    BY <1>2 DEF LifeOK, TypeOK
  <2>4. phase[q] = "cleanup" => (cleanup'[q] <=> cleanup[q])
    BY <1>2 DEF LifeOK, TypeOK
  <2> QED BY <2>1, <2>2, <2>3, <2>4
<1>5. FreeOK' /\ Flags' /\ Links'
  <2>1. Flags'
    BY <1>1, <1>4 DEF LifeOK, Flags
  <2>2. FreeOK' /\ Links'
    BY <1>1 DEF LifeOK, FreeOK, Links, Waiting
  <2> QED BY <2>1, <2>2
<1>6. Targets'
  BY <1>1, <1>4 DEF LifeOK, Targets, InJoin
<1>7. JoinStep /\ ReuseStep
  BY <1>1 DEF JoinStep, JoinSucceeds, ReuseStep
<1> QED BY <1>1, <1>3, <1>5, <1>6, <1>7 DEF Keeps, LifeOK

LEMMA KillKeeps ==
  ASSUME Discipline, LifeOK, NEW k \in Pids, NEW i \in Pids, task_kill(k, i)
  PROVE  Keeps
<1>1. /\ killreq' = [killreq EXCEPT ![i] = TRUE]
      /\ UNCHANGED <<controlVars, enabled, cleanup, freedesc, callVars, ending, raised>>
  BY DEF task_kill
<1>2. /\ joinable' = joinable /\ wait_for_join' = wait_for_join /\ discarded' = discarded
      /\ enabled' = enabled /\ cleanup' = cleanup /\ freedesc' = freedesc
      /\ phase' = phase /\ target' = target /\ ending' = ending /\ raised' = raised
      /\ killreq'[i] /\ \A q \in Pids : killreq[q] => killreq'[q]
  BY <1>1 DEF controlVars, callVars, LifeOK, TypeOK
<1>3. CASE ~Waiting(i)
  <2>1. waiting_for_me' = waiting_for_me /\ shadow' = shadow /\ status' = status
    BY <1>3 DEF task_kill, Waiting
  <2>2. TypeOK'
    BY <1>1, <1>2, <2>1 DEF LifeOK, TypeOK
  <2>3. FreeOK' /\ Flags' /\ Links'
    BY <1>2, <2>1 DEF LifeOK, FreeOK, Flags, Links, Waiting
  <2>4. Targets'
    BY <1>2, <2>1 DEF LifeOK, Targets, InJoin
  <2>5. JoinStep /\ ReuseStep
    BY <1>2, <2>1 DEF JoinStep, JoinSucceeds, ReuseStep
  <2> QED BY <1>2, <2>2, <2>3, <2>4, <2>5 DEF Keeps, LifeOK
<1>4. CASE Waiting(i)
  <2>1. shadow[i] = target[i] /\ target[i] \in Pids /\ waiting_for_me[target[i]] = i
    BY <1>4 DEF LifeOK, Links, Flags
  <2>2. /\ waiting_for_me' = [waiting_for_me EXCEPT ![target[i]] = NIL]
        /\ shadow' = [shadow EXCEPT ![i] = i]
        /\ status' = [status EXCEPT ![i] = "READY"]
    BY <1>4, <2>1 DEF task_kill, Waiting
  <2>3. TypeOK'
    BY <1>1, <1>2, <2>1, <2>2 DEF LifeOK, TypeOK
  <2>4. /\ waiting_for_me'[target[i]] = NIL /\ shadow'[i] = i /\ status'[i] = "READY"
        /\ \A q \in Pids : /\ q # target[i] => waiting_for_me'[q] = waiting_for_me[q]
                           /\ q # i => shadow'[q] = shadow[q] /\ status'[q] = status[q]
                           /\ status'[q] = "FREE" <=> status[q] = "FREE"
                           /\ status'[q] = "SLEEP" <=> status[q] = "SLEEP"
                           /\ Waiting(q)' <=> Waiting(q) /\ q # i
    BY <1>4, <2>1, <2>2 DEF LifeOK, TypeOK, Waiting
  <2>5. FreeOK' /\ Flags'
    BY <1>2, <2>4 DEF LifeOK, FreeOK, Flags
  <2>6. \A y \in Pids : Waiting(y) => target[y] \in Pids
    BY DEF LifeOK, Links, Flags
  <2>7. \A y \in Pids : Waiting(y) /\ y # i => target[y] # target[i]
    BY <2>1, <2>6 DEF LifeOK, Links
  <2>8. Links'
    <3> SUFFICES ASSUME NEW y \in Pids
                 PROVE  /\ shadow'[y] # y => Waiting(y)'
                        /\ Waiting(y)' => /\ phase'[y] = "wait"
                                          /\ status'[target'[y]] # "FREE"
                                          /\ waiting_for_me'[target'[y]] = y
                                          /\ shadow'[y] = target'[y]
                        /\ status'[y] # "FREE" /\ waiting_for_me'[y] # NIL =>
                             /\ waiting_for_me'[y] \in Pids
                             /\ status'[waiting_for_me'[y]] = "WAIT_JOIN"
                             /\ target'[waiting_for_me'[y]] = y
      BY DEF Links, Waiting
    <3>1. shadow'[y] # y => Waiting(y)'
      BY <2>4 DEF LifeOK, Links
    <3>2. Waiting(y)' => /\ phase'[y] = "wait"
                         /\ status'[target'[y]] # "FREE"
                         /\ waiting_for_me'[target'[y]] = y
                         /\ shadow'[y] = target'[y]
      BY <1>2, <2>4, <2>6, <2>7 DEF LifeOK, Links
    <3>3. ASSUME status'[y] # "FREE", waiting_for_me'[y] # NIL
          PROVE  /\ waiting_for_me'[y] \in Pids
                 /\ status'[waiting_for_me'[y]] = "WAIT_JOIN"
                 /\ target'[waiting_for_me'[y]] = y
      <4>1. y # target[i] /\ waiting_for_me'[y] = waiting_for_me[y] /\ status[y] # "FREE"
        BY <2>4, <3>3
      <4>2. /\ waiting_for_me[y] \in Pids /\ Waiting(waiting_for_me[y])
            /\ target[waiting_for_me[y]] = y
        BY <3>3, <4>1 DEF LifeOK, Links
      <4> QED BY <1>2, <2>4, <4>1, <4>2 DEF Waiting
    <3> QED BY <3>1, <3>2, <3>3
  <2>9. Targets'
    BY <1>2, <2>4 DEF LifeOK, Targets, InJoin
  <2>10. JoinStep /\ ReuseStep
    BY <1>2, <2>4 DEF JoinStep, JoinSucceeds, ReuseStep
  <2> QED BY <1>2, <2>3, <2>5, <2>8, <2>9, <2>10 DEF Keeps, LifeOK
<1> QED BY <1>3, <1>4

-----------------------------------------------------------------------------
(* Join *)

\* task_join reaches the point where interrupts are disabled.
LEMMA EntryKeeps ==
  ASSUME Discipline, LifeOK, NEW x \in Pids, NEW p \in Pids, Running(x, "user"),
         \A y \in Pids : ~InJoin(y, p), status[p] # "FREE" \/ wait_for_join[p],
         joinable[p],
         phase' = [phase EXCEPT ![x] = "entry"], target' = [target EXCEPT ![x] = p],
         UNCHANGED <<status, shadow, waiting_for_me, controlVars, cancelVars,
                     freedesc, ending, raised>>
  PROVE  Keeps
<1>1. /\ status' = status /\ shadow' = shadow /\ waiting_for_me' = waiting_for_me
      /\ joinable' = joinable /\ wait_for_join' = wait_for_join /\ discarded' = discarded
      /\ killreq' = killreq /\ enabled' = enabled /\ cleanup' = cleanup
      /\ freedesc' = freedesc /\ ending' = ending /\ raised' = raised
  BY DEF controlVars, cancelVars
<1>2. /\ status[x] = "READY" /\ phase[x] = "user"
      /\ phase'[x] = "entry" /\ target'[x] = p
      /\ \A y \in Pids \ {x} : phase'[y] = phase[y] /\ target'[y] = target[y]
  BY DEF Running, LifeOK, TypeOK
<1>3. TypeOK'
  BY <1>1 DEF LifeOK, TypeOK
<1>4. FreeOK'
  BY <1>1 DEF LifeOK, FreeOK
<1>5. Flags'
  BY <1>1, <1>2 DEF LifeOK, Flags
<1>6. \A y \in Pids : Waiting(y) => y # x
  BY <1>2 DEF Waiting
<1>7. Links'
  BY <1>1, <1>2, <1>6 DEF LifeOK, Links, Waiting
<1>8. Targets'
  <2>1. \A y, q \in Pids : InJoin(y, q)' => (y # x /\ InJoin(y, q)) \/ (y = x /\ q = p)
    BY <1>2 DEF InJoin
  <2>2. \A y, q \in Pids : InJoin(y, q)' =>
          joinable'[q] /\ (status'[q] # "FREE" \/ wait_for_join'[q])
    BY <1>1, <2>1 DEF LifeOK, Targets
  <2>3. \A y, z, q \in Pids : InJoin(y, q)' /\ InJoin(z, q)' => y = z
    BY <2>1 DEF LifeOK, Targets
  <2>4. ASSUME NEW y \in Pids, phase'[y] = "wait", status'[y] = "READY", ~killreq'[y]
        PROVE  wait_for_join'[target'[y]]
    BY <1>1, <1>2, <2>4 DEF LifeOK, Targets
  <2> QED BY <2>2, <2>3, <2>4 DEF Targets
<1>9. JoinStep /\ ReuseStep
  BY <1>1, <1>2 DEF JoinStep, JoinSucceeds, ReuseStep
<1> QED BY <1>1, <1>3, <1>4, <1>5, <1>7, <1>8, <1>9 DEF Keeps, LifeOK

\* task_join refuses the call.
LEMMA RefuseKeeps ==
  ASSUME Discipline, LifeOK, NEW x \in Pids, Running(x, "entry"),
         waiting_for_me[target[x]] # NIL \/ x \in ShadowChain(target[x]), LeaveJoin(x),
         UNCHANGED <<status, shadow, waiting_for_me, controlVars, cancelVars,
                     freedesc, ending, raised>>
  PROVE  Keeps
<1>1. /\ status' = status /\ shadow' = shadow /\ waiting_for_me' = waiting_for_me
      /\ joinable' = joinable /\ wait_for_join' = wait_for_join /\ discarded' = discarded
      /\ killreq' = killreq /\ enabled' = enabled /\ cleanup' = cleanup
      /\ freedesc' = freedesc /\ ending' = ending /\ raised' = raised
  BY DEF controlVars, cancelVars
<1>2. /\ status[x] = "READY" /\ phase[x] = "entry"
      /\ phase'[x] = "user" /\ target'[x] = NIL
      /\ \A y \in Pids \ {x} : phase'[y] = phase[y] /\ target'[y] = target[y]
  BY DEF Running, LeaveJoin, LifeOK, TypeOK
<1>3. TypeOK'
  BY <1>1 DEF LeaveJoin, LifeOK, TypeOK
<1>4. FreeOK'
  BY <1>1 DEF LifeOK, FreeOK
<1>5. Flags'
  BY <1>1, <1>2 DEF LifeOK, Flags
<1>6. \A y \in Pids : Waiting(y) => y # x
  BY <1>2 DEF Waiting
<1>7. Links'
  BY <1>1, <1>2, <1>6 DEF LifeOK, Links, Waiting
<1>8. Targets'
  <2>1. \A y, q \in Pids : InJoin(y, q)' => y # x /\ InJoin(y, q)
    BY <1>2 DEF InJoin
  <2>2. ASSUME NEW y \in Pids, phase'[y] = "wait", status'[y] = "READY", ~killreq'[y]
        PROVE  wait_for_join'[target'[y]]
    BY <1>1, <1>2, <2>2 DEF LifeOK, Targets
  <2> QED BY <1>1, <2>1, <2>2 DEF LifeOK, Targets
<1>9. JoinStep
  <2>1. \A y \in Pids \ {x} : ~JoinSucceeds(y)
    BY <1>2 DEF JoinSucceeds
  <2>2. ~JoinSucceeds(x)
    BY <1>2 DEF JoinSucceeds
  <2> QED BY <2>1, <2>2 DEF JoinStep
<1>10. ReuseStep
  BY <1>1 DEF ReuseStep
<1> QED BY <1>1, <1>3, <1>4, <1>5, <1>7, <1>8, <1>9, <1>10 DEF Keeps, LifeOK

\* task_join blocks.
LEMMA BlockKeeps ==
  ASSUME Discipline, LifeOK, NEW x \in Pids, Running(x, "entry"),
         waiting_for_me[target[x]] = NIL, ~wait_for_join[target[x]],
         BlockOn(x, target[x]),
         status' = [status EXCEPT ![x] = "WAIT_JOIN"],
         phase' = [phase EXCEPT ![x] = "wait"],
         UNCHANGED <<target, controlVars, cancelVars, freedesc, ending, raised>>
  PROVE  Keeps
<1> DEFINE p == target[x]
<1>1. /\ target' = target
      /\ joinable' = joinable /\ wait_for_join' = wait_for_join /\ discarded' = discarded
      /\ killreq' = killreq /\ enabled' = enabled /\ cleanup' = cleanup
      /\ freedesc' = freedesc /\ ending' = ending /\ raised' = raised
  BY DEF controlVars, cancelVars
<1>2. /\ status[x] = "READY" /\ phase[x] = "entry" /\ p \in Pids /\ NIL \notin Pids
  BY TaskLifeAssumption DEF Running, LifeOK, Flags, TaskLifeAssumption
<1>3. status[p] # "FREE"
  BY <1>2 DEF LifeOK, Targets, InJoin
<1>4. /\ waiting_for_me' = [waiting_for_me EXCEPT ![p] = x]
      /\ shadow' = [shadow EXCEPT ![x] = p]
  BY DEF BlockOn
<1> HIDE DEF p
<1>5. /\ status'[x] = "WAIT_JOIN" /\ phase'[x] = "wait" /\ shadow'[x] = p
      /\ waiting_for_me'[p] = x
      /\ \A q \in Pids : q # p => waiting_for_me'[q] = waiting_for_me[q]
      /\ \A q \in Pids : q # x => /\ status'[q] = status[q] /\ phase'[q] = phase[q]
                                  /\ shadow'[q] = shadow[q]
  BY <1>2, <1>4 DEF LifeOK, TypeOK
<1>6. TypeOK'
  BY <1>1, <1>2, <1>4 DEF LifeOK, TypeOK
<1>7. FreeOK'
  BY <1>1, <1>2, <1>5 DEF LifeOK, FreeOK
<1>8. Flags'
  BY <1>1, <1>2, <1>5 DEF LifeOK, Flags, p
<1>9. \A y \in Pids : /\ Waiting(y) => y # x
                      /\ Waiting(y)' <=> Waiting(y) \/ y = x
                      /\ Waiting(y) => target[y] \in Pids /\ target[y] # p
  <2>1. \A y \in Pids : Waiting(y) => target[y] \in Pids /\ waiting_for_me[target[y]] = y
    BY DEF LifeOK, Links, Flags
  <2>2. \A y \in Pids : Waiting(y) => y # x
    BY <1>2 DEF Waiting
  <2>3. \A y \in Pids : Waiting(y)' <=> Waiting(y) \/ y = x
    BY <1>5 DEF Waiting
  <2>4. \A y \in Pids : Waiting(y) => target[y] # p
    BY <1>2, <2>1 DEF p
  <2> QED BY <2>1, <2>2, <2>3, <2>4
<1>10. Links'
  <2> SUFFICES ASSUME NEW y \in Pids
               PROVE  /\ shadow'[y] # y => Waiting(y)'
                      /\ Waiting(y)' => /\ phase'[y] = "wait"
                                        /\ status'[target'[y]] # "FREE"
                                        /\ waiting_for_me'[target'[y]] = y
                                        /\ shadow'[y] = target'[y]
                      /\ status'[y] # "FREE" /\ waiting_for_me'[y] # NIL =>
                           /\ waiting_for_me'[y] \in Pids
                           /\ status'[waiting_for_me'[y]] = "WAIT_JOIN"
                           /\ target'[waiting_for_me'[y]] = y
    BY DEF Links, Waiting
  <2>1. shadow'[y] # y => Waiting(y)'
    BY <1>5, <1>9 DEF LifeOK, Links
  <2>2. \A q \in Pids : status[q] # "FREE" => status'[q] # "FREE"
    BY <1>5
  <2>3. ASSUME Waiting(y)'
        PROVE  /\ phase'[y] = "wait" /\ status'[target'[y]] # "FREE"
               /\ waiting_for_me'[target'[y]] = y /\ shadow'[y] = target'[y]
    <3>1. CASE y = x
      <4>1. target'[y] = p
        BY <1>1, <3>1 DEF p
      <4> QED BY <1>2, <1>3, <1>5, <2>2, <3>1, <4>1
    <3>2. CASE y # x
      <4>1. Waiting(y) /\ target[y] \in Pids /\ target[y] # p
        BY <1>9, <2>3, <3>2
      <4> QED BY <1>1, <1>5, <2>2, <3>2, <4>1 DEF LifeOK, Links
    <3> QED BY <3>1, <3>2
  <2>4. ASSUME status'[y] # "FREE", waiting_for_me'[y] # NIL
        PROVE  /\ waiting_for_me'[y] \in Pids
               /\ status'[waiting_for_me'[y]] = "WAIT_JOIN"
               /\ target'[waiting_for_me'[y]] = y
    <3>1. CASE y = p
      BY <1>1, <1>5, <3>1 DEF p
    <3>2. CASE y # p
      <4>1. waiting_for_me'[y] = waiting_for_me[y] /\ status[y] # "FREE"
        BY <1>2, <1>5, <2>4, <3>2
      <4>2. /\ waiting_for_me[y] \in Pids /\ Waiting(waiting_for_me[y])
            /\ target[waiting_for_me[y]] = y
        BY <2>4, <4>1 DEF LifeOK, Links
      <4> QED BY <1>1, <1>5, <1>9, <4>1, <4>2 DEF Waiting
    <3> QED BY <3>1, <3>2
  <2> QED BY <2>1, <2>3, <2>4
<1>11. Targets'
  <2>1. \A y, q \in Pids : InJoin(y, q)' => InJoin(y, q)
    BY <1>1, <1>2, <1>5 DEF InJoin
  <2>2. \A q \in Pids : status'[q] = "FREE" => status[q] = "FREE"
    BY <1>5
  <2>3. ASSUME NEW y \in Pids, phase'[y] = "wait", status'[y] = "READY", ~killreq'[y]
        PROVE  wait_for_join'[target'[y]]
    BY <1>1, <1>5, <2>3 DEF LifeOK, Targets
  <2> QED BY <1>1, <2>1, <2>2, <2>3 DEF LifeOK, Targets
<1>12. JoinStep
  BY <1>5 DEF JoinStep, JoinSucceeds
<1>13. ReuseStep
  BY <1>5 DEF ReuseStep
<1> QED BY <1>1, <1>6, <1>7, <1>8, <1>10, <1>11, <1>12, <1>13 DEF Keeps, LifeOK

\* task_join collects the result of the ended target.
LEMMA ReapKeeps ==
  ASSUME Discipline, LifeOK, NEW x \in Pids, status[x] = "READY",
         phase[x] \in {"entry", "wait"}, wait_for_join[target[x]], Reap(x, target[x])
  PROVE  Keeps
<1> DEFINE p == target[x]
<1>1. /\ wait_for_join' = [wait_for_join EXCEPT ![p] = FALSE]
      /\ freedesc' = IF discarded[p] THEN InsertFirst(p, freedesc) ELSE freedesc
      /\ phase' = [phase EXCEPT ![x] = "user"]
      /\ target' = [target EXCEPT ![x] = NIL]
      /\ status' = status /\ shadow' = shadow /\ waiting_for_me' = waiting_for_me
      /\ joinable' = joinable /\ discarded' = discarded
      /\ killreq' = killreq /\ enabled' = enabled /\ cleanup' = cleanup
      /\ ending' = ending /\ raised' = raised
  BY DEF Reap, LeaveJoin, cancelVars
<1>2. p \in Pids /\ wait_for_join[p] /\ InJoin(x, p)
  BY DEF LifeOK, Flags, InJoin
<1>3. status[p] = "FREE"
  BY <1>2 DEF LifeOK, Flags
<1> HIDE DEF p
<1>4. /\ ~wait_for_join'[p] /\ phase'[x] = "user" /\ target'[x] = NIL
      /\ \A q \in Pids : q # p => wait_for_join'[q] = wait_for_join[q]
      /\ \A q \in Pids : q # x => phase'[q] = phase[q] /\ target'[q] = target[q]
  BY <1>1, <1>2 DEF LifeOK, TypeOK
<1>5. /\ freedesc \in Seq(Pids) /\ Distinct(freedesc)
      /\ p \in Members(freedesc) <=> ~discarded[p]
  BY <1>2, <1>3 DEF LifeOK, TypeOK, FreeOK
<1>6. /\ freedesc' \in Seq(Pids) /\ Distinct(freedesc')
      /\ Members(freedesc') = Members(freedesc) \cup {p}
  <2>1. CASE discarded[p]
    BY <1>1, <1>2, <1>5, <2>1, InsertFirstProperties
  <2>2. CASE ~discarded[p]
    BY <1>1, <1>5, <2>2
  <2> QED BY <2>1, <2>2
<1>7. TypeOK'
  BY <1>1, <1>6 DEF LifeOK, TypeOK
<1>8. FreeOK'
  BY <1>1, <1>3, <1>4, <1>6 DEF LifeOK, FreeOK
<1>9. Flags'
  BY <1>1, <1>3, <1>4 DEF LifeOK, Flags
<1>10. \A y \in Pids : Waiting(y) => y # x
  BY DEF Waiting
<1>11. Links'
  BY <1>1, <1>4, <1>10 DEF LifeOK, Links, Waiting
<1>12. Targets'
  <2>1. \A y, q \in Pids : InJoin(y, q)' => y # x /\ InJoin(y, q)
    BY <1>4 DEF InJoin
  <2>2. \A y \in Pids \ {x} : ~InJoin(y, p)
    BY <1>2 DEF LifeOK, Targets
  <2>3. \A y, q \in Pids : InJoin(y, q)' =>
          joinable'[q] /\ (status'[q] # "FREE" \/ wait_for_join'[q])
    BY <1>1, <1>4, <2>1, <2>2 DEF LifeOK, Targets
  <2>4. \A y, z, q \in Pids : InJoin(y, q)' /\ InJoin(z, q)' => y = z
    BY <2>1 DEF LifeOK, Targets
  <2>5. ASSUME NEW y \in Pids, phase'[y] = "wait", status'[y] = "READY", ~killreq'[y]
        PROVE  wait_for_join'[target'[y]]
    <3>1. y # x /\ phase[y] = "wait" /\ target'[y] = target[y] /\ target[y] \in Pids
      BY <1>4, <2>5 DEF LifeOK, Flags
    <3>2. wait_for_join[target[y]]
      BY <1>1, <2>5, <3>1 DEF LifeOK, Targets
    <3>3. target[y] # p
      BY <2>2, <3>1 DEF InJoin
    <3> QED BY <1>4, <3>1, <3>2, <3>3
  <2> QED BY <2>3, <2>4, <2>5 DEF Targets
<1>13. JoinStep
  <2>1. \A y \in Pids \ {x} : ~JoinSucceeds(y)
    BY <1>4 DEF JoinSucceeds
  <2> QED BY <1>2, <1>3, <2>1 DEF JoinStep, p
<1>14. ReuseStep
  BY <1>1 DEF ReuseStep
<1> QED BY <1>1, <1>7, <1>8, <1>9, <1>11, <1>12, <1>13, <1>14 DEF Keeps, LifeOK

-----------------------------------------------------------------------------
(* The theorems *)

LEMMA LifeInit == Init => LifeOK
<1> SUFFICES ASSUME Init PROVE LifeOK
  OBVIOUS
<1>1. PICK main \in Pids, q \in [1 .. Cardinality(Pids) - 1 -> Pids] :
        /\ Distinct(q) /\ Members(q) = Pids \ {main} /\ freedesc = q
        /\ status = [p \in Pids |-> IF p = main THEN "READY" ELSE "FREE"]
  BY DEF Init
<1>2. /\ shadow = [p \in Pids |-> p] /\ waiting_for_me = [p \in Pids |-> NIL]
      /\ joinable = [p \in Pids |-> FALSE] /\ wait_for_join = [p \in Pids |-> FALSE]
      /\ discarded = [p \in Pids |-> FALSE] /\ killreq = [p \in Pids |-> FALSE]
      /\ enabled = [p \in Pids |-> TRUE] /\ cleanup = [p \in Pids |-> FALSE]
      /\ phase = [p \in Pids |-> "user"] /\ target = [p \in Pids |-> NIL]
      /\ ending = [p \in Pids |-> 0] /\ raised = FALSE
  BY DEF Init
<1>3. freedesc \in Seq(Pids)
  <2>1. freedesc \in [DOMAIN freedesc -> Pids]
    BY <1>1
  <2>2. \E n \in Nat : DOMAIN freedesc = 1 .. n
    <3>1. IsFiniteSet(Pids)
      BY TaskLifeAssumption DEF TaskLifeAssumption
    <3>2. Cardinality(Pids) \in Nat /\ Cardinality(Pids) # 0
      BY <3>1, FS_CardinalityType, FS_EmptySet
    <3> QED BY <1>1, <3>2
  <2> QED BY <2>1, <2>2
<1>4. TypeOK
  <2>1. 0 \in 0 .. MaxEndings
    BY DEF MaxEndings
  <2> QED BY <1>1, <1>2, <1>3, <2>1 DEF TypeOK
<1>5. FreeOK
  BY <1>1, <1>2 DEF FreeOK
<1>6. Flags /\ Links /\ Targets
  BY <1>1, <1>2 DEF Flags, Links, Targets, Waiting, InJoin
<1> QED BY <1>2, <1>4, <1>5, <1>6 DEF LifeOK

LEMMA LifeNext ==
  ASSUME Discipline, LifeOK, Next
  PROVE  Keeps
<1>1. PICK x \in Pids : TaskStep(x)
  BY DEF Next
<1>2. ASSUME NEW j \in BOOLEAN, task_createn(x, j) \/ task_createn_rejected(x, j)
      PROVE  Keeps
  <2>1. PICK k \in DOMAIN freedesc :
          /\ Available(k) /\ Discard(k, {freedesc[k]}) /\ Fill(freedesc[k], j)
          /\ \/ /\ status' = [status EXCEPT ![freedesc[k]] = "SLEEP"]
                /\ freedesc' = DropFirst(k, freedesc)
             \/ /\ freedesc' = InsertFirst(freedesc[k], DropFirst(k, freedesc))
                /\ UNCHANGED status
    BY <1>2 DEF task_createn, task_createn_rejected
  <2> QED BY <2>1, CreateKeeps
<1>3. ASSUME task_createn_none(x) PROVE Keeps
  BY <1>3, NoneKeeps
<1>4. ASSUME NEW p \in Pids, task_activate(x, p) PROVE Keeps
  BY <1>4, ActivateKeeps
<1>5. ASSUME NEW p \in Pids, task_kill(x, p) PROVE Keeps
  BY <1>5, KillKeeps
<1>6. ASSUME NEW p \in Pids, task_joinable(x, p) \/ task_unjoinable(x, p) PROVE Keeps
  BY <1>6, FlagKeeps
<1>7. ASSUME \/ \E b \in BOOLEAN : task_cleanup(x, b)
             \/ \E state \in CancelStates : task_setcancelstate(x, state)
      PROVE  Keeps
  BY <1>7, FlagKeeps
<1>8. ASSUME NEW p \in Pids, task_join(x, p) PROVE Keeps
  <2>1. Running(x, "user") /\ \A y \in Pids : ~InJoin(y, p)
    BY <1>8 DEF task_join, Discipline
  <2>2. CASE Cancelled(x)
    BY <1>8, <2>1, <2>2, MakefreeKeeps DEF task_join, Running
  <2>3. CASE ~Cancelled(x)
    BY <1>8, <2>1, <2>3, EntryKeeps DEF task_join
  <2> QED BY <2>2, <2>3
<1>9. ASSUME task_join_body(x) PROVE Keeps
  <2>1. Running(x, "entry")
    BY <1>9 DEF task_join_body
  <2>2. CASE waiting_for_me[target[x]] # NIL \/ x \in ShadowChain(target[x])
    BY <1>9, <2>1, <2>2, RefuseKeeps DEF task_join_body
  <2>3. CASE waiting_for_me[target[x]] = NIL /\ x \notin ShadowChain(target[x])
    <3>1. CASE ~wait_for_join[target[x]]
      BY <1>9, <2>1, <2>3, <3>1, BlockKeeps DEF task_join_body
    <3>2. CASE wait_for_join[target[x]] /\ Cancelled(x)
      BY <1>9, <2>1, <2>3, <3>2, MakefreeKeeps DEF task_join_body, Running
    <3>3. CASE wait_for_join[target[x]] /\ ~Cancelled(x)
      BY <1>9, <2>1, <2>3, <3>3, ReapKeeps DEF task_join_body, Running
    <3> QED BY <3>1, <3>2, <3>3
  <2> QED BY <2>2, <2>3
<1>10. ASSUME resume_join(x) PROVE Keeps
  <2>1. status[x] = "READY" /\ phase[x] = "wait"
    BY <1>10 DEF resume_join, Running
  <2>2. CASE Cancelled(x)
    BY <1>10, <2>1, <2>2, MakefreeKeeps DEF resume_join
  <2>3. CASE ~Cancelled(x)
    <3>1. ~killreq[x]
      BY <2>3 DEF Cancelled, LifeOK, Flags
    <3>2. wait_for_join[target[x]]
      BY <2>1, <3>1 DEF LifeOK, Targets
    <3> QED BY <1>10, <2>1, <2>3, <3>2, ReapKeeps DEF resume_join
  <2> QED BY <2>2, <2>3
<1>11. ASSUME task_end(x) PROVE Keeps
  BY <1>11, MakefreeKeeps DEF task_end, Running
<1>12. ASSUME cleanup_end(x) PROVE Keeps
  BY <1>12, CleanupEndKeeps
<1>13. ASSUME cleanup_testcancel(x) PROVE Keeps
  BY <1>13, MakefreeKeeps DEF cleanup_testcancel, Running
<1> QED
  BY <1>1, <1>2, <1>3, <1>4, <1>5, <1>6, <1>7, <1>8, <1>9, <1>10, <1>11, <1>12, <1>13
  DEF TaskStep

LEMMA LifeStays ==
  ASSUME Discipline
  PROVE  LifeOK /\ [Next]_vars => LifeOK'
<1>1. LifeOK /\ Next => LifeOK'
  BY LifeNext DEF Keeps
<1>2. LifeOK /\ UNCHANGED vars => LifeOK'
  <2> SUFFICES ASSUME LifeOK, UNCHANGED vars PROVE LifeOK'
    OBVIOUS
  <2>1. TypeOK' /\ ~raised'
    BY DEF LifeOK, TypeOK, vars, controlVars, cancelVars, callVars
  <2>2. FreeOK' /\ Flags' /\ Links' /\ Targets'
    BY DEF LifeOK, FreeOK, Flags, Links, Targets, Waiting, InJoin,
           vars, controlVars, cancelVars, callVars
  <2> QED BY <2>1, <2>2 DEF LifeOK
<1> QED BY <1>1, <1>2

\* Every free descriptor is in the free queue once, unless it is a zombie that
\* task_createn has passed over: internal_create_init, group_create_reject,
\* task_makefree and task_join never lose a descriptor or link it twice.
THEOREM FreeQueueIsExact ==
  ASSUME Discipline
  PROVE  Spec => []FreeQueueExact
<1>1. LifeOK => FreeQueueExact
  BY DEF LifeOK, FreeOK, FreeQueueExact
<1> QED BY <1>1, LifeInit, LifeStays, PTL DEF Spec

\* A task blocked in task_join will be woken by its target, which is alive, and
\* task_makefree never raises XINVALID_KILL_SHADOW.
THEOREM JoinTargetsAreAlive ==
  ASSUME Discipline
  PROVE  Spec => []JoinTargetAlive
<1>1. LifeOK => JoinTargetAlive
  BY DEF LifeOK, Links, Waiting, JoinTargetAlive
<1> QED BY <1>1, LifeInit, LifeStays, PTL DEF Spec

\* task_join succeeds only for a task that has ended and that nobody else has
\* joined, whatever kills and creations come between its blocking and its end.
THEOREM JoinsSeeEnds ==
  ASSUME Discipline
  PROVE  Spec => JoinSeesEnd
<1>1. LifeOK /\ [Next]_vars => [JoinStep]_vars
  BY LifeNext DEF Keeps
<1> QED BY <1>1, LifeInit, LifeStays, PTL DEF Spec, JoinSeesEnd

\* internal_create_init never takes the descriptor of a task that somebody is
\* still joining.
THEOREM NoReuseUnderJoin ==
  ASSUME Discipline
  PROVE  Spec => NotReusedUnderJoin
<1>1. LifeOK /\ [Next]_vars => [ReuseStep]_vars
  BY LifeNext DEF Keeps
<1> QED BY <1>1, LifeInit, LifeStays, PTL DEF Spec, NotReusedUnderJoin

-----------------------------------------------------------------------------
(* The shadows form no cycle, whatever the callers do.                      *)

RingOK ==
  /\ shadow \in [Pids -> Pids]
  /\ phase \in [Pids -> {"user", "entry", "wait", "cleanup"}]
  /\ target \in [Pids -> Pids \cup {NIL}]
  /\ \A x \in Pids : phase[x] = "entry" => target[x] \in Pids
  /\ NoShadowCycle

\* How a step can change the shadows: some tasks get their own place back, or
\* one that is not in the chain behind p takes p for its shadow.
Released == \A q \in Pids : shadow'[q] \in {shadow[q], q}
Shadowed(x, p) == x \notin ShadowChain(p) /\ shadow' = [shadow EXCEPT ![x] = p]

LEMMA RingKept ==
  ASSUME RingOK, \/ Released
                 \/ \E x, p \in Pids : Shadowed(x, p)
  PROVE  NoShadowCycle'
<1> SUFFICES ASSUME NEW C \in SUBSET Pids, C # {},
                    \A q \in C : shadow'[q] \in C /\ shadow'[q] # q
             PROVE  FALSE
  BY DEF NoShadowCycle
<1>1. ASSUME NEW D \in SUBSET Pids, D # {},
             \A q \in D : shadow[q] \in D /\ shadow[q] # q
      PROVE  FALSE
  BY <1>1 DEF RingOK, NoShadowCycle
<1>2. CASE Released
  <2>1. \A q \in C : shadow[q] \in C /\ shadow[q] # q
    BY <1>2 DEF Released
  <2> QED BY <1>1, <2>1
<1>3. ASSUME NEW x \in Pids, NEW p \in Pids, Shadowed(x, p) PROVE FALSE
  <2>1. shadow'[x] = p /\ \A q \in Pids \ {x} : shadow'[q] = shadow[q]
    BY <1>3 DEF Shadowed, RingOK
  <2>2. CASE x \notin C
    BY <1>1, <2>1, <2>2
  <2>3. CASE x \in C
    <3>1. p \in C /\ p # x /\ shadow[p] \in C
      BY <2>1, <2>3
    <3> DEFINE D == C \cap ShadowChain(p)
    <3>2. shadow[p] \in ShadowChain(p)
      BY DEF ShadowChain, RingOK
    <3>3. \A q \in ShadowChain(p) : q \in Pids /\ shadow[q] \in ShadowChain(p)
      BY DEF ShadowChain, RingOK
    <3>4. x \notin D
      BY <1>3 DEF Shadowed
    <3>5. \A q \in D : shadow[q] \in D /\ shadow[q] # q
      BY <2>1, <3>3, <3>4
    <3>6. D \in SUBSET Pids /\ D # {}
      BY <3>1, <3>2
    <3> HIDE DEF D
    <3> QED BY <1>1, <3>5, <3>6
  <2> QED BY <2>2, <2>3
<1> QED BY <1>2, <1>3

\* The fields that the proof is about, of any step.
LEMMA RingNext ==
  ASSUME RingOK, Next
  PROVE  RingOK'
<1> DEFINE Typed == /\ shadow' \in [Pids -> Pids]
                    /\ phase' \in [Pids -> {"user", "entry", "wait", "cleanup"}]
                    /\ target' \in [Pids -> Pids \cup {NIL}]
                    /\ \A x \in Pids : phase'[x] = "entry" => target'[x] \in Pids
           Goal == Typed /\ (Released \/ \E x, p \in Pids : Shadowed(x, p))
<1>1. PICK x \in Pids : TaskStep(x)
  BY DEF Next
<1>2. ASSUME Makefree(x) PROVE Goal
  <2>1. /\ shadow' = [p \in Pids |-> IF p \in Joiner(x) THEN p ELSE shadow[p]]
        /\ \/ UNCHANGED <<phase, target>>
           \/ phase' = [phase EXCEPT ![x] = "cleanup"] /\ UNCHANGED target
           \/ /\ phase' = [phase EXCEPT ![x] = "user"]
              /\ target' = [target EXCEPT ![x] = NIL]
    BY <1>2 DEF Makefree, Finish, callVars
  <2>2. Released
    BY <2>1 DEF Released
  <2>3. Typed
    BY <2>1 DEF RingOK
  <2> QED BY <2>2, <2>3
<1>3. ASSUME shadow' = shadow, LeaveJoin(x) PROVE Goal
  BY <1>3 DEF LeaveJoin, Released, RingOK
<1>4. ASSUME shadow' = shadow, UNCHANGED callVars PROVE Goal
  BY <1>4 DEF callVars, Released, RingOK
<1>5. ASSUME NEW q, shadow' = [shadow EXCEPT ![q] = q], UNCHANGED callVars
      PROVE  Goal
  BY <1>5 DEF callVars, Released, RingOK
<1>6. ASSUME NEW j \in BOOLEAN, task_createn(x, j) \/ task_createn_rejected(x, j)
      PROVE  Goal
  <2>1. PICK f : shadow' = [shadow EXCEPT ![f] = f] /\ UNCHANGED callVars
    BY <1>6 DEF task_createn, task_createn_rejected, Fill
  <2> QED BY <1>5, <2>1
<1>7. ASSUME NEW p \in Pids, task_kill(x, p) PROVE Goal
  BY <1>4, <1>5, <1>7 DEF task_kill
<1>8. ASSUME NEW p \in Pids, task_join(x, p) PROVE Goal
  <2>1. CASE Cancelled(x)
    BY <1>2, <1>8, <2>1 DEF task_join
  <2>2. CASE ~Cancelled(x)
    <3>1. /\ shadow' = shadow
          /\ phase' = [phase EXCEPT ![x] = "entry"]
          /\ target' = [target EXCEPT ![x] = p]
      BY <1>8, <2>2 DEF task_join
    <3>2. Released /\ Typed
      BY <3>1 DEF Released, RingOK
    <3> QED BY <3>2
  <2> QED BY <2>1, <2>2
<1>9. ASSUME Running(x, "wait") \/ Running(x, "entry"), Reap(x, target[x]) PROVE Goal
  BY <1>3, <1>9 DEF Reap
<1>10. ASSUME task_join_body(x) PROVE Goal
  <2>1. target[x] \in Pids /\ Running(x, "entry")
    BY <1>10 DEF task_join_body, Running, RingOK
  <2>2. CASE waiting_for_me[target[x]] # NIL \/ x \in ShadowChain(target[x])
    BY <1>3, <1>10, <2>2 DEF task_join_body
  <2>3. CASE waiting_for_me[target[x]] = NIL /\ x \notin ShadowChain(target[x])
    <3>1. CASE ~wait_for_join[target[x]]
      <4>1. /\ shadow' = [shadow EXCEPT ![x] = target[x]]
            /\ phase' = [phase EXCEPT ![x] = "wait"] /\ UNCHANGED target
        BY <1>10, <2>3, <3>1 DEF task_join_body, BlockOn
      <4>2. Shadowed(x, target[x])
        BY <2>3, <4>1 DEF Shadowed
      <4>3. Typed
        BY <2>1, <4>1 DEF RingOK
      <4> QED BY <2>1, <4>2, <4>3
    <3>2. CASE wait_for_join[target[x]] /\ Cancelled(x)
      BY <1>2, <1>10, <2>3, <3>2 DEF task_join_body
    <3>3. CASE wait_for_join[target[x]] /\ ~Cancelled(x)
      BY <1>9, <1>10, <2>1, <2>3, <3>3 DEF task_join_body
    <3> QED BY <3>1, <3>2, <3>3
  <2> QED BY <2>2, <2>3
<1>11. ASSUME resume_join(x) PROVE Goal
  BY <1>2, <1>9, <1>11 DEF resume_join
<1>12. ASSUME task_end(x) \/ cleanup_testcancel(x) PROVE Goal
  BY <1>2, <1>12 DEF task_end, cleanup_testcancel
<1>13. ASSUME cleanup_end(x) PROVE Goal
  <2>1. /\ shadow' = shadow /\ phase' = [phase EXCEPT ![x] = "user"]
        /\ target' = [target EXCEPT ![x] = NIL]
    BY <1>13 DEF cleanup_end, Finish
  <2>2. Released /\ Typed
    BY <2>1 DEF Released, RingOK
  <2> QED BY <2>2
<1>14. ASSUME \/ task_createn_none(x)
              \/ \E p \in Pids : task_activate(x, p) \/ task_joinable(x, p)
                                   \/ task_unjoinable(x, p)
              \/ \E b \in BOOLEAN : task_cleanup(x, b)
              \/ \E state \in CancelStates : task_setcancelstate(x, state)
       PROVE  Goal
  <2>1. shadow' = shadow /\ UNCHANGED callVars
    BY <1>14 DEF task_createn_none, task_activate, task_joinable, task_unjoinable,
                 task_cleanup, task_setcancelstate
  <2> QED BY <1>4, <2>1
<1>15. Goal
  BY <1>1, <1>6, <1>7, <1>8, <1>10, <1>11, <1>12, <1>13, <1>14 DEF TaskStep
<1>16. NoShadowCycle'
  BY <1>15, RingKept
<1> QED BY <1>15, <1>16 DEF RingOK

\* The joins of blocked tasks never form a ring: the loops over the shadows in
\* task_join and scheduler() end, whatever the callers do (the assumptions of
\* the other theorems are not needed here).
THEOREM NoRingOfJoins == Spec => []NoShadowCycle
<1>1. Init => RingOK
  <2> SUFFICES ASSUME Init PROVE RingOK
    OBVIOUS
  <2>1. /\ shadow = [p \in Pids |-> p] /\ phase = [p \in Pids |-> "user"]
        /\ target = [p \in Pids |-> NIL]
    BY DEF Init
  <2>2. ASSUME NEW C \in SUBSET Pids, C # {}, \A p \in C : shadow[p] # p PROVE FALSE
    <3>1. PICK p \in C : TRUE
      BY <2>2
    <3> QED BY <2>1, <2>2, <3>1
  <2>3. NoShadowCycle
    BY <2>2 DEF NoShadowCycle
  <2> QED BY <2>1, <2>3 DEF RingOK
<1>2. RingOK /\ [Next]_vars => RingOK'
  <2>1. RingOK /\ UNCHANGED vars => RingOK'
    BY DEF RingOK, NoShadowCycle, vars, callVars
  <2> QED BY <2>1, RingNext
<1>3. RingOK => NoShadowCycle
  BY DEF RingOK
<1> QED BY <1>1, <1>2, <1>3, PTL DEF Spec
=============================================================================
