------------------------------ MODULE MCMutex ------------------------------
(* Model checking of Mutex: three tasks, three mutexes.            *)
EXTENDS Mutex, TLC

CONSTANTS t1, t2, t3

MCCeiling == <<1, 2, 2>>
MCPriority == t1 :> 1 @@ t2 :> 2 @@ t3 :> 2
AnyNesting == Classes \X Classes
AllClasses == [Mutexes -> Classes]
\* A holder of a PI, PC or NPP mutex must not be taken out of the ready queues
\* by NOP; a holder of an NPP mutex must not wait at all; and only PC mutexes
\* may be held when a PC mutex is locked, because PC_lock waits for owners that
\* the order of the locks does not know.
SoundNesting ==
  {<<c, d>> : c \in {"NOP", "NOPM"}, d \in {"NOP", "NOPM", "NPP", "PI"}}
    \cup {<<"PI", "PI">>, <<"PC", "PI">>, <<"PC", "PC">>}
    \cup {<<c, "NPP">> : c \in {"PI", "PC", "NPP"}}
=============================================================================
