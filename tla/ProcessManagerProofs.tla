------------------------ MODULE ProcessManagerProofs ------------------------
(* Theorems about the subprocess manager, for any callers, programs of     *)
(* calls, number of processes and restart policy.                          *)
EXTENDS ProcessManager, SequenceTheorems, FiniteSetTheorems, TLAPS

(* TypeOK, part by part, and what it relies on: a call under way is still  *)
(* the first one of its caller's program; what lives was spawned.          *)
MgrType ==
  /\ restarts \in BOOLEAN /\ mu \in Callers \cup Procs \cup {Free}
  /\ state \in States
  /\ closed \in BOOLEAN /\ ctxDone \in BOOLEAN /\ eventsClosed \in BOOLEAN /\ panicked \in BOOLEAN
  /\ restartCount \in Nat

ProcType ==
  /\ nprocs \in 0..MaxProcs /\ cmd \in 0..nprocs /\ waitCh = nprocs
  /\ exitSent \in [0..MaxProcs -> BOOLEAN]
  /\ auto \subseteq Spawned /\ killed \subseteq Spawned
  /\ proc \in [Procs -> {"none", "live", "exited"}]
  /\ Live \subseteq Spawned

MonType ==
  /\ mon   \in [Procs -> MonPcs]
  /\ mcmd  \in [Procs -> 0..MaxProcs]
  /\ mstop \in [Procs -> BOOLEAN]
  /\ mch   \in [Procs -> 0..MaxProcs]

CallType ==
  /\ pc    \in [Callers -> CallPcs]
  /\ todo  \in [Callers -> Seq(Ops)]
  /\ scmd  \in [Callers -> 0..MaxProcs]
  /\ sch   \in [Callers -> 0..MaxProcs]
  /\ \A c \in Callers : pc[c] # "idle" => todo[c] # <<>>

TypeInv == MgrType /\ ProcType /\ MonType /\ CallType

LEMMA TypeInit == Init => TypeInv
<1> SUFFICES ASSUME Init PROVE TypeInv
  OBVIOUS
<1> USE ManagerAssumption DEF Init, Procs
<1>1. MgrType
  BY DEF MgrType, States
<1>2. ProcType
  BY DEF ProcType, Spawned, Live
<1>3. MonType
  BY DEF MonType, MonPcs
<1>4. CallType
  BY DEF CallType, CallPcs
<1>5. QED
  BY <1>1, <1>2, <1>3, <1>4 DEF TypeInv

LEMMA GotoType ==
  ASSUME CallType, NEW c \in Callers, NEW l \in CallPcs, todo[c] # <<>>, Goto(c, l), UNCHANGED todo,
         scmd' \in [Callers -> 0..MaxProcs], sch' \in [Callers -> 0..MaxProcs]
  PROVE  CallType'
  BY DEF CallType, Goto

LEMMA ReturnType ==
  ASSUME CallType, NEW c \in Callers, todo[c] # <<>>, Return(c)
  PROVE  CallType'
<1>1. Tail(todo[c]) \in Seq(Ops)
  BY DEF CallType
<1>2. 0 \in 0..MaxProcs /\ "idle" \in CallPcs
  BY ManagerAssumption DEF CallPcs
<1>3. QED
  BY <1>1, <1>2 DEF CallType, Return

LEMMA StopReturnType ==
  ASSUME CallType, NEW c \in Callers, NEW ok, todo[c] # <<>>, StopReturn(c, ok)
  PROVE  CallType'
<1>1. \/ \E l \in {"pause", "closeCancel"} : Goto(c, l) /\ UNCHANGED <<todo, scmd, sch>>
      \/ Return(c)
  BY DEF StopReturn
<1>2. {"pause", "closeCancel"} \subseteq CallPcs
  BY DEF CallPcs
<1>3. UNCHANGED <<scmd, sch>> => scmd' \in [Callers -> 0..MaxProcs] /\ sch' \in [Callers -> 0..MaxProcs]
  BY DEF CallType
<1>4. QED
  BY <1>1, <1>2, <1>3, GotoType, ReturnType

(* What spawning does, for any program counters of the other monitors.     *)
LEMMA SpawnType ==
  ASSUME ProcType, NEW m \in [Procs -> MonPcs], SpawnOK(m),
         UNCHANGED killed, auto' = auto \/ auto' = auto \cup {nprocs + 1}
  PROVE  ProcType' /\ mon' \in [Procs -> MonPcs] /\ state' \in States /\ nprocs + 1 \in Procs
<1>1. /\ nprocs \in Nat /\ nprocs + 1 \in 0..MaxProcs /\ nprocs + 1 \in Procs /\ 0 \in 0..MaxProcs
      /\ MaxProcs \in Nat
  BY ManagerAssumption DEF SpawnOK, ProcType, Procs
<1>2. nprocs' = nprocs + 1 /\ cmd' \in 0..nprocs' /\ waitCh' = nprocs'
  BY <1>1 DEF SpawnOK
<1>3. exitSent' \in [0..MaxProcs -> BOOLEAN]
  BY <1>1 DEF SpawnOK, ProcType
<1>4. auto' \subseteq Spawned' /\ killed' \subseteq Spawned'
  <2>1. Spawned \subseteq Spawned' /\ nprocs + 1 \in Spawned'
    BY <1>1, <1>2 DEF Spawned
  <2>2. QED
    BY <2>1 DEF ProcType
<1>5. proc' = [proc EXCEPT ![nprocs + 1] = "live"] /\ proc' \in [Procs -> {"none", "live", "exited"}]
  BY <1>1 DEF SpawnOK, ProcType
<1>6. Live' \subseteq Live \cup {nprocs + 1}
  BY <1>5 DEF ProcType, Live
<1>7. Live' \subseteq Spawned'
  BY <1>1, <1>2, <1>6 DEF ProcType, Spawned
<1>8. mon' \in [Procs -> MonPcs] /\ state' \in States
  BY <1>1 DEF SpawnOK, MonPcs, States
<1>9. QED
  BY <1>1, <1>2, <1>3, <1>4, <1>5, <1>7, <1>8 DEF ProcType

LEMMA TypeStep == TypeInv /\ [Next]_vars => TypeInv'
<1> SUFFICES ASSUME TypeInv, [Next]_vars PROVE TypeInv'
  OBVIOUS
<1> USE ManagerAssumption DEF TypeInv, mgrVars, procVars, monVars, callVars
<1>a. 0 \in 0..MaxProcs /\ cmd \in 0..MaxProcs /\ waitCh \in 0..MaxProcs
  BY DEF ProcType
<1>b. \A c \in Callers, op \in Ops : Called(c, op) => todo[c] # <<>>
  BY DEF Called
<1>c. UNCHANGED mgrVars => MgrType'
  BY DEF MgrType
<1>d. UNCHANGED procVars => ProcType'
  BY DEF ProcType, Spawned, Live
<1>e. UNCHANGED monVars => MonType'
  BY DEF MonType
<1>f. UNCHANGED callVars => CallType'
  BY DEF CallType
<1>g. UNCHANGED <<scmd, sch>> => scmd' \in [Callers -> 0..MaxProcs] /\ sch' \in [Callers -> 0..MaxProcs]
  BY DEF CallType
<1>h. ASSUME NEW S, UNCHANGED <<cmd, waitCh, exitSent, nprocs, auto, proc>>, killed' = killed \/ killed' = killed \cup (S \cap Live)
      PROVE  ProcType'
  BY <1>h DEF ProcType, Spawned, Live
<1>1. ASSUME NEW c \in Callers, StartLock(c) PROVE TypeInv'
  <2>1. todo[c] # <<>> /\ c \in Callers \cup Procs \cup {Free}
    BY <1>1 DEF StartLock, Called, CallType
  <2>2. MgrType'
    BY <1>1, <2>1 DEF StartLock, MgrType, States
  <2>3. CallType'
    <3>1. \/ Return(c)
          \/ Goto(c, "spawn") /\ UNCHANGED <<todo, scmd, sch>>
      BY <1>1 DEF StartLock
    <3>2. "spawn" \in CallPcs
      BY DEF CallPcs
    <3>3. QED
      BY <2>1, <3>1, <3>2, <1>g, GotoType, ReturnType
  <2>4. QED
    BY <1>1, <1>d, <1>e, <2>2, <2>3 DEF StartLock
<1>2. ASSUME NEW c \in Callers, StartSpawn(c) PROVE TypeInv'
  <2>1. CallType'
    BY <1>2, ReturnType DEF StartSpawn, CallType
  <2>2. CASE SpawnOK(mon)
    <3>1. /\ ProcType' /\ mon' \in [Procs -> MonPcs] /\ state' \in States
          /\ panicked' \in BOOLEAN
      BY <1>2, <2>2, SpawnType DEF StartSpawn, MonType, SpawnOK, SendEvent, MgrType
    <3>2. QED
      BY <1>2, <2>1, <3>1 DEF StartSpawn, MgrType, MonType
  <2>3. CASE SpawnFail(mon)
    <3>1. UNCHANGED procVars /\ UNCHANGED monVars /\ MgrType'
      BY <1>2, <2>3 DEF StartSpawn, SpawnFail, MgrType, States
    <3>2. QED
      BY <1>d, <1>e, <2>1, <3>1
  <2>4. QED
    BY <1>2, <2>2, <2>3 DEF StartSpawn
<1>3. ASSUME NEW c \in Callers, StopLock(c) PROVE TypeInv'
  <2>1. todo[c] # <<>> /\ {"stopCmd", "stopSignal"} \subseteq CallPcs
    BY <1>3 DEF StopLock, Called, CallType, CallPcs
  <2>2. MgrType'
    BY <1>3 DEF StopLock, MgrType, States
  <2>3. CASE StopReturn(c, ~closed)
    BY <1>3, <1>d, <1>e, <2>1, <2>2, <2>3, StopReturnType DEF StopLock
  <2>4. CASE /\ scmd' = [scmd EXCEPT ![c] = cmd] /\ UNCHANGED <<todo, sch>>
             /\ Goto(c, IF cmd = 0 THEN "stopCmd" ELSE "stopSignal")
    <3>1. scmd' \in [Callers -> 0..MaxProcs] /\ sch' \in [Callers -> 0..MaxProcs]
      BY <1>a, <2>4 DEF CallType
    <3>2. CallType'
      BY <2>1, <2>4, <3>1, GotoType
    <3>3. QED
      BY <1>3, <1>d, <1>e, <2>2, <3>2 DEF StopLock
  <2>5. QED
    BY <1>3, <2>3, <2>4 DEF StopLock
<1>4. ASSUME NEW c \in Callers, StopNoCmd(c) PROVE TypeInv'
  <2>1. todo[c] # <<>>
    BY <1>4 DEF StopNoCmd, CallType
  <2>2. CallType'
    BY <1>4, <2>1, StopReturnType DEF StopNoCmd
  <2>3. QED
    BY <1>4, <1>d, <1>e, <2>2 DEF StopNoCmd, MgrType, States
<1>5. ASSUME NEW c \in Callers, StopSignal(c) PROVE TypeInv'
  <2>1. /\ todo[c] # <<>> /\ "stopWait" \in CallPcs
        /\ scmd' \in [Callers -> 0..MaxProcs] /\ sch' \in [Callers -> 0..MaxProcs]
    BY <1>5, <1>a DEF StopSignal, CallType, CallPcs
  <2>2. CallType'
    BY <1>5, <2>1, GotoType DEF StopSignal
  <2>3. ProcType'
    BY <1>5, <1>h DEF StopSignal
  <2>4. QED
    BY <1>5, <1>c, <1>e, <2>2, <2>3 DEF StopSignal
<1>6. ASSUME NEW c \in Callers, StopExited(c) PROVE TypeInv'
  <2>1. todo[c] # <<>>
    BY <1>6 DEF StopExited, CallType
  <2>2. CallType'
    BY <1>6, <2>1, StopReturnType DEF StopExited
  <2>3. ProcType'
    BY <1>6 DEF StopExited, ProcType, Spawned, Live
  <2>4. QED
    BY <1>6, <1>c, <1>e, <2>2, <2>3 DEF StopExited
<1>7. ASSUME NEW c \in Callers, StopTimeout(c) PROVE TypeInv'
  <2>1. todo[c] # <<>> /\ "stopKill" \in CallPcs
    BY <1>7 DEF StopTimeout, CallType, CallPcs
  <2>2. CallType'
    BY <1>7, <1>g, <2>1, GotoType DEF StopTimeout
  <2>3. ProcType'
    BY <1>7, <1>h DEF StopTimeout
  <2>4. QED
    BY <1>7, <1>c, <1>e, <2>2, <2>3 DEF StopTimeout
<1>8. ASSUME NEW c \in Callers, StopKillTimeout(c) PROVE TypeInv'
  <2>1. todo[c] # <<>>
    BY <1>8 DEF StopKillTimeout, CallType
  <2>2. QED
    BY <1>8, <1>c, <1>d, <1>e, <2>1, StopReturnType DEF StopKillTimeout
<1>9. ASSUME NEW c \in Callers, StopCtxDone(c) PROVE TypeInv'
  <2>1. todo[c] # <<>>
    BY <1>9 DEF StopCtxDone, CallType
  <2>2. CallType'
    BY <1>9, <2>1, StopReturnType DEF StopCtxDone
  <2>3. ProcType'
    BY <1>9, <1>h DEF StopCtxDone
  <2>4. QED
    BY <1>9, <1>c, <1>e, <2>2, <2>3 DEF StopCtxDone
<1>10. ASSUME NEW c \in Callers, RestartPause(c) PROVE TypeInv'
  <2>1. todo[c] # <<>> /\ "start" \in CallPcs
    BY <1>10 DEF RestartPause, CallType, CallPcs
  <2>2. CallType'
    BY <1>10, <1>g, <2>1, GotoType, ReturnType DEF RestartPause
  <2>3. QED
    BY <1>10, <1>c, <1>d, <1>e, <2>2 DEF RestartPause
<1>11. ASSUME NEW c \in Callers, WaitBegin(c) PROVE TypeInv'
  <2>1. /\ todo[c] # <<>> /\ "waiting" \in CallPcs
        /\ scmd' \in [Callers -> 0..MaxProcs] /\ sch' \in [Callers -> 0..MaxProcs]
    BY <1>11, <1>a DEF WaitBegin, Called, CallType, CallPcs
  <2>2. CallType'
    BY <1>11, <2>1, GotoType DEF WaitBegin
  <2>3. QED
    BY <1>11, <1>c, <1>d, <1>e, <2>2 DEF WaitBegin
<1>12. ASSUME NEW c \in Callers, WaitReturn(c) PROVE TypeInv'
  <2>1. todo[c] # <<>>
    BY <1>12 DEF WaitReturn, CallType
  <2>2. QED
    BY <1>12, <1>c, <1>d, <1>e, <2>1, ReturnType DEF WaitReturn
<1>13. ASSUME NEW c \in Callers, CloseBegin(c) PROVE TypeInv'
  <2>1. todo[c] # <<>> /\ {"closeOnce", "closeStop"} \subseteq CallPcs
    BY <1>13 DEF CloseBegin, Called, CallPcs
  <2>2. CallType'
    BY <1>13, <1>g, <2>1, GotoType DEF CloseBegin
  <2>3. QED
    BY <1>13, <1>d, <1>e, <2>2 DEF CloseBegin, MgrType
<1>14. ASSUME NEW c \in Callers, CloseCancel(c) PROVE TypeInv'
  <2>1. todo[c] # <<>> /\ "closeJoin" \in CallPcs
    BY <1>14 DEF CloseCancel, CallType, CallPcs
  <2>2. CallType'
    BY <1>14, <1>g, <2>1, GotoType DEF CloseCancel
  <2>3. QED
    BY <1>14, <1>d, <1>e, <2>2 DEF CloseCancel, MgrType
<1>15. ASSUME NEW c \in Callers, CloseJoin(c) PROVE TypeInv'
  <2>1. todo[c] # <<>> /\ "closeEvents" \in CallPcs
    BY <1>15 DEF CloseJoin, CallType, CallPcs
  <2>2. CallType'
    BY <1>15, <1>g, <2>1, GotoType DEF CloseJoin
  <2>3. QED
    BY <1>15, <1>c, <1>d, <1>e, <2>2 DEF CloseJoin
<1>16. ASSUME NEW c \in Callers, CloseEvents(c) PROVE TypeInv'
  <2>1. todo[c] # <<>>
    BY <1>16 DEF CloseEvents, CallType
  <2>2. CallType'
    BY <1>16, <2>1, ReturnType DEF CloseEvents
  <2>3. QED
    BY <1>16, <1>d, <1>e, <2>2 DEF CloseEvents, MgrType
<1>17. ASSUME NEW c \in Callers, CloseOnce(c) PROVE TypeInv'
  <2>1. todo[c] # <<>>
    BY <1>17 DEF CloseOnce, CallType
  <2>2. QED
    BY <1>17, <1>c, <1>d, <1>e, <2>1, ReturnType DEF CloseOnce
<1>18. ASSUME NEW p \in Procs, MonitorBegin(p) PROVE TypeInv'
  <2>1. MonType'
    BY <1>18, <1>a DEF MonitorBegin, MonType, MonPcs
  <2>2. QED
    BY <1>18, <1>c, <1>d, <1>f, <2>1 DEF MonitorBegin
<1>19. ASSUME NEW p \in Procs, MonitorExited(p) PROVE TypeInv'
  <2>1. MonType'
    BY <1>19, <1>a DEF MonitorExited, MonType, MonPcs
  <2>2. ProcType'
    BY <1>19 DEF MonitorExited, ProcType, Spawned, Live
  <2>3. QED
    BY <1>19, <1>c, <1>f, <2>1, <2>2 DEF MonitorExited
<1>20. ASSUME NEW p \in Procs, MonitorNotify(p) PROVE TypeInv'
  <2>1. MonType'
    BY <1>20, <1>a DEF MonitorNotify, MonType, MonPcs
  <2>2. ProcType'
    BY <1>20 DEF MonitorNotify, ProcType, Spawned, Live
  <2>3. QED
    BY <1>20, <1>c, <1>f, <2>1, <2>2 DEF MonitorNotify
<1>21. ASSUME NEW p \in Procs, MonitorStopped(p) PROVE TypeInv'
  <2>1. MonType'
    BY <1>21 DEF MonitorStopped, MonDone, MonType, MonPcs
  <2>2. MgrType'
    BY <1>21 DEF MonitorStopped, SendEvent, MgrType, States
  <2>3. QED
    BY <1>21, <1>d, <1>f, <2>1, <2>2 DEF MonitorStopped
<1>22. ASSUME NEW p \in Procs, MonitorNoRestart(p) PROVE TypeInv'
  <2>1. MonType'
    BY <1>22 DEF MonitorNoRestart, MonGoto, MonType, MonPcs
  <2>2. MgrType'
    BY <1>22 DEF MonitorNoRestart, SendEvent, MgrType, States
  <2>3. QED
    BY <1>22, <1>d, <1>f, <2>1, <2>2 DEF MonitorNoRestart
<1>23. ASSUME NEW p \in Procs, MonitorGivesUp(p) PROVE TypeInv'
  <2>1. MonType'
    BY <1>23 DEF MonitorGivesUp, MonGoto, MonType, MonPcs
  <2>2. MgrType'
    BY <1>23 DEF MonitorGivesUp, SendEvent, MgrType, States
  <2>3. QED
    BY <1>23, <1>d, <1>f, <2>1, <2>2 DEF MonitorGivesUp
<1>24. ASSUME NEW p \in Procs, MonitorSchedules(p) PROVE TypeInv'
  <2>1. MonType'
    BY <1>24 DEF MonitorSchedules, MonGoto, MonType, MonPcs
  <2>2. MgrType'
    BY <1>24 DEF MonitorSchedules, SendEvent, MgrType, States
  <2>3. QED
    BY <1>24, <1>d, <1>f, <2>1, <2>2 DEF MonitorSchedules
<1>25. ASSUME NEW p \in Procs, MonitorCancelled(p) PROVE TypeInv'
  <2>1. MonType'
    BY <1>25 DEF MonitorCancelled, MonGoto, MonType, MonPcs
  <2>2. MgrType'
    BY <1>25 DEF MonitorCancelled, SendEvent, MgrType, States
  <2>3. QED
    BY <1>25, <1>d, <1>f, <2>1, <2>2 DEF MonitorCancelled
<1>26. ASSUME NEW p \in Procs, MonitorLock(p) PROVE TypeInv'
  <2>1. MonType'
    BY <1>26 DEF MonitorLock, MonGoto, MonType, MonPcs
  <2>2. MgrType'
    BY <1>26 DEF MonitorLock, SendEvent, MgrType, States
  <2>3. QED
    BY <1>26, <1>d, <1>f, <2>1, <2>2 DEF MonitorLock
<1>27. ASSUME NEW p \in Procs, MonitorRestartFailed(p) PROVE TypeInv'
  <2>1. MonType'
    BY <1>27 DEF MonitorRestartFailed, MonGoto, MonType, MonPcs
  <2>2. MgrType'
    BY <1>27 DEF MonitorRestartFailed, SendEvent, MgrType, States
  <2>3. QED
    BY <1>27, <1>d, <1>f, <2>1, <2>2 DEF MonitorRestartFailed
<1>28. ASSUME NEW p \in Procs, MonitorSpawn(p) PROVE TypeInv'
  <2>1. MonDone(p) \in [Procs -> MonPcs]
    BY DEF MonDone, MonType, MonPcs
  <2>2. CASE SpawnOK(MonDone(p)) /\ auto' = auto \cup {nprocs + 1}
    <3>1. /\ ProcType' /\ mon' \in [Procs -> MonPcs] /\ state' \in States
          /\ panicked' \in BOOLEAN
      BY <1>28, <2>1, <2>2, SpawnType DEF MonitorSpawn, SpawnOK, SendEvent, MgrType
    <3>2. QED
      BY <1>28, <1>f, <3>1 DEF MonitorSpawn, MgrType, MonType
  <2>3. CASE SpawnFail([mon EXCEPT ![p] = "restartFailed"]) /\ UNCHANGED auto
    <3>1. UNCHANGED procVars /\ mon' \in [Procs -> MonPcs] /\ MgrType'
      BY <1>28, <2>3 DEF MonitorSpawn, SpawnFail, MgrType, States, MonType, MonPcs
    <3>2. QED
      BY <1>28, <1>d, <1>f, <3>1 DEF MonitorSpawn, MonType
  <2>4. QED
    BY <1>28, <2>2, <2>3 DEF MonitorSpawn
<1>29. ASSUME NEW p \in Procs, ProcessExit(p) PROVE TypeInv'
  <2>1. ProcType'
    BY <1>29 DEF ProcessExit, ProcType, Spawned, Live
  <2>2. QED
    BY <1>29, <1>c, <1>e, <1>f, <2>1 DEF ProcessExit
<1>30. ASSUME UNCHANGED vars PROVE TypeInv'
  BY <1>30, <1>c, <1>d, <1>e, <1>f DEF vars
<1>31. QED
  BY <1>1, <1>2, <1>3, <1>4, <1>5, <1>6, <1>7, <1>8, <1>9, <1>10, <1>11, <1>12, <1>13, <1>14, <1>15, <1>16, <1>17, <1>18, <1>19, <1>20, <1>21, <1>22, <1>23, <1>24, <1>25, <1>26, <1>27, <1>28, <1>29, <1>30
     DEF Next, Caller, Start, Stop, Restart, Wait, Close, Monitor

(* Every variable of the manager keeps its type, whatever calls are made.  *)
THEOREM TypeCorrect == Spec => []TypeOK
<1>1. TypeInv => TypeOK
  BY DEF TypeInv, MgrType, ProcType, MonType, CallType, TypeOK
<1>2. QED
  BY <1>1, TypeInit, TypeStep, PTL DEF Spec

-----------------------------------------------------------------------------
(* Why closing the events channel is safe.  Who spawns holds mu.  A Close  *)
(* is only ever in its own program counters, since Stop returns to it at   *)
(* once.  Once Close has been through Stop's critical section, no caller   *)
(* spawns any more; once the monitors are joined, none of them is left.    *)
StopPcs == {"stopCmd", "stopSignal", "stopWait", "stopKill"}

Closing == eventsClosed \/ \E c \in Callers : pc[c] \in {"closeCancel", "closeJoin", "closeEvents"}
Joined  == eventsClosed \/ \E c \in Callers : pc[c] = "closeEvents"

SpawnInv ==
  /\ \A c \in Callers : pc[c] = "spawn" => mu = c
  /\ \A p \in Procs : mon[p] = "spawn" => mu = p

CloseInv ==
  /\ \A c \in Callers : pc[c] \in StopPcs => Head(todo[c]) # "close"
  /\ \A c \in Callers : pc[c] = "closeStop" => closed
  /\ Closing => closed /\ \A c \in Callers : pc[c] # "spawn"
  /\ Joined => \A p \in Procs : mon[p] \in {"none", "done"}
  /\ panicked = FALSE

SendInv == TypeInv /\ SpawnInv /\ CloseInv

LEMMA SendInit == Init => SendInv
  BY TypeInit DEF Init, SendInv, SpawnInv, CloseInv, Closing, Joined, StopPcs

(* Steps of a caller outside spawn and Close's own program counters.       *)
LEMMA CallerKeeps ==
  ASSUME SendInv, NEW c \in Callers, NEW l \in CallPcs, pc' = [pc EXCEPT ![c] = l],
         UNCHANGED <<mu, eventsClosed, panicked, mon>>, closed => closed',
         \A d \in Callers : d # c => todo'[d] = todo[d],
         l \notin {"spawn", "closeCancel", "closeJoin", "closeEvents"},
         l = "closeStop" => closed',
         l \in StopPcs => Head(todo'[c]) # "close"
  PROVE  (SpawnInv /\ CloseInv)'
<1> USE DEF SendInv
<1>1. pc \in [Callers -> CallPcs] /\ closed \in BOOLEAN /\ eventsClosed \in BOOLEAN
  BY DEF TypeInv, CallType, MgrType
<1>2. \A d \in Callers : pc'[d] = IF d = c THEN l ELSE pc[d]
  BY <1>1
<1>3. SpawnInv'
  BY <1>2 DEF SpawnInv
<1>4. (Closing' => Closing) /\ (Joined' => Joined)
  BY <1>2 DEF Closing, Joined
<1>5. \A d \in Callers : pc'[d] \in StopPcs => Head(todo'[d]) # "close"
  BY <1>2 DEF CloseInv
<1>6. \A d \in Callers : pc'[d] = "closeStop" => closed'
  BY <1>2 DEF CloseInv
<1>7. Closing' => closed' /\ \A d \in Callers : pc'[d] # "spawn"
  BY <1>2, <1>4 DEF CloseInv
<1>8. QED
  BY <1>3, <1>4, <1>5, <1>6, <1>7 DEF CloseInv

(* A step of a monitor that is neither done nor waiting to be started.     *)
LEMMA MonitorKeeps ==
  ASSUME SendInv, NEW p \in Procs, mon[p] \notin {"none", "done"}, NEW l \in MonPcs,
         mon' = [mon EXCEPT ![p] = l], UNCHANGED <<closed, eventsClosed, pc, todo>>,
         panicked' = panicked \/ SendEvent,
         mu' = mu \/ (mu = Free /\ mu' = p), l = "spawn" => mu' = p
  PROVE  (SpawnInv /\ CloseInv)'
<1> USE ManagerAssumption DEF SendInv
<1>1. mon \in [Procs -> MonPcs] /\ panicked = FALSE
  BY DEF TypeInv, MonType, CloseInv
<1>2. ~Joined /\ eventsClosed = FALSE
  BY DEF CloseInv, Joined, TypeInv, MgrType
<1>3. ~Joined' /\ panicked' = FALSE
  BY <1>1, <1>2 DEF Joined, SendEvent
<1>4. SpawnInv'
  BY <1>1 DEF SpawnInv
<1>5. CloseInv'
  BY <1>3 DEF CloseInv, Closing
<1>6. QED
  BY <1>4, <1>5

(* Where Stop's return leads.                                              *)
LEMMA StopReturnPc ==
  ASSUME CallType, NEW c \in Callers, NEW ok, StopReturn(c, ok)
  PROVE  /\ \E l \in {"pause", "closeCancel", "idle"} :
               pc' = [pc EXCEPT ![c] = l] /\ (l = "closeCancel" <=> Head(todo[c]) = "close")
         /\ \A d \in Callers : d # c => todo'[d] = todo[d]
  BY DEF StopReturn, Goto, Return, CallType

(* A call that has not reached Close's program counters stays out of them. *)
LEMMA StopReturnKeeps ==
  ASSUME SendInv, NEW c \in Callers, NEW ok, StopReturn(c, ok), Head(todo[c]) # "close",
         UNCHANGED <<mu, closed, eventsClosed, panicked, mon>>
  PROVE  (SpawnInv /\ CloseInv)'
<1>1. PICK l \in {"pause", "closeCancel", "idle"} : pc' = [pc EXCEPT ![c] = l] /\ l # "closeCancel"
  BY StopReturnPc DEF SendInv, TypeInv
<1>2. \A d \in Callers : d # c => todo'[d] = todo[d]
  BY StopReturnPc DEF SendInv, TypeInv
<1>3. l \in CallPcs /\ l \notin StopPcs /\ l \notin {"spawn", "closeStop", "closeCancel", "closeJoin", "closeEvents"}
  BY <1>1 DEF CallPcs, StopPcs
<1>4. QED
  BY <1>1, <1>2, <1>3, CallerKeeps

LEMMA SendStep == SendInv /\ [Next]_vars => SendInv'
<1> SUFFICES ASSUME SendInv, [Next]_vars PROVE SendInv'
  OBVIOUS
<1> DEFINE Rest == SpawnInv /\ CloseInv
<1> USE ManagerAssumption DEF mgrVars, procVars, monVars, callVars
<1>a. TypeInv /\ TypeInv'
  BY TypeStep DEF SendInv
<1>b. CallType /\ pc \in [Callers -> CallPcs] /\ mon \in [Procs -> MonPcs]
      /\ closed \in BOOLEAN /\ eventsClosed \in BOOLEAN
  BY <1>a DEF TypeInv, CallType, MonType, MgrType
<1>1. ASSUME NEW c \in Callers, StartLock(c) PROVE Rest'
  <2>1. CASE Return(c) /\ UNCHANGED <<mu, state>>
    <3>1. pc' = [pc EXCEPT ![c] = "idle"] /\ \A d \in Callers : d # c => todo'[d] = todo[d]
      BY <2>1, <1>b DEF Return, CallType
    <3>2. "idle" \in CallPcs /\ "idle" \notin StopPcs
      BY DEF CallPcs, StopPcs
    <3>3. QED
      BY <1>1, <2>1, <3>1, <3>2, CallerKeeps DEF StartLock
  <2>2. CASE ~StartRefused /\ mu' = c /\ Goto(c, "spawn") /\ UNCHANGED todo
    <3>1. /\ mu = Free /\ closed = FALSE /\ pc' = [pc EXCEPT ![c] = "spawn"]
          /\ UNCHANGED <<closed, eventsClosed, panicked, mon, todo>>
      BY <1>1, <1>b, <2>2 DEF StartLock, StartRefused, Goto
    <3>2. ~Closing
      BY <3>1 DEF SendInv, CloseInv
    <3>3. \A d \in Callers : pc[d] # "spawn"
      BY <3>1 DEF SendInv, SpawnInv
    <3>4. \A q \in Procs : mon[q] # "spawn"
      BY <3>1 DEF SendInv, SpawnInv
    <3>5. SpawnInv'
      BY <1>b, <2>2, <3>1, <3>3, <3>4 DEF SpawnInv
    <3>6. ~Closing' /\ ~Joined'
      BY <1>b, <3>1, <3>2 DEF Closing, Joined
    <3>7. CloseInv'
      BY <1>b, <3>1, <3>6 DEF SendInv, CloseInv, StopPcs
    <3>8. QED
      BY <3>5, <3>7
  <2>3. QED
    BY <1>1, <2>1, <2>2 DEF StartLock
<1>2. ASSUME NEW c \in Callers, StartSpawn(c) PROVE Rest'
  <2>1. pc[c] = "spawn" /\ mu = c /\ mu' = Free /\ UNCHANGED <<closed, eventsClosed>>
    BY <1>2 DEF StartSpawn, SendInv, SpawnInv
  <2>2. pc' = [pc EXCEPT ![c] = "idle"] /\ \A d \in Callers : d # c => todo'[d] = todo[d]
    BY <1>2, <1>b DEF StartSpawn, Return, CallType
  <2>3. ~Closing /\ ~Joined /\ eventsClosed = FALSE
    BY <1>b, <2>1 DEF SendInv, CloseInv, Closing, Joined
  <2>4. panicked' = FALSE
    BY <1>2, <2>3 DEF StartSpawn, SpawnOK, SpawnFail, SendEvent, SendInv, CloseInv
  <2>5. mon' = mon \/ mon' = [mon EXCEPT ![nprocs + 1] = "begin"]
    BY <1>2 DEF StartSpawn, SpawnOK, SpawnFail
  <2>6. \A q \in Procs : mon'[q] # "spawn"
    BY <1>b, <2>1, <2>5 DEF SendInv, SpawnInv
  <2>7. \A d \in Callers : pc'[d] # "spawn"
    BY <1>b, <2>1, <2>2 DEF SendInv, SpawnInv
  <2>8. ~Closing' /\ ~Joined'
    BY <1>b, <2>1, <2>2, <2>3 DEF Closing, Joined
  <2>9. CloseInv'
    BY <1>b, <2>1, <2>2, <2>4, <2>8 DEF SendInv, CloseInv, StopPcs
  <2>10. QED
    BY <2>6, <2>7, <2>9 DEF SpawnInv
<1>3. ASSUME NEW c \in Callers, StopLock(c) PROVE Rest'
  <2>1. /\ mu = Free /\ UNCHANGED <<mu, closed, eventsClosed, panicked, mon>>
        /\ Head(todo[c]) = "close" => pc[c] = "closeStop"
    BY <1>3 DEF StopLock, Called
  <2>2. CASE StopReturn(c, ~closed) /\ Head(todo[c]) # "close"
    BY <2>1, <2>2, StopReturnKeeps
  <2>3. CASE StopReturn(c, ~closed) /\ Head(todo[c]) = "close"
    <3>1. pc' = [pc EXCEPT ![c] = "closeCancel"] /\ \A d \in Callers : d # c => todo'[d] = todo[d]
      BY <1>b, <2>3, StopReturnPc
    <3>2. closed' /\ \A d \in Callers : pc'[d] # "spawn"
      BY <1>b, <2>1, <2>3, <3>1 DEF SendInv, SpawnInv, CloseInv
    <3>3. Joined' => Joined
      BY <1>b, <2>1, <3>1 DEF Joined
    <3>4. SpawnInv'
      BY <2>1, <3>2 DEF SendInv, SpawnInv
    <3>5. CloseInv'
      BY <1>b, <2>1, <3>1, <3>2, <3>3 DEF SendInv, CloseInv, StopPcs
    <3>6. QED
      BY <3>4, <3>5
  <2>4. CASE ~closed /\ UNCHANGED todo /\ Goto(c, IF cmd = 0 THEN "stopCmd" ELSE "stopSignal")
    <3>1. PICK l \in {"stopCmd", "stopSignal"} : pc' = [pc EXCEPT ![c] = l]
      BY <2>4 DEF Goto
    <3>2. Head(todo'[c]) # "close"
      BY <2>1, <2>4 DEF SendInv, CloseInv
    <3>3. l \in CallPcs /\ l \notin {"spawn", "closeStop", "closeCancel", "closeJoin", "closeEvents"}
      BY DEF CallPcs
    <3>4. QED
      BY <2>1, <2>4, <3>1, <3>2, <3>3, CallerKeeps
  <2>5. QED
    BY <1>3, <2>2, <2>3, <2>4 DEF StopLock
<1>4. ASSUME NEW c \in Callers, StopNoCmd(c) PROVE Rest'
  <2>1. Head(todo[c]) # "close"
    BY <1>4 DEF StopNoCmd, SendInv, CloseInv, StopPcs
  <2>2. QED
    BY <1>4, <2>1, StopReturnKeeps DEF StopNoCmd
<1>5. ASSUME NEW c \in Callers, StopExited(c) PROVE Rest'
  <2>1. Head(todo[c]) # "close"
    BY <1>5 DEF StopExited, SendInv, CloseInv, StopPcs
  <2>2. QED
    BY <1>5, <2>1, StopReturnKeeps DEF StopExited
<1>6. ASSUME NEW c \in Callers, StopKillTimeout(c) PROVE Rest'
  <2>1. Head(todo[c]) # "close"
    BY <1>6 DEF StopKillTimeout, SendInv, CloseInv, StopPcs
  <2>2. QED
    BY <1>6, <2>1, StopReturnKeeps DEF StopKillTimeout
<1>7. ASSUME NEW c \in Callers, StopCtxDone(c) PROVE Rest'
  <2>1. Head(todo[c]) # "close"
    BY <1>7 DEF StopCtxDone, SendInv, CloseInv, StopPcs
  <2>2. QED
    BY <1>7, <2>1, StopReturnKeeps DEF StopCtxDone
<1>8. ASSUME NEW c \in Callers, StopSignal(c) PROVE Rest'
  <2>1. pc' = [pc EXCEPT ![c] = "stopWait"] /\ "stopWait" \in CallPcs /\ Head(todo[c]) # "close"
    BY <1>8 DEF StopSignal, Goto, CallPcs, SendInv, CloseInv, StopPcs
  <2>2. QED
    BY <1>8, <2>1, CallerKeeps DEF StopSignal
<1>9. ASSUME NEW c \in Callers, StopTimeout(c) PROVE Rest'
  <2>1. pc' = [pc EXCEPT ![c] = "stopKill"] /\ "stopKill" \in CallPcs /\ Head(todo[c]) # "close"
    BY <1>9 DEF StopTimeout, Goto, CallPcs, SendInv, CloseInv, StopPcs
  <2>2. QED
    BY <1>9, <2>1, CallerKeeps DEF StopTimeout
<1>10. ASSUME NEW c \in Callers, RestartPause(c) PROVE Rest'
  <2>1. PICK l \in {"start", "idle"} : pc' = [pc EXCEPT ![c] = l]
    BY <1>10 DEF RestartPause, Goto, Return
  <2>2. \A d \in Callers : d # c => todo'[d] = todo[d]
    BY <1>10, <1>b DEF RestartPause, Return, CallType
  <2>3. l \in CallPcs /\ l \notin StopPcs
    BY DEF CallPcs, StopPcs
  <2>4. QED
    BY <1>10, <2>1, <2>2, <2>3, CallerKeeps DEF RestartPause
<1>11. ASSUME NEW c \in Callers, WaitBegin(c) PROVE Rest'
  <2>1. pc' = [pc EXCEPT ![c] = "waiting"] /\ "waiting" \in CallPcs /\ "waiting" \notin StopPcs
    BY <1>11 DEF WaitBegin, Goto, CallPcs, StopPcs
  <2>2. QED
    BY <1>11, <2>1, CallerKeeps DEF WaitBegin
<1>12. ASSUME NEW c \in Callers, WaitReturn(c) PROVE Rest'
  <2>1. pc' = [pc EXCEPT ![c] = "idle"] /\ \A d \in Callers : d # c => todo'[d] = todo[d]
    BY <1>12, <1>b DEF WaitReturn, Return, CallType
  <2>2. "idle" \in CallPcs /\ "idle" \notin StopPcs
    BY DEF CallPcs, StopPcs
  <2>3. QED
    BY <1>12, <2>1, <2>2, CallerKeeps DEF WaitReturn
<1>13. ASSUME NEW c \in Callers, CloseBegin(c) PROVE Rest'
  <2>1. PICK l \in {"closeOnce", "closeStop"} : pc' = [pc EXCEPT ![c] = l]
    BY <1>13 DEF CloseBegin, Goto
  <2>2. l \in CallPcs /\ l \notin StopPcs
    BY DEF CallPcs, StopPcs
  <2>3. QED
    BY <1>13, <2>1, <2>2, CallerKeeps DEF CloseBegin
<1>14. ASSUME NEW c \in Callers, CloseCancel(c) PROVE Rest'
  <2>1. /\ pc[c] = "closeCancel" /\ pc' = [pc EXCEPT ![c] = "closeJoin"]
        /\ UNCHANGED <<mu, closed, eventsClosed, panicked, mon, todo>>
    BY <1>14 DEF CloseCancel, Goto
  <2>2. Closing /\ (Joined' => Joined)
    BY <1>b, <2>1 DEF Closing, Joined
  <2>3. QED
    BY <1>b, <2>1, <2>2 DEF SendInv, SpawnInv, CloseInv, StopPcs
<1>15. ASSUME NEW c \in Callers, CloseJoin(c) PROVE Rest'
  <2>1. /\ pc[c] = "closeJoin" /\ pc' = [pc EXCEPT ![c] = "closeEvents"]
        /\ \A q \in Procs : mon[q] \in {"none", "done"}
        /\ UNCHANGED <<mu, closed, eventsClosed, panicked, mon, todo>>
    BY <1>15 DEF CloseJoin, Goto
  <2>2. Closing
    BY <2>1 DEF Closing
  <2>3. QED
    BY <1>b, <2>1, <2>2 DEF SendInv, SpawnInv, CloseInv, StopPcs
<1>16. ASSUME NEW c \in Callers, CloseEvents(c) PROVE Rest'
  <2>1. /\ pc[c] = "closeEvents" /\ pc' = [pc EXCEPT ![c] = "idle"]
        /\ \A d \in Callers : d # c => todo'[d] = todo[d]
        /\ UNCHANGED <<mu, closed, panicked, mon>>
    BY <1>16, <1>b DEF CloseEvents, Return, CallType
  <2>2. Closing /\ Joined
    BY <2>1 DEF Closing, Joined
  <2>3. QED
    BY <1>b, <2>1, <2>2 DEF SendInv, SpawnInv, CloseInv, StopPcs
<1>17. ASSUME NEW c \in Callers, CloseOnce(c) PROVE Rest'
  <2>1. pc' = [pc EXCEPT ![c] = "idle"] /\ \A d \in Callers : d # c => todo'[d] = todo[d]
    BY <1>17, <1>b DEF CloseOnce, Return, CallType
  <2>2. "idle" \in CallPcs /\ "idle" \notin StopPcs
    BY DEF CallPcs, StopPcs
  <2>3. QED
    BY <1>17, <2>1, <2>2, CallerKeeps DEF CloseOnce
<1>18. ASSUME NEW p \in Procs, MonitorBegin(p) PROVE Rest'
  <2>1. PICK l \in {"done", "wait"} : mon' = [mon EXCEPT ![p] = l]
    BY <1>18 DEF MonitorBegin
  <2>2. l \in MonPcs /\ mon[p] \notin {"none", "done"}
    BY <1>18 DEF MonitorBegin, Unexpected, MonPcs
  <2>3. QED
    BY <1>18, <2>1, <2>2, MonitorKeeps DEF MonitorBegin
<1>19. ASSUME NEW p \in Procs, MonitorExited(p) PROVE Rest'
  <2>1. PICK l \in {"exited"} : mon' = [mon EXCEPT ![p] = l]
    BY <1>19 DEF MonitorExited
  <2>2. l \in MonPcs /\ mon[p] \notin {"none", "done"}
    BY <1>19 DEF MonitorExited, Unexpected, MonPcs
  <2>3. QED
    BY <1>19, <2>1, <2>2, MonitorKeeps DEF MonitorExited
<1>20. ASSUME NEW p \in Procs, MonitorNotify(p) PROVE Rest'
  <2>1. PICK l \in {"notified"} : mon' = [mon EXCEPT ![p] = l]
    BY <1>20 DEF MonitorNotify
  <2>2. l \in MonPcs /\ mon[p] \notin {"none", "done"}
    BY <1>20 DEF MonitorNotify, Unexpected, MonPcs
  <2>3. QED
    BY <1>20, <2>1, <2>2, MonitorKeeps DEF MonitorNotify
<1>21. ASSUME NEW p \in Procs, MonitorStopped(p) PROVE Rest'
  <2>1. PICK l \in {"done"} : mon' = [mon EXCEPT ![p] = l]
    BY <1>21 DEF MonitorStopped, MonDone
  <2>2. l \in MonPcs /\ mon[p] \notin {"none", "done"}
    BY <1>21 DEF MonitorStopped, Unexpected, MonPcs
  <2>3. QED
    BY <1>21, <2>1, <2>2, MonitorKeeps DEF MonitorStopped
<1>22. ASSUME NEW p \in Procs, MonitorNoRestart(p) PROVE Rest'
  <2>1. PICK l \in {"done"} : mon' = [mon EXCEPT ![p] = l]
    BY <1>22 DEF MonitorNoRestart, MonGoto
  <2>2. l \in MonPcs /\ mon[p] \notin {"none", "done"}
    BY <1>22 DEF MonitorNoRestart, Unexpected, MonPcs
  <2>3. QED
    BY <1>22, <2>1, <2>2, MonitorKeeps DEF MonitorNoRestart
<1>23. ASSUME NEW p \in Procs, MonitorGivesUp(p) PROVE Rest'
  <2>1. PICK l \in {"done"} : mon' = [mon EXCEPT ![p] = l]
    BY <1>23 DEF MonitorGivesUp, MonGoto
  <2>2. l \in MonPcs /\ mon[p] \notin {"none", "done"}
    BY <1>23 DEF MonitorGivesUp, Unexpected, MonPcs
  <2>3. QED
    BY <1>23, <2>1, <2>2, MonitorKeeps DEF MonitorGivesUp
<1>24. ASSUME NEW p \in Procs, MonitorSchedules(p) PROVE Rest'
  <2>1. PICK l \in {"delay"} : mon' = [mon EXCEPT ![p] = l]
    BY <1>24 DEF MonitorSchedules, MonGoto
  <2>2. l \in MonPcs /\ mon[p] \notin {"none", "done"}
    BY <1>24 DEF MonitorSchedules, Unexpected, MonPcs
  <2>3. QED
    BY <1>24, <2>1, <2>2, MonitorKeeps DEF MonitorSchedules
<1>25. ASSUME NEW p \in Procs, MonitorCancelled(p) PROVE Rest'
  <2>1. PICK l \in {"done"} : mon' = [mon EXCEPT ![p] = l]
    BY <1>25 DEF MonitorCancelled, MonGoto
  <2>2. l \in MonPcs /\ mon[p] \notin {"none", "done"}
    BY <1>25 DEF MonitorCancelled, Unexpected, MonPcs
  <2>3. QED
    BY <1>25, <2>1, <2>2, MonitorKeeps DEF MonitorCancelled
<1>26. ASSUME NEW p \in Procs, MonitorLock(p) PROVE Rest'
  <2>1. PICK l \in {"done", "spawn"} : mon' = [mon EXCEPT ![p] = l] /\ (l = "spawn" => mu' = p)
    BY <1>26 DEF MonitorLock, MonGoto
  <2>2. l \in MonPcs /\ mon[p] \notin {"none", "done"}
    BY <1>26 DEF MonitorLock, MonPcs
  <2>3. QED
    BY <1>26, <2>1, <2>2, MonitorKeeps DEF MonitorLock
<1>27. ASSUME NEW p \in Procs, MonitorSpawn(p) PROVE Rest'
  <2>1. mon[p] = "spawn" /\ mu = p /\ mu' = Free /\ UNCHANGED <<closed, eventsClosed, pc, todo>>
    BY <1>27 DEF MonitorSpawn, SendInv, SpawnInv
  <2>2. ~Joined /\ eventsClosed = FALSE
    BY <1>b, <2>1 DEF SendInv, CloseInv, Joined
  <2>3. panicked' = FALSE
    BY <1>27, <2>2 DEF MonitorSpawn, SpawnOK, SpawnFail, SendEvent, SendInv, CloseInv
  <2>4. \/ mon' = [mon EXCEPT ![p] = "restartFailed"]
        \/ mon' = [MonDone(p) EXCEPT ![nprocs + 1] = "begin"]
    BY <1>27 DEF MonitorSpawn, SpawnOK, SpawnFail
  <2>5. \A q \in Procs : mon'[q] # "spawn"
    BY <1>b, <2>1, <2>4 DEF MonDone, SendInv, SpawnInv
  <2>6. \A d \in Callers : pc'[d] # "spawn"
    BY <2>1 DEF SendInv, SpawnInv
  <2>7. CloseInv'
    BY <2>1, <2>2, <2>3, <2>6 DEF SendInv, CloseInv, Closing, Joined
  <2>8. QED
    BY <2>5, <2>6, <2>7 DEF SpawnInv
<1>28. ASSUME NEW p \in Procs, MonitorRestartFailed(p) PROVE Rest'
  <2>1. PICK l \in {"done"} : mon' = [mon EXCEPT ![p] = l]
    BY <1>28 DEF MonitorRestartFailed, MonGoto
  <2>2. l \in MonPcs /\ mon[p] \notin {"none", "done"}
    BY <1>28 DEF MonitorRestartFailed, Unexpected, MonPcs
  <2>3. QED
    BY <1>28, <2>1, <2>2, MonitorKeeps DEF MonitorRestartFailed
<1>29. ASSUME NEW p \in Procs, ProcessExit(p) PROVE Rest'
  BY <1>29 DEF ProcessExit, SendInv, SpawnInv, CloseInv, Closing, Joined
<1>30. ASSUME UNCHANGED vars PROVE Rest'
  BY <1>30 DEF vars, SendInv, SpawnInv, CloseInv, Closing, Joined
<1>31. Rest'
  BY <1>1, <1>2, <1>3, <1>4, <1>5, <1>6, <1>7, <1>8, <1>9, <1>10, <1>11, <1>12, <1>13, <1>14, <1>15, <1>16, <1>17, <1>18, <1>19, <1>20, <1>21, <1>22, <1>23, <1>24, <1>25, <1>26, <1>27, <1>28, <1>29, <1>30
     DEF Next, Caller, Start, Stop, Restart, Wait, Close, Monitor
<1>32. QED
  BY <1>a, <1>31 DEF SendInv

(* Whatever goroutines call Start, Stop, Restart and Close at once, none   *)
(* sends an event after Close has closed the channel.                      *)
THEOREM NeverSendsAfterClose == Spec => []NoSendAfterClose
<1>1. SendInv => NoSendAfterClose
  BY DEF SendInv, CloseInv, NoSendAfterClose
<1>2. QED
  BY <1>1, SendInit, SendStep, PTL DEF Spec
-----------------------------------------------------------------------------
(* Why a manager that was started once has one process, and watches it.    *)
(* One monitor is at work at a time, and a process lives only while its    *)
(* monitor has not gone past its exit: so whoever spawns the next one      *)
(* finds no other.  The first process is never an automatic one, hence     *)
(* started once means that a second process is one that a monitor spawned. *)
Active == {p \in Procs : mon[p] \notin {"none", "done"}}

FirstInv == 1 \notin auto /\ (nprocs = 0 => Active = {})

Sole ==
  /\ \A p, q \in Active : p = q
  /\ \A p \in Live : p = nprocs /\ ~exitSent[p] /\ mon[p] \in {"begin", "wait"}
  /\ \A p \in Procs : (mon[p] = "begin" => cmd = p) /\ (mon[p] = "wait" => mcmd[p] = p)

WatchInv == FirstInv /\ (StartedOnce => Sole)

LEMMA AtMostOne ==
  ASSUME NEW S, IsFiniteSet(S)
  PROVE  Cardinality(S) <= 1 <=> \A x, y \in S : x = y
<1>1. ASSUME Cardinality(S) <= 1, NEW x \in S, NEW y \in S, x # y PROVE FALSE
  <2>1. /\ IsFiniteSet(S \ {x}) /\ Cardinality(S \ {x}) = Cardinality(S) - 1
        /\ Cardinality(S) \in Nat /\ Cardinality(S \ {x}) \in Nat
    BY <1>1, FS_RemoveElement, FS_CardinalityType
  <2>2. Cardinality(S \ {x}) = 0
    BY <1>1, <2>1
  <2>3. S \ {x} = {}
    BY <2>1, <2>2, FS_EmptySet
  <2>4. QED
    BY <1>1, <2>3
<1>2. ASSUME \A x, y \in S : x = y PROVE Cardinality(S) <= 1
  <2>1. CASE S = {}
    BY <2>1, FS_EmptySet
  <2>2. ASSUME NEW x \in S PROVE Cardinality(S) <= 1
    <3>1. S = {x}
      BY <1>2
    <3>2. QED
      BY <3>1, FS_Singleton
  <2>3. QED
    BY <2>1, <2>2
<1>3. QED
  BY <1>1, <1>2

LEMMA SpawnedFinite == ProcType => IsFiniteSet(Spawned) /\ IsFiniteSet(auto)
<1> SUFFICES ASSUME ProcType PROVE IsFiniteSet(Spawned) /\ IsFiniteSet(auto)
  OBVIOUS
<1>1. IsFiniteSet(Spawned)
  BY FS_Interval, ManagerAssumption DEF ProcType, Spawned
<1>2. QED
  BY <1>1, FS_Subset DEF ProcType

(* Steps that spawn nothing and move no monitor.                           *)
LEMMA QuietWatch ==
  ASSUME TypeInv, WatchInv, UNCHANGED <<nprocs, auto, cmd, mon, mcmd>>, Live' \subseteq Live,
         \A ch \in 0..MaxProcs : exitSent'[ch] => exitSent[ch]
  PROVE  WatchInv'
<1>1. FirstInv' /\ (StartedOnce' => StartedOnce) /\ Active' = Active
  BY DEF WatchInv, FirstInv, Active, StartedOnce, Spawned
<1>2. ASSUME Sole PROVE Sole'
  <2>1. \A p \in Live : p \in 0..MaxProcs
    BY ManagerAssumption DEF Live, Procs
  <2>2. QED
    BY <1>1, <1>2, <2>1 DEF Sole
<1>3. QED
  BY <1>1, <1>2 DEF WatchInv

(* A monitor past the exit of its process goes on: nothing lives.          *)
LEMMA MonitorWatch ==
  ASSUME TypeInv, WatchInv, NEW p \in Procs, mon[p] \notin {"none", "done", "begin", "wait"},
         NEW l \in MonPcs, l \notin {"none", "begin", "wait"}, mon' = [mon EXCEPT ![p] = l],
         UNCHANGED <<nprocs, auto, cmd, proc, mcmd>>
  PROVE  WatchInv'
<1>1. mon \in [Procs -> MonPcs] /\ p \in Active
  BY DEF TypeInv, MonType, Active
<1>2. Active' \subseteq Active /\ Live' = Live
  BY <1>1 DEF Active, Live
<1>3. FirstInv' /\ (StartedOnce' => StartedOnce)
  BY <1>1, <1>2 DEF WatchInv, FirstInv, StartedOnce, Spawned
<1>4. ASSUME Sole PROVE Sole'
  <2>1. Live = {}
    BY <1>1, <1>4 DEF Sole, Active, Live
  <2>2. QED
    BY <1>1, <1>2, <1>4, <2>1 DEF Sole
<1>5. QED
  BY <1>3, <1>4 DEF WatchInv

LEMMA BeginWatch ==
  ASSUME TypeInv, WatchInv, NEW p \in Procs, MonitorBegin(p) PROVE WatchInv'
<1> USE DEF MonitorBegin, mgrVars, procVars, callVars
<1>1. mon \in [Procs -> MonPcs] /\ mcmd \in [Procs -> 0..MaxProcs] /\ p \in Active
  BY DEF TypeInv, MonType, Active
<1>2. Active' \subseteq Active /\ Live' = Live
  BY <1>1 DEF Active, Live
<1>3. FirstInv' /\ (StartedOnce' => StartedOnce)
  BY <1>1, <1>2 DEF WatchInv, FirstInv, StartedOnce, Spawned
<1>4. ASSUME Sole PROVE Sole'
  <2>1. cmd = p /\ p # 0
    BY <1>4, ManagerAssumption DEF Sole, Procs
  <2>2. mon' = [mon EXCEPT ![p] = "wait"] /\ mcmd' = [mcmd EXCEPT ![p] = p]
    BY <2>1
  <2>3. \A q \in Live : q = p
    BY <1>1, <1>4 DEF Sole, Active, Live
  <2>4. \A q \in Procs : (mon'[q] = "begin" => cmd' = q) /\ (mon'[q] = "wait" => mcmd'[q] = q)
    BY <1>1, <1>4, <2>2 DEF Sole
  <2>5. \A q \in Live' : q = nprocs' /\ ~exitSent'[q] /\ mon'[q] \in {"begin", "wait"}
    BY <1>1, <1>2, <1>4, <2>2, <2>3 DEF Sole
  <2>6. QED
    BY <1>2, <1>4, <2>4, <2>5 DEF Sole
<1>5. QED
  BY <1>3, <1>4 DEF WatchInv

LEMMA ExitedWatch ==
  ASSUME TypeInv, WatchInv, NEW p \in Procs, MonitorExited(p) PROVE WatchInv'
<1> USE DEF MonitorExited, mgrVars, callVars
<1>1. mon \in [Procs -> MonPcs] /\ p \in Active
  BY DEF TypeInv, MonType, Active
<1>2. Active' \subseteq Active /\ Live' = Live
  BY <1>1 DEF Active, Live
<1>3. FirstInv' /\ (StartedOnce' => StartedOnce)
  BY <1>1, <1>2 DEF WatchInv, FirstInv, StartedOnce, Spawned
<1>4. ASSUME Sole PROVE Sole'
  <2>1. p \notin Live
    BY <1>4 DEF Sole, Live
  <2>2. Live = {}
    BY <1>1, <1>4, <2>1 DEF Sole, Active, Live
  <2>3. \A q \in Procs : mon'[q] \notin {"begin", "wait"}
    BY <1>1, <1>4 DEF Sole, Active
  <2>4. QED
    BY <1>2, <1>4, <2>2, <2>3 DEF Sole
<1>5. QED
  BY <1>3, <1>4 DEF WatchInv

(* The new process is alone if nothing lived and whoever spawned it, if it *)
(* is a monitor, is done.                                                  *)
LEMMA SpawnWatch ==
  ASSUME TypeInv, NEW m \in [Procs -> MonPcs], SpawnOK(m), Live = {}, ~exitSent[nprocs + 1],
         \A p \in Procs : m[p] \in {"none", "done"}
  PROVE  Sole' /\ Active' = {nprocs + 1}
<1> USE ManagerAssumption DEF SpawnOK, Procs
<1>1. /\ nprocs \in Nat /\ nprocs + 1 \in Procs /\ nprocs + 1 \in 0..MaxProcs
      /\ exitSent \in [0..MaxProcs -> BOOLEAN] /\ waitCh = nprocs /\ proc \in [Procs -> {"none", "live", "exited"}]
  BY DEF TypeInv, ProcType
<1>2. \A p \in Procs : mon'[p] = IF p = nprocs + 1 THEN "begin" ELSE m[p]
  BY <1>1
<1>3. Active' = {nprocs + 1}
  BY <1>1, <1>2 DEF Active
<1>4. Live' \subseteq {nprocs + 1}
  BY <1>1 DEF Live
<1>5. ~exitSent'[nprocs + 1]
  BY <1>1
<1>6. mon'[nprocs + 1] = "begin" /\ \A p \in Procs : mon'[p] # "wait"
  BY <1>1, <1>2
<1>7. QED
  BY <1>2, <1>3, <1>4, <1>5, <1>6 DEF Sole

-----------------------------------------------------------------------------
(* What the steps of callers and of monitors leave alone.                  *)
LEMMA CallerSteps ==
  ASSUME TypeInv, NEW c \in Callers, Caller(c), ~StartSpawn(c)
  PROVE  /\ UNCHANGED <<nprocs, auto, cmd, waitCh, mon, mcmd, proc, restartCount>>
         /\ \A ch \in 0..MaxProcs : exitSent'[ch] => exitSent[ch]
<1> USE DEF mgrVars, procVars, monVars
<1>1. CASE StartLock(c)
  BY <1>1 DEF StartLock
<1>2. CASE StopLock(c) \/ StopNoCmd(c) \/ StopSignal(c)
  BY <1>2 DEF StopLock, StopNoCmd, StopSignal
<1>3. CASE StopExited(c)
  BY <1>3 DEF StopExited, TypeInv, ProcType
<1>4. CASE StopTimeout(c) \/ StopKillTimeout(c) \/ StopCtxDone(c)
  BY <1>4 DEF StopTimeout, StopKillTimeout, StopCtxDone
<1>5. CASE Restart(c) \/ Wait(c)
  BY <1>5 DEF Restart, RestartPause, Wait, WaitBegin, WaitReturn
<1>6. CASE Close(c)
  BY <1>6 DEF Close, CloseBegin, CloseCancel, CloseJoin, CloseEvents, CloseOnce
<1>7. QED
  BY <1>1, <1>2, <1>3, <1>4, <1>5, <1>6 DEF Caller, Start, Stop

Restarts(p) == MonitorSpawn(p) /\ SpawnOK(MonDone(p))

LEMMA MonitorSteps ==
  ASSUME NEW p \in Procs, Monitor(p), ~MonitorBegin(p), ~MonitorExited(p), ~Restarts(p)
  PROVE  /\ mon[p] \in MonPcs \ {"none", "begin", "wait", "done"}
         /\ \/ mon' = [mon EXCEPT ![p] = "notified"] \/ mon' = [mon EXCEPT ![p] = "done"]
            \/ mon' = [mon EXCEPT ![p] = "restartFailed"]
            \/ mon' = [mon EXCEPT ![p] = "delay"] /\ MonitorSchedules(p)
            \/ mon' = [mon EXCEPT ![p] = "spawn"] /\ mon[p] = "delay"
         /\ UNCHANGED <<nprocs, auto, cmd, waitCh, proc, mcmd>>
         /\ MonitorNotify(p) \/ UNCHANGED exitSent
<1> USE DEF procVars, MonDone, MonGoto, MonPcs, Unexpected
<1>1. CASE MonitorNotify(p)
  BY <1>1 DEF MonitorNotify
<1>2. CASE MonitorStopped(p)
  BY <1>2 DEF MonitorStopped
<1>3. CASE MonitorNoRestart(p)
  BY <1>3 DEF MonitorNoRestart
<1>4. CASE MonitorGivesUp(p)
  BY <1>4 DEF MonitorGivesUp
<1>5. CASE MonitorSchedules(p)
  BY <1>5 DEF MonitorSchedules
<1>6. CASE MonitorCancelled(p)
  BY <1>6 DEF MonitorCancelled
<1>7. CASE MonitorLock(p)
  BY <1>7 DEF MonitorLock
<1>8. CASE MonitorSpawn(p)
  <2>1. SpawnFail([mon EXCEPT ![p] = "restartFailed"]) /\ UNCHANGED auto /\ mon[p] = "spawn" /\ UNCHANGED mcmd
    BY <1>8 DEF MonitorSpawn, Restarts
  <2>2. QED
    BY <2>1 DEF SpawnFail
<1>9. CASE MonitorRestartFailed(p)
  BY <1>9 DEF MonitorRestartFailed
<1>10. QED
  BY <1>1, <1>2, <1>3, <1>4, <1>5, <1>6, <1>7, <1>8, <1>9 DEF Monitor

(* What Stop waits for: the channel of the process it stops, or of a later *)
(* one; nothing was sent on a channel that was not made yet.               *)
TargetInv ==
  /\ \A ch \in 0..MaxProcs : ch > nprocs => ~exitSent[ch]
  /\ \A c \in Callers : scmd[c] <= nprocs
  /\ \A c \in Callers : pc[c] \in {"stopWait", "stopKill"} => scmd[c] <= sch[c]

LEMMA ReturnTarget ==
  ASSUME TypeInv, TargetInv, NEW c \in Callers, NEW ok, Return(c) \/ StopReturn(c, ok),
         nprocs' \in Nat, nprocs <= nprocs'
  PROVE  /\ \A d \in Callers : scmd'[d] <= nprocs'
         /\ \A d \in Callers : pc'[d] \in {"stopWait", "stopKill"} => scmd'[d] <= sch'[d]
<1>1. /\ pc \in [Callers -> CallPcs] /\ scmd \in [Callers -> 0..MaxProcs] /\ sch \in [Callers -> 0..MaxProcs]
      /\ nprocs \in Nat
  BY ManagerAssumption DEF TypeInv, CallType, ProcType
<1>2. \A d \in Callers : scmd'[d] = scmd[d] \/ scmd'[d] = 0
  BY <1>1 DEF Return, StopReturn, Goto
<1>3. \A d \in Callers : pc'[d] \in {"stopWait", "stopKill"} =>
        scmd'[d] = scmd[d] /\ sch'[d] = sch[d] /\ pc'[d] = pc[d]
  BY <1>1 DEF Return, StopReturn, Goto
<1>4. ASSUME NEW d \in Callers PROVE scmd'[d] <= nprocs'
  <2>1. scmd[d] \in Nat /\ scmd[d] <= nprocs
    BY <1>1, ManagerAssumption DEF TargetInv
  <2>2. QED
    BY <1>1, <1>2, <2>1
<1>5. QED
  BY <1>3, <1>4 DEF TargetInv

LEMMA CallerTarget ==
  ASSUME TypeInv, TargetInv, NEW c \in Callers, Caller(c), ~StartSpawn(c) PROVE TargetInv'
<1> USE ManagerAssumption DEF mgrVars, procVars, monVars
<1>1. UNCHANGED <<nprocs, waitCh>> /\ \A ch \in 0..MaxProcs : exitSent'[ch] => exitSent[ch]
  BY CallerSteps
<1>2. /\ pc \in [Callers -> CallPcs] /\ scmd \in [Callers -> 0..MaxProcs] /\ sch \in [Callers -> 0..MaxProcs]
      /\ nprocs \in Nat /\ cmd \in 0..nprocs /\ waitCh = nprocs
  BY DEF TypeInv, CallType, ProcType
<1> DEFINE Aims == /\ \A d \in Callers : scmd'[d] <= nprocs'
                   /\ \A d \in Callers : pc'[d] \in {"stopWait", "stopKill"} => scmd'[d] <= sch'[d]
<1>3. Aims
  <2>1. ASSUME NEW ok, Return(c) \/ StopReturn(c, ok) PROVE Aims
    <3>1. nprocs' \in Nat /\ nprocs <= nprocs'
      BY <1>1, <1>2
    <3>2. QED
      BY <2>1, <3>1, ReturnTarget
  <2>2. CASE StopSignal(c)
    BY <1>1, <1>2, <2>2 DEF StopSignal, Goto, TargetInv
  <2>3. CASE StopTimeout(c)
    BY <1>1, <1>2, <2>3 DEF StopTimeout, Goto, TargetInv
  <2>4. ASSUME NEW l \in {"stopCmd", "stopSignal"}, Goto(c, l), UNCHANGED sch, scmd' = [scmd EXCEPT ![c] = cmd]
        PROVE  Aims
    BY <1>1, <1>2, <2>4 DEF Goto, TargetInv
  <2>5. ASSUME NEW l, l \notin {"stopWait", "stopKill"}, Goto(c, l), UNCHANGED <<scmd, sch>> PROVE Aims
    <3>1. \A d \in Callers : pc'[d] \in {"stopWait", "stopKill"} => d # c /\ pc'[d] = pc[d]
      BY <1>2, <2>5 DEF Goto
    <3>2. QED
      BY <1>1, <1>2, <2>5, <3>1 DEF TargetInv
  <2>. HIDE DEF Aims
  <2>6. CASE Start(c)
    BY <2>1, <2>5, <2>6 DEF Start, StartLock
  <2>7. CASE StopLock(c)
    BY <2>1, <2>4, <2>7 DEF StopLock
  <2>8. CASE StopNoCmd(c) \/ StopExited(c) \/ StopKillTimeout(c) \/ StopCtxDone(c)
    BY <2>1, <2>8 DEF StopNoCmd, StopExited, StopKillTimeout, StopCtxDone
  <2>9. CASE Restart(c) \/ WaitReturn(c)
    BY <2>1, <2>5, <2>9 DEF Restart, RestartPause, WaitReturn
  <2>10. CASE Close(c)
    BY <2>1, <2>5, <2>10 DEF Close, CloseBegin, CloseCancel, CloseJoin, CloseEvents, CloseOnce
  <2>11. CASE WaitBegin(c)
    <3>. USE DEF Aims
    <3>. QED BY <1>1, <1>2, <2>11 DEF WaitBegin, Goto, TargetInv
  <2>12. QED
    BY <2>2, <2>3, <2>6, <2>7, <2>8, <2>9, <2>10, <2>11 DEF Caller, Stop, Wait
<1>4. QED
  BY <1>1, <1>3 DEF TargetInv
(* A spawn makes a channel that nothing was sent on.                       *)
LEMMA SpawnTarget ==
  ASSUME TypeInv, TargetInv, NEW m, SpawnOK(m) PROVE \A ch \in 0..MaxProcs : ch > nprocs' => ~exitSent'[ch]
<1>1. nprocs \in Nat /\ nprocs' = nprocs + 1 /\ exitSent \in [0..MaxProcs -> BOOLEAN]
  BY ManagerAssumption DEF TypeInv, ProcType, SpawnOK
<1>2. \A ch \in 0..MaxProcs : exitSent'[ch] => exitSent[ch]
  BY <1>1 DEF SpawnOK
<1>3. QED
  BY <1>1, <1>2 DEF TargetInv

LEMMA TargetStep == TypeInv /\ TargetInv /\ [Next]_vars => TargetInv'
<1> SUFFICES ASSUME TypeInv, TargetInv, [Next]_vars PROVE TargetInv'
  OBVIOUS
<1> USE ManagerAssumption
<1>1. /\ nprocs \in Nat /\ exitSent \in [0..MaxProcs -> BOOLEAN] /\ waitCh = nprocs
      /\ mch \in [Procs -> 0..MaxProcs] /\ scmd \in [Callers -> 0..MaxProcs]
  BY DEF TypeInv, ProcType, MonType, CallType
<1>2. ASSUME NEW c \in Callers, StartSpawn(c) PROVE TargetInv'
  <2>1. nprocs' \in Nat /\ nprocs <= nprocs' /\ Return(c)
    BY <1>1, <1>2 DEF StartSpawn, SpawnOK, SpawnFail
  <2>2. /\ \A d \in Callers : scmd'[d] <= nprocs'
        /\ \A d \in Callers : pc'[d] \in {"stopWait", "stopKill"} => scmd'[d] <= sch'[d]
    BY <2>1, ReturnTarget
  <2>3. \A ch \in 0..MaxProcs : ch > nprocs' => ~exitSent'[ch]
    <3>1. CASE SpawnOK(mon)
      BY <3>1, SpawnTarget
    <3>2. CASE SpawnFail(mon)
      BY <3>2 DEF SpawnFail, TargetInv
    <3>3. QED
      BY <1>2, <3>1, <3>2 DEF StartSpawn
  <2>4. QED
    BY <2>2, <2>3 DEF TargetInv
<1>3. ASSUME NEW p \in Procs, Monitor(p) PROVE TargetInv'
  <2>1. UNCHANGED callVars
    BY <1>3 DEF Monitor, MonitorBegin, MonitorExited, MonitorNotify, MonitorStopped, MonitorNoRestart,
                MonitorGivesUp, MonitorSchedules, MonitorCancelled, MonitorLock, MonitorSpawn, MonitorRestartFailed
  <2>2. CASE Restarts(p)
    <3>1. nprocs' = nprocs + 1
      BY <2>2 DEF Restarts, SpawnOK
    <3>2. \A ch \in 0..MaxProcs : ch > nprocs' => ~exitSent'[ch]
      BY <2>2, SpawnTarget DEF Restarts
    <3>3. \A d \in Callers : scmd[d] \in Nat /\ scmd[d] <= nprocs
      BY <1>1 DEF TargetInv
    <3>4. \A d \in Callers : scmd[d] <= nprocs'
      BY <1>1, <3>1, <3>3
    <3>5. QED
      BY <2>1, <3>2, <3>4 DEF TargetInv, callVars
  <2>3. CASE MonitorNotify(p)
    <3>0. PICK sent \in mch[p]..waitCh : exitSent' = [exitSent EXCEPT ![sent] = TRUE]
      BY <2>3 DEF MonitorNotify
    <3>1. \A ch \in 0..MaxProcs : ch > nprocs => exitSent'[ch] = exitSent[ch]
      <4>1. mch[p] \in Nat /\ sent <= nprocs
        BY <1>1, <3>0
      <4>2. \A ch \in 0..MaxProcs : ch > nprocs => ch # sent
        BY <1>1, <4>1
      <4>3. QED
        BY <1>1, <3>0, <4>2
    <3>2. QED
      BY <2>1, <2>3, <3>1 DEF MonitorNotify, TargetInv, callVars
  <2>4. CASE MonitorBegin(p) \/ MonitorExited(p)
    BY <2>1, <2>4 DEF MonitorBegin, MonitorExited, TargetInv, callVars, procVars
  <2>5. CASE UNCHANGED <<nprocs, exitSent>>
    BY <2>1, <2>5 DEF TargetInv, callVars
  <2>6. QED
    BY <1>3, <2>2, <2>3, <2>4, <2>5, MonitorSteps
<1>4. ASSUME NEW p \in Procs, ProcessExit(p) PROVE TargetInv'
  BY <1>4 DEF ProcessExit, TargetInv, callVars
<1>5. CASE UNCHANGED vars
  BY <1>5 DEF vars, procVars, callVars, TargetInv
<1>6. QED
  BY <1>2, <1>3, <1>4, <1>5, CallerTarget DEF Next

LEMMA WatchStep == TypeInv /\ TargetInv /\ WatchInv /\ [Next]_vars => WatchInv'
<1> SUFFICES ASSUME TypeInv, TargetInv, WatchInv, [Next]_vars PROVE WatchInv'
  OBVIOUS
<1> USE ManagerAssumption
<1>1. /\ nprocs \in Nat /\ auto \subseteq Spawned /\ Live \subseteq Spawned
      /\ mon \in [Procs -> MonPcs] /\ ProcType
  BY DEF TypeInv, ProcType, MonType
<1>2. ASSUME NEW c \in Callers, Caller(c), ~StartSpawn(c) PROVE WatchInv'
  BY <1>2, CallerSteps, QuietWatch DEF Live
<1>3. ASSUME NEW c \in Callers, StartSpawn(c) PROVE WatchInv'
  <2>1. CASE SpawnFail(mon)
    BY <1>3, <2>1, QuietWatch DEF StartSpawn, SpawnFail, Live
  <2>2. CASE SpawnOK(mon)
    <3>1. /\ nprocs < MaxProcs /\ nprocs' = nprocs + 1 /\ UNCHANGED auto
          /\ mon' = [mon EXCEPT ![nprocs + 1] = "begin"]
      BY <1>3, <2>2 DEF StartSpawn, SpawnOK
    <3>2. nprocs + 1 \in Spawned' \ auto'
      BY <1>1, <3>1 DEF Spawned
    <3>3. FirstInv'
      BY <1>1, <3>1 DEF WatchInv, FirstInv
    <3>4. ASSUME StartedOnce' PROVE Sole'
      <4>1. IsFiniteSet(Spawned' \ auto')
        <5>1. ProcType'
          BY TypeStep DEF TypeInv
        <5>2. IsFiniteSet(Spawned')
          BY <1>1, <3>1, FS_Interval DEF Spawned
        <5>3. QED
          BY <5>2, FS_Subset
      <4>2. \A x, y \in Spawned' \ auto' : x = y
        BY <3>4, <4>1, AtMostOne DEF StartedOnce
      <4>3. nprocs = 0
        <5>1. 1 \notin auto' /\ (nprocs # 0 => 1 \in Spawned')
          BY <1>1, <3>1 DEF WatchInv, FirstInv, Spawned
        <5>2. QED
          BY <1>1, <3>2, <4>2, <5>1
      <4>4. Live = {} /\ Active = {} /\ ~exitSent[nprocs + 1]
        BY <1>1, <3>1, <4>3 DEF WatchInv, FirstInv, Spawned, TargetInv
      <4>5. QED
        BY <1>1, <2>2, <4>4, SpawnWatch DEF Active
    <3>5. QED
      BY <3>3, <3>4 DEF WatchInv
  <2>3. QED
    BY <1>3, <2>1, <2>2 DEF StartSpawn
<1>4. ASSUME NEW p \in Procs, Restarts(p) PROVE WatchInv'
  <2>1. /\ nprocs < MaxProcs /\ nprocs' = nprocs + 1 /\ auto' = auto \cup {nprocs + 1}
        /\ mon[p] = "spawn" /\ SpawnOK(MonDone(p))
    BY <1>4 DEF Restarts, MonitorSpawn, SpawnOK, SpawnFail
  <2>2. p \in Active /\ nprocs # 0
    BY <2>1 DEF Active, WatchInv, FirstInv
  <2>3. FirstInv'
    BY <1>1, <2>1, <2>2 DEF WatchInv, FirstInv
  <2>4. Spawned' \ auto' = Spawned \ auto
    BY <1>1, <2>1 DEF Spawned
  <2>5. ASSUME Sole PROVE Sole'
    <3>1. MonDone(p) \in [Procs -> MonPcs] /\ \A q \in Procs : MonDone(p)[q] \in {"none", "done"}
      BY <1>1, <2>2, <2>5 DEF MonDone, MonPcs, Sole, Active
    <3>2. Live = {} /\ ~exitSent[nprocs + 1]
      BY <1>1, <2>1, <2>2, <2>5 DEF Sole, Active, Live, TargetInv
    <3>3. QED
      BY <2>1, <3>1, <3>2, SpawnWatch
  <2>6. QED
    BY <2>3, <2>4, <2>5 DEF WatchInv, StartedOnce
<1>5. ASSUME NEW p \in Procs, Monitor(p), ~Restarts(p) PROVE WatchInv'
  <2>1. CASE MonitorBegin(p) \/ MonitorExited(p)
    BY <2>1, BeginWatch, ExitedWatch
  <2>2. CASE ~MonitorBegin(p) /\ ~MonitorExited(p)
    <3>1. PICK l \in {"notified", "done", "restartFailed", "delay", "spawn"} : mon' = [mon EXCEPT ![p] = l]
      BY <1>5, <2>2, MonitorSteps
    <3>2. l \in MonPcs
      BY DEF MonPcs
    <3>3. mon[p] \notin {"none", "begin", "wait", "done"} /\ UNCHANGED <<nprocs, auto, cmd, proc, mcmd>>
      BY <1>5, <2>2, MonitorSteps
    <3>4. QED
      BY <3>1, <3>2, <3>3, MonitorWatch
  <2>3. QED
    BY <2>1, <2>2
<1>6. ASSUME NEW p \in Procs, ProcessExit(p) PROVE WatchInv'
  <2>1. Live' \subseteq Live
    BY <1>6 DEF ProcessExit, Live, TypeInv, ProcType
  <2>2. QED
    BY <1>6, <2>1, QuietWatch DEF ProcessExit, monVars
<1>7. CASE UNCHANGED vars
  BY <1>7, QuietWatch DEF vars, procVars, monVars, Live
<1>8. QED
  BY <1>2, <1>3, <1>4, <1>5, <1>6, <1>7 DEF Next
LEMMA Watching == Spec => [](TypeInv /\ TargetInv /\ WatchInv)
<1>1. Init => TargetInv /\ WatchInv
  <2>1. Init => TargetInv
    BY ManagerAssumption DEF Init, TargetInv
  <2>2. Init => FirstInv
    BY DEF Init, FirstInv, Active
  <2>3. Init => Sole
    BY DEF Init, Sole, Active, Live
  <2>4. QED
    BY <2>1, <2>2, <2>3 DEF WatchInv
<1>2. QED
  BY <1>1, TypeInit, TypeStep, TargetStep, WatchStep, PTL DEF Spec

(* A manager that was started once has at most one process at a time, the  *)
(* restarts of its monitors and everything that Stops, Restarts and Closes *)
(* do beside them included (manager.go:589-597).                           *)
THEOREM OneProcessAtATime == Spec => []OneProcess
<1>1. ASSUME TypeInv, WatchInv PROVE OneProcess
  <2>1. IsFiniteSet(Live)
    BY <1>1, SpawnedFinite, FS_Subset DEF TypeInv, ProcType
  <2>2. Sole => \A p, q \in Live : p = q
    BY DEF Sole
  <2>3. QED
    BY <1>1, <2>1, <2>2, AtMostOne DEF WatchInv, OneProcess
<1>2. QED
  BY <1>1, Watching, PTL

(* No process is ever left without the monitor that would notice its exit  *)
(* (manager.go:488-519).                                                   *)
THEOREM ProcessesAreWatched == Spec => []Watched
<1>1. WatchInv => Watched
  BY DEF WatchInv, Watched, Sole, Live
<1>2. QED
  BY <1>1, Watching, PTL

(* Close leaves nothing behind: once the events channel is closed no       *)
(* monitor runs and no process lives (manager.go:468-484).                 *)
THEOREM CloseLeavesNothing == Spec => []CloseReleases
<1>1. ASSUME SendInv, WatchInv PROVE CloseReleases
  <2>1. eventsClosed => \A p \in Procs : mon[p] \in {"none", "done"}
    BY <1>1 DEF SendInv, CloseInv, Joined
  <2>2. Sole => \A p \in Live : mon[p] \in {"begin", "wait"} /\ p \in Procs
    BY DEF Sole, Live
  <2>3. QED
    BY <1>1, <2>1, <2>2 DEF WatchInv, CloseReleases
<1>2. QED
  BY <1>1, SendInit, SendStep, Watching, PTL DEF Spec

(* The exit result that ends a Stop is the one of its own process: results *)
(* go to the channel in place when it exited or a later one, and a spawn   *)
(* makes a fresh channel (manager.go:352-355, 532-537).                    *)
THEOREM StopsSeeTheirExit == Spec => StopSeesItsExit
<1>1. ASSUME TypeInv, TargetInv, WatchInv, NEW c \in Callers, StartedOnce, StopExited(c)
      PROVE  scmd[c] \notin Live
  <2>. SUFFICES ASSUME scmd[c] \in Live PROVE FALSE
    OBVIOUS
  <2>1. scmd[c] = nprocs /\ ~exitSent[nprocs]
    BY <1>1 DEF WatchInv, Sole
  <2>2. sch[c] \in Nat /\ scmd[c] <= sch[c] /\ waitCh = nprocs /\ nprocs \in Nat
    BY <1>1, ManagerAssumption DEF StopExited, TargetInv, TypeInv, ProcType, CallType
  <2>3. PICK ch \in sch[c]..waitCh : exitSent[ch]
    BY <1>1 DEF StopExited
  <2>4. ch = nprocs
    BY <2>1, <2>2, <2>3
  <2>5. QED
    BY <2>1, <2>3, <2>4
<1>2. TypeInv /\ TargetInv /\ WatchInv =>
        [\A c \in Callers : StartedOnce /\ StopExited(c) => scmd[c] \notin Live]_vars
  BY <1>1
<1>3. QED
  BY <1>2, Watching, PTL DEF StopSeesItsExit

-----------------------------------------------------------------------------
(* Why the restarts are limited.  A restart was counted before its delay:  *)
(* those that were made and those that are on their way are together no    *)
(* more than the counter, and no more than the limit it was compared with. *)
Due == {p \in Procs : mon[p] \in {"delay", "spawn"}}

CountInv ==
  MaxRestarts > 0 => /\ Cardinality(auto) + Cardinality(Due) <= restartCount
                     /\ Cardinality(auto) + Cardinality(Due) <= MaxRestarts

LEMMA DueFinite == \A S \in SUBSET Procs : IsFiniteSet(S) /\ Cardinality(S) \in Nat
<1>1. IsFiniteSet(Procs)
  BY FS_Interval, ManagerAssumption DEF Procs
<1>2. QED
  BY <1>1, FS_Subset, FS_CardinalityType

LEMMA AutoFinite == ProcType => IsFiniteSet(auto) /\ Cardinality(auto) \in Nat
BY SpawnedFinite, FS_CardinalityType

(* Steps that make no restart due and no automatic process.                *)
LEMMA CountKept ==
  ASSUME TypeInv, CountInv, UNCHANGED auto, Due' \subseteq Due,
         restartCount' \in Nat, restartCount <= restartCount'
  PROVE  CountInv'
<1>1. /\ Cardinality(auto) \in Nat /\ Cardinality(Due) \in Nat /\ restartCount \in Nat
      /\ MaxRestarts \in Nat /\ IsFiniteSet(Due)
  BY AutoFinite, DueFinite, ManagerAssumption DEF TypeInv, MgrType, Due
<1>2. Cardinality(Due') \in Nat /\ Cardinality(Due') <= Cardinality(Due)
  <2>1. Due' \in SUBSET Due
    OBVIOUS
  <2>2. IsFiniteSet(Due') /\ Cardinality(Due') <= Cardinality(Due)
    BY <1>1, <2>1, FS_Subset
  <2>3. QED
    BY <2>2, FS_CardinalityType
<1>3. QED
  BY <1>1, <1>2 DEF CountInv

LEMMA CountStep == TypeInv /\ CountInv /\ [Next]_vars => CountInv'
<1> SUFFICES ASSUME TypeInv, CountInv, [Next]_vars PROVE CountInv'
  OBVIOUS
<1> USE ManagerAssumption
<1>1. /\ mon \in [Procs -> MonPcs] /\ auto \subseteq Spawned /\ nprocs \in Nat /\ restartCount \in Nat
      /\ Cardinality(auto) \in Nat /\ IsFiniteSet(auto)
      /\ Cardinality(Due) \in Nat /\ IsFiniteSet(Due)
  BY AutoFinite, DueFinite DEF TypeInv, MonType, ProcType, MgrType, Due
<1>2. ASSUME NEW c \in Callers, Caller(c), ~StartSpawn(c) PROVE CountInv'
  <2>1. UNCHANGED <<auto, mon, restartCount>>
    BY <1>2, CallerSteps
  <2>2. Due' \subseteq Due
    BY <2>1 DEF Due
  <2>3. QED
    BY <1>1, <2>1, <2>2, CountKept
<1>3. ASSUME NEW c \in Callers, StartSpawn(c) PROVE CountInv'
  <2>1. UNCHANGED <<auto, restartCount>> /\ (mon' = mon \/ mon' = [mon EXCEPT ![nprocs + 1] = "begin"])
    BY <1>3 DEF StartSpawn, SpawnOK, SpawnFail
  <2>2. Due' \subseteq Due
    BY <1>1, <2>1 DEF Due
  <2>3. QED
    BY <1>1, <2>1, <2>2, CountKept
<1>4. ASSUME NEW p \in Procs, Restarts(p) PROVE CountInv'
  <2>1. /\ nprocs' = nprocs + 1 /\ auto' = auto \cup {nprocs + 1} /\ UNCHANGED restartCount
        /\ mon[p] = "spawn" /\ mon' = [MonDone(p) EXCEPT ![nprocs + 1] = "begin"]
    BY <1>4 DEF Restarts, MonitorSpawn, SpawnOK, SpawnFail
  <2>2. Cardinality(auto') = Cardinality(auto) + 1
    <3>1. nprocs + 1 \notin auto
      BY <1>1 DEF Spawned
    <3>2. Cardinality(auto \cup {nprocs + 1}) = Cardinality(auto) + 1
      BY <1>1, <3>1, FS_AddElement
    <3>3. QED
      BY <2>1, <3>2
  <2>3. Due' \in SUBSET (Due \ {p})
    BY <1>1, <2>1 DEF Due, MonDone
  <2>4. Cardinality(Due \ {p}) = Cardinality(Due) - 1 /\ IsFiniteSet(Due \ {p})
    BY <1>1, <2>1, FS_RemoveElement DEF Due
  <2>5. Cardinality(Due') <= Cardinality(Due) - 1 /\ Cardinality(Due') \in Nat
    BY <2>3, <2>4, FS_Subset, FS_CardinalityType
  <2>6. QED
    BY <1>1, <2>1, <2>2, <2>5 DEF CountInv
<1>5. ASSUME NEW p \in Procs, Monitor(p), ~Restarts(p) PROVE CountInv'
  <2>1. CASE MonitorSchedules(p)
    <3>1. /\ MaxRestarts > 0 => restartCount + 1 <= MaxRestarts
          /\ restartCount' = restartCount + 1 /\ UNCHANGED auto /\ mon' = [mon EXCEPT ![p] = "delay"]
      BY <1>1, <2>1 DEF MonitorSchedules, LimitReached, MonGoto, procVars
    <3>2. Due' = Due \cup {p}
      BY <1>1, <3>1 DEF Due
    <3>3. Cardinality(Due') <= Cardinality(Due) + 1 /\ Cardinality(Due') \in Nat
      <4>1. IsFiniteSet(Due \cup {p})
        BY <1>1, FS_AddElement
      <4>2. Cardinality(Due \cup {p}) = IF p \in Due THEN Cardinality(Due) ELSE Cardinality(Due) + 1
        BY <1>1, FS_AddElement
      <4>3. QED
        BY <1>1, <3>2, <4>1, <4>2
    <3>4. QED
      BY <1>1, <3>1, <3>3 DEF CountInv
  <2>2. CASE MonitorBegin(p) \/ MonitorExited(p)
    <3>1. UNCHANGED <<auto, restartCount>> /\ \E l \in {"done", "wait", "exited"} : mon' = [mon EXCEPT ![p] = l]
      BY <2>2 DEF MonitorBegin, MonitorExited, mgrVars, procVars
    <3>2. Due' \subseteq Due
      BY <1>1, <3>1 DEF Due
    <3>3. QED
      BY <1>1, <3>1, <3>2, CountKept
  <2>3. CASE ~MonitorSchedules(p) /\ ~MonitorBegin(p) /\ ~MonitorExited(p)
    <3>1. UNCHANGED auto /\ \/ \E l \in {"notified", "done", "restartFailed"} : mon' = [mon EXCEPT ![p] = l]
                            \/ mon' = [mon EXCEPT ![p] = "spawn"] /\ mon[p] = "delay"
      BY <1>5, <2>3, MonitorSteps
    <3>2. Due' \subseteq Due
      BY <1>1, <3>1 DEF Due
    <3>3. restartCount' = restartCount \/ restartCount' = restartCount + 1
      BY <1>5, <2>3 DEF Monitor, MonitorNotify, MonitorStopped, MonitorNoRestart, MonitorGivesUp, MonitorCancelled,
                        MonitorLock, MonitorSpawn, MonitorRestartFailed, mgrVars
    <3>4. QED
      BY <1>1, <3>1, <3>2, <3>3, CountKept
  <2>4. QED
    BY <2>1, <2>2, <2>3
<1>6. ASSUME NEW p \in Procs, ProcessExit(p) PROVE CountInv'
  BY <1>6 DEF ProcessExit, CountInv, Due, mgrVars, monVars
<1>7. CASE UNCHANGED vars
  BY <1>7 DEF vars, mgrVars, procVars, monVars, CountInv, Due
<1>8. QED
  BY <1>2, <1>3, <1>4, <1>5, <1>6, <1>7 DEF Next

(* There are never more automatic restarts than MaxRestarts, however many  *)
(* monitors, Starts and Restarts there are (manager.go:564-573).           *)
THEOREM RestartsAreLimited == Spec => []RestartLimit
<1>1. ASSUME TypeInv, CountInv PROVE RestartLimit
  <2>1. Cardinality(auto) \in Nat /\ Cardinality(Due) \in Nat /\ MaxRestarts \in Nat
    BY <1>1, AutoFinite, DueFinite, ManagerAssumption DEF TypeInv, Due
  <2>2. QED
    BY <1>1, <2>1 DEF CountInv, RestartLimit
<1>2. Init => CountInv
  <2>1. SUFFICES ASSUME Init PROVE CountInv
    OBVIOUS
  <2>2. auto = {} /\ Due = {} /\ restartCount = 0
    BY <2>1 DEF Init, Due
  <2>3. QED
    BY <2>2, FS_EmptySet, ManagerAssumption DEF CountInv
<1>3. QED
  BY <1>1, <1>2, TypeInit, TypeStep, CountStep, PTL DEF Spec

-----------------------------------------------------------------------------
(* What a program that calls Start, or Restart, once gives: whoever spawns *)
(* a process finds that none was spawned before.                           *)
StartOps == {"start", "restart"}

OneStart(t) ==
  \A c, d \in Callers : \A i \in 1..Len(t[c]), j \in 1..Len(t[d]) :
    t[c][i] \in StartOps /\ t[d][j] \in StartOps => c = d /\ i = j

StartInv ==
  /\ OneStart(todo)
  /\ \A c \in Callers : pc[c] \in {"start", "spawn", "pause"} => Head(todo[c]) \in StartOps
  /\ nprocs > 0 => \A c \in Callers : \A i \in 1..Len(todo[c]) : todo[c][i] \notin StartOps
  /\ Spawned \ auto \subseteq {1}

LEMMA StartedOnceHere == TypeInv /\ WatchInv /\ StartInv => Sole
<1> SUFFICES ASSUME TypeInv, WatchInv, StartInv PROVE StartedOnce
  BY DEF WatchInv
<1>1. IsFiniteSet({1}) /\ Cardinality({1}) = 1
  BY FS_Singleton
<1>2. Cardinality(Spawned \ auto) <= Cardinality({1})
  BY <1>1, FS_Subset DEF StartInv
<1>3. QED
  BY <1>1, <1>2 DEF StartedOnce

(* A call moves its own goroutine only, and its program loses its first    *)
(* call or nothing.                                                        *)
LEMMA CallerMoves ==
  ASSUME TypeInv, StartInv, NEW c \in Callers, Caller(c)
  PROVE  /\ todo[c] # <<>>
         /\ \/ UNCHANGED todo
            \/ todo' = [todo EXCEPT ![c] = Tail(todo[c])] /\ pc' = [pc EXCEPT ![c] = "idle"]
         /\ \E l \in CallPcs : /\ pc' = [pc EXCEPT ![c] = l]
                               /\ l \in {"start", "spawn", "pause"} => Head(todo[c]) \in StartOps
<1>1. todo[c] # <<>>
  <2>1. pc[c] # "idle" \/ todo[c] # <<>>
    BY DEF Caller, Start, StartLock, StartSpawn, Stop, StopLock, StopNoCmd, StopSignal, StopExited, StopTimeout,
           StopKillTimeout, StopCtxDone, Restart, RestartPause, Wait, WaitBegin, WaitReturn, Close, CloseBegin,
           CloseCancel, CloseJoin, CloseEvents, CloseOnce, Called
  <2>2. QED
    BY <2>1 DEF TypeInv, CallType
<1> DEFINE Moved == /\ \/ UNCHANGED todo
                       \/ todo' = [todo EXCEPT ![c] = Tail(todo[c])] /\ pc' = [pc EXCEPT ![c] = "idle"]
                    /\ \E l \in CallPcs : /\ pc' = [pc EXCEPT ![c] = l]
                                          /\ l \in {"start", "spawn", "pause"} => Head(todo[c]) \in StartOps
<1>2. ASSUME Return(c) PROVE Moved
  BY <1>2 DEF Return, CallPcs
<1>3. ASSUME NEW ok, StopReturn(c, ok) PROVE Moved
  <2>1. CASE Head(todo[c]) = "restart" /\ ok
    <3>1. Goto(c, "pause") /\ UNCHANGED todo
      BY <2>1, <1>3 DEF StopReturn
    <3>2. QED
      BY <2>1, <3>1 DEF Goto, CallPcs, StartOps
  <2>2. CASE Return(c)
    BY <1>2, <2>2
  <2>3. CASE Goto(c, "closeCancel") /\ UNCHANGED todo
    BY <2>3 DEF Goto, CallPcs
  <2>4. QED
    BY <1>3, <2>1, <2>2, <2>3 DEF StopReturn
<1>4. ASSUME NEW l \in CallPcs, Goto(c, l), UNCHANGED todo,
             l \in {"start", "spawn", "pause"} => Head(todo[c]) \in StartOps
      PROVE  Moved
  BY <1>4 DEF Goto
<1>5. {"spawn", "start", "stopCmd", "stopSignal", "stopWait", "stopKill", "waiting", "closeOnce", "closeStop",
       "closeJoin", "closeEvents"} \subseteq CallPcs
  BY DEF CallPcs
<1> HIDE DEF Moved
<1>6. CASE StartLock(c)
  <2>1. Return(c) \/ (Goto(c, "spawn") /\ UNCHANGED todo)
    BY <1>6 DEF StartLock
  <2>2. Head(todo[c]) \in StartOps
    BY <1>6 DEF StartLock, Called, StartInv, StartOps
  <2>3. QED
    BY <1>2, <1>4, <1>5, <2>1, <2>2, <1>1 DEF Moved
<1>7. CASE StartSpawn(c) \/ WaitReturn(c) \/ CloseEvents(c) \/ CloseOnce(c)
  BY <1>1, <1>2, <1>7 DEF StartSpawn, WaitReturn, CloseEvents, CloseOnce, Moved
<1>8. CASE StopLock(c)
  <2>1. StopReturn(c, ~closed) \/ (UNCHANGED todo /\ (Goto(c, "stopCmd") \/ Goto(c, "stopSignal")))
    BY <1>8 DEF StopLock
  <2>2. QED
    BY <1>1, <1>3, <1>4, <1>5, <2>1 DEF Moved
<1>9. CASE StopNoCmd(c) \/ StopExited(c) \/ StopKillTimeout(c) \/ StopCtxDone(c)
  BY <1>1, <1>3, <1>9 DEF StopNoCmd, StopExited, StopKillTimeout, StopCtxDone, Moved
<1>10. CASE StopSignal(c) \/ StopTimeout(c) \/ WaitBegin(c)
  <2>1. UNCHANGED todo /\ (Goto(c, "stopWait") \/ Goto(c, "stopKill") \/ Goto(c, "waiting"))
    BY <1>10 DEF StopSignal, StopTimeout, WaitBegin
  <2>2. QED
    BY <1>1, <1>4, <1>5, <2>1 DEF Moved
<1>11. CASE RestartPause(c)
  <2>1. Return(c) \/ (Goto(c, "start") /\ UNCHANGED todo)
    BY <1>11 DEF RestartPause
  <2>2. Head(todo[c]) \in StartOps
    BY <1>11 DEF RestartPause, StartInv
  <2>3. QED
    BY <1>1, <1>2, <1>4, <1>5, <2>1, <2>2 DEF Moved
<1>12. CASE CloseBegin(c) \/ CloseCancel(c) \/ CloseJoin(c)
  <2>1. UNCHANGED todo /\ \E l \in {"closeOnce", "closeStop", "closeJoin", "closeEvents"} : Goto(c, l)
    BY <1>12 DEF CloseBegin, CloseCancel, CloseJoin
  <2>2. QED
    BY <1>1, <1>4, <1>5, <2>1 DEF Moved
<1>13. QED
  BY <1>1, <1>6, <1>7, <1>8, <1>9, <1>10, <1>11, <1>12 DEF Caller, Start, Stop, Restart, Wait, Close, Moved

(* Taking the first call off a program leaves at most one Start; none, if  *)
(* it was the Start.                                                       *)
LEMMA TailStarts ==
  ASSUME TypeInv, OneStart(todo), NEW c \in Callers, todo[c] # <<>>, todo' = [todo EXCEPT ![c] = Tail(todo[c])]
  PROVE  /\ OneStart(todo')
         /\ \A d \in Callers : \A j \in 1..Len(todo'[d]) :
              \E k \in 1..Len(todo[d]) : todo'[d][j] = todo[d][k] /\ (d = c => k # 1)
<1>1. todo \in [Callers -> Seq(Ops)] /\ todo[c] \in Seq(Ops)
  BY DEF TypeInv, CallType
<1>2. /\ \A d \in Callers : d # c => todo'[d] = todo[d]
      /\ todo'[c] = Tail(todo[c])
  BY <1>1
<1>3. /\ Len(todo[c]) \in Nat /\ Len(todo'[c]) = Len(todo[c]) - 1
      /\ \A j \in 1..Len(todo'[c]) : todo'[c][j] = todo[c][j + 1]
  BY <1>1, <1>2, HeadTailProperties, LenProperties
<1>4. \A j \in 1..Len(todo'[c]) : j + 1 \in 1..Len(todo[c]) /\ j + 1 # 1
  BY <1>3
<1>5. ASSUME NEW d \in Callers, NEW j \in 1..Len(todo'[d])
      PROVE  \E k \in 1..Len(todo[d]) : todo'[d][j] = todo[d][k] /\ (d = c => k = j + 1 /\ k # 1) /\ (d # c => k = j)
  <2>1. CASE d = c
    BY <1>3, <1>4, <1>5, <2>1
  <2>2. CASE d # c
    BY <1>2, <1>5, <2>2
  <2>3. QED
    BY <2>1, <2>2
<1>6. ASSUME NEW d \in Callers, NEW e \in Callers, NEW i \in 1..Len(todo'[d]), NEW j \in 1..Len(todo'[e]),
             todo'[d][i] \in StartOps, todo'[e][j] \in StartOps
      PROVE  d = e /\ i = j
  <2>1. PICK k \in 1..Len(todo[d]) : /\ todo'[d][i] = todo[d][k] /\ (d = c => k = i + 1)
                                     /\ d # c => k = i
    BY <1>5
  <2>2. PICK m \in 1..Len(todo[e]) : /\ todo'[e][j] = todo[e][m] /\ (e = c => m = j + 1)
                                     /\ e # c => m = j
    BY <1>5
  <2>3. d = e /\ k = m
    BY <1>6, <2>1, <2>2 DEF OneStart
  <2>4. i \in Int /\ j \in Int
    OBVIOUS
  <2>5. QED
    BY <2>1, <2>2, <2>3, <2>4
<1>7. OneStart(todo')
  BY <1>6 DEF OneStart
<1>8. QED
  BY <1>5, <1>7

LEMMA StartStep == TypeInv /\ WatchInv /\ StartInv /\ [Next]_vars => StartInv'
<1> SUFFICES ASSUME TypeInv, WatchInv, StartInv, [Next]_vars PROVE StartInv'
  OBVIOUS
<1>0. /\ nprocs \in Nat /\ pc \in [Callers -> CallPcs] /\ todo \in [Callers -> Seq(Ops)] /\ auto \subseteq Spawned
  BY ManagerAssumption DEF TypeInv, ProcType, CallType
<1>1. ASSUME UNCHANGED <<pc, todo, nprocs, auto>> PROVE StartInv'
  BY <1>1 DEF StartInv, OneStart, Spawned
<1>2. ASSUME NEW c \in Callers, Caller(c) PROVE StartInv'
  <2>1. todo[c] # <<>> /\ \/ UNCHANGED todo
                          \/ todo' = [todo EXCEPT ![c] = Tail(todo[c])] /\ pc' = [pc EXCEPT ![c] = "idle"]
    BY <1>2, CallerMoves
  <2>2. PICK l \in CallPcs : /\ pc' = [pc EXCEPT ![c] = l]
                             /\ l \in {"start", "spawn", "pause"} => Head(todo[c]) \in StartOps
    BY <1>2, CallerMoves
  <2>3. OneStart(todo')
    <3>1. CASE UNCHANGED todo
      BY <3>1 DEF StartInv
    <3>2. CASE todo' = [todo EXCEPT ![c] = Tail(todo[c])]
      BY <2>1, <3>2, TailStarts DEF StartInv
    <3>3. QED
      BY <2>1, <3>1, <3>2
  <2>4. \A d \in Callers : pc'[d] \in {"start", "spawn", "pause"} => Head(todo'[d]) \in StartOps
    <3>1. CASE UNCHANGED todo
      BY <1>0, <2>2, <3>1 DEF StartInv
    <3>2. CASE todo' = [todo EXCEPT ![c] = Tail(todo[c])] /\ pc' = [pc EXCEPT ![c] = "idle"]
      BY <1>0, <3>2 DEF StartInv
    <3>3. QED
      BY <2>1, <3>1, <3>2
  <2>5. \A d \in Callers : \A j \in 1..Len(todo'[d]) : \E k \in 1..Len(todo[d]) : todo'[d][j] = todo[d][k]
    <3>1. CASE UNCHANGED todo
      BY <3>1
    <3>2. CASE todo' = [todo EXCEPT ![c] = Tail(todo[c])]
      BY <2>1, <3>2, TailStarts DEF StartInv
    <3>3. QED
      BY <2>1, <3>1, <3>2
  <2>6. CASE UNCHANGED <<nprocs, auto>>
    <3>1. nprocs > 0 => \A d \in Callers : \A j \in 1..Len(todo[d]) : todo[d][j] \notin StartOps
      BY DEF StartInv
    <3>2. nprocs' > 0 => \A d \in Callers : \A j \in 1..Len(todo'[d]) : todo'[d][j] \notin StartOps
      BY <2>5, <2>6, <3>1
    <3>3. QED
      BY <2>3, <2>4, <2>6, <3>2 DEF StartInv, Spawned
  <2>7. CASE StartSpawn(c) /\ SpawnOK(mon)
    <3>1. nprocs' = nprocs + 1 /\ auto' = auto /\ pc[c] = "spawn" /\ Return(c)
      BY <2>7 DEF StartSpawn, SpawnOK
    <3>2. Head(todo[c]) \in StartOps /\ todo[c] \in Seq(Ops) /\ Head(todo[c]) = todo[c][1] /\ 1 \in 1..Len(todo[c])
      BY <1>0, <2>1, <3>1, HeadTailProperties, LenProperties, EmptySeq DEF StartInv
    <3>3. nprocs = 0
      BY <1>0, <3>2 DEF StartInv
    <3>4. Spawned' \ auto' \subseteq {1}
      BY <3>1, <3>3 DEF Spawned
    <3>5. todo' = [todo EXCEPT ![c] = Tail(todo[c])]
      BY <3>1 DEF Return
    <3>6. \A d \in Callers : \A j \in 1..Len(todo'[d]) :
            \E k \in 1..Len(todo[d]) : todo'[d][j] = todo[d][k] /\ (d = c => k # 1)
      BY <2>1, <3>5, TailStarts DEF StartInv
    <3>7. \A d \in Callers : \A j \in 1..Len(todo'[d]) : todo'[d][j] \notin StartOps
      <4>1. OneStart(todo)
        BY DEF StartInv
      <4>2. \A d \in Callers : \A k \in 1..Len(todo[d]) : todo[d][k] \in StartOps => d = c /\ k = 1
        BY <3>2, <4>1 DEF OneStart
      <4>3. QED
        BY <3>6, <4>2
    <3>8. QED
      BY <2>3, <2>4, <3>4, <3>7 DEF StartInv
  <2>8. QED
    <3>1. ~StartSpawn(c) => UNCHANGED <<nprocs, auto>>
      BY <1>2, CallerSteps
    <3>2. StartSpawn(c) /\ ~SpawnOK(mon) => UNCHANGED <<nprocs, auto>>
      BY DEF StartSpawn, SpawnFail
    <3>3. QED
      BY <2>6, <2>7, <3>1, <3>2
<1>3. ASSUME NEW p \in Procs, Monitor(p) PROVE StartInv'
  <2>1. UNCHANGED <<pc, todo>>
    BY <1>3 DEF Monitor, MonitorBegin, MonitorExited, MonitorNotify, MonitorStopped, MonitorNoRestart, MonitorGivesUp,
                MonitorSchedules, MonitorCancelled, MonitorLock, MonitorSpawn, MonitorRestartFailed, callVars
  <2>2. CASE Restarts(p)
    <3>1. nprocs' = nprocs + 1 /\ auto' = auto \cup {nprocs + 1} /\ p \in Active
      BY <2>2 DEF Restarts, MonitorSpawn, SpawnOK, SpawnFail, Active
    <3>2. nprocs > 0
      BY <1>0, <3>1 DEF WatchInv, FirstInv
    <3>3. Spawned' \ auto' \subseteq Spawned \ auto
      BY <1>0, <3>1 DEF Spawned
    <3>4. QED
      BY <2>1, <3>1, <3>2, <3>3 DEF StartInv, OneStart
  <2>3. CASE MonitorBegin(p) \/ MonitorExited(p)
    BY <1>1, <2>1, <2>3 DEF MonitorBegin, MonitorExited, procVars
  <2>4. QED
    BY <1>1, <1>3, <2>1, <2>2, <2>3, MonitorSteps
<1>4. ASSUME NEW p \in Procs, ProcessExit(p) PROVE StartInv'
  BY <1>1, <1>4 DEF ProcessExit, callVars
<1>5. CASE UNCHANGED vars
  BY <1>1, <1>5 DEF vars, callVars, procVars
<1>6. QED
  BY <1>2, <1>3, <1>4, <1>5 DEF Next

LEMMA Starting == (\A t \in Programs : OneStart(t)) => (Spec => [](TypeInv /\ TargetInv /\ WatchInv /\ StartInv))
<1> SUFFICES ASSUME \A t \in Programs : OneStart(t) PROVE Spec => [](TypeInv /\ TargetInv /\ WatchInv /\ StartInv)
  OBVIOUS
<1>1. Init => StartInv
  BY DEF Init, StartInv, Spawned
<1>2. TypeInv /\ TargetInv /\ WatchInv /\ StartInv /\ [Next]_vars => StartInv'
  BY StartStep
<1>3. QED
  BY <1>1, <1>2, Watching, PTL DEF Spec

(* Who spawns by a call of Start or Restart finds nothing spawned.         *)
LEMMA FirstSpawn ==
  ASSUME TypeInv, WatchInv, StartInv, NEW c \in Callers, StartSpawn(c) \/ Called(c, "start") \/ pc[c] = "start"
  PROVE  nprocs = 0 /\ Active = {} /\ Live = {}
<1>1. todo[c] \in Seq(Ops) /\ todo[c] # <<>> /\ Head(todo[c]) \in StartOps
  BY DEF TypeInv, CallType, StartSpawn, Called, StartInv, StartOps
<1>2. Head(todo[c]) = todo[c][1] /\ 1 \in 1..Len(todo[c])
  BY <1>1, HeadTailProperties, LenProperties, EmptySeq
<1>3. nprocs \in Nat /\ nprocs = 0
  BY <1>1, <1>2, ManagerAssumption DEF StartInv, TypeInv, ProcType
<1>4. QED
  BY <1>3 DEF WatchInv, FirstInv, TypeInv, ProcType, Spawned

(* The program counter at which each step of a monitor leaves it.          *)
LEMMA MonitorLeaves ==
  ASSUME TypeInv, NEW p \in Procs, Monitor(p), state' = "failed"
  PROVE  \/ mon' = [mon EXCEPT ![p] = "done"] \/ mon' = [mon EXCEPT ![p] = "restartFailed"]
         \/ state = "failed" /\ mon[p] # "restartFailed"
<1>1. CASE MonitorBegin(p) \/ MonitorExited(p) \/ MonitorNotify(p) \/ MonitorSchedules(p)
  BY <1>1 DEF MonitorBegin, MonitorExited, MonitorNotify, MonitorSchedules, Unexpected, mgrVars
<1>2. CASE \/ MonitorStopped(p) \/ MonitorNoRestart(p) \/ MonitorGivesUp(p) \/ MonitorCancelled(p)
           \/ MonitorRestartFailed(p)
  BY <1>2 DEF MonitorStopped, MonitorNoRestart, MonitorGivesUp, MonitorCancelled, MonitorRestartFailed, MonGoto, MonDone
<1>3. CASE MonitorLock(p)
  BY <1>3 DEF MonitorLock
<1>4. CASE MonitorSpawn(p)
  BY <1>4 DEF MonitorSpawn, SpawnOK, SpawnFail
<1>5. QED
  BY <1>1, <1>2, <1>3, <1>4 DEF Monitor

(* Why a failure is final: the one monitor at work, if any, only has it to *)
(* store once more.                                                        *)
FailedInv == state = "failed" => \A p \in Active : mon[p] = "restartFailed"

LEMMA FailedStep == TypeInv /\ WatchInv /\ StartInv /\ FailedInv /\ [Next]_vars => FailedInv'
<1> SUFFICES ASSUME TypeInv, WatchInv, StartInv, FailedInv, [Next]_vars, state' = "failed"
             PROVE  \A p \in Active' : mon'[p] = "restartFailed"
  BY DEF FailedInv
<1>1. Sole /\ mon \in [Procs -> MonPcs]
  BY StartedOnceHere DEF TypeInv, MonType
<1>2. CASE UNCHANGED <<state, mon>>
  BY <1>2 DEF FailedInv, Active
<1>3. ASSUME NEW c \in Callers, Caller(c) PROVE \A p \in Active' : mon'[p] = "restartFailed"
  <2>1. CASE StartSpawn(c)
    <3>1. Active = {}
      BY <2>1, FirstSpawn
    <3>2. SpawnFail(mon)
      BY <2>1 DEF StartSpawn, SpawnOK
    <3>3. QED
      BY <3>1, <3>2 DEF SpawnFail, Active
  <2>2. CASE ~StartSpawn(c)
    <3>1. UNCHANGED mon
      BY <1>3, <2>2, CallerSteps
    <3>2. UNCHANGED state
      BY <1>3, <2>2 DEF Caller, Start, StartLock, Stop, StopLock, StopNoCmd, StopSignal, StopExited, StopTimeout,
                        StopKillTimeout, StopCtxDone, Restart, RestartPause, Wait, WaitBegin, WaitReturn, Close,
                        CloseBegin, CloseCancel, CloseJoin, CloseEvents, CloseOnce, mgrVars
    <3>3. QED
      BY <1>2, <3>1, <3>2
  <2>3. QED
    BY <2>1, <2>2
<1>4. ASSUME NEW p \in Procs, Monitor(p) PROVE \A q \in Active' : mon'[q] = "restartFailed"
  <2>1. p \in Active
    BY <1>4 DEF Monitor, MonitorBegin, MonitorExited, MonitorNotify, MonitorStopped, MonitorNoRestart, MonitorGivesUp,
                MonitorSchedules, MonitorCancelled, MonitorLock, MonitorSpawn, MonitorRestartFailed, Unexpected, Active
  <2>2. \A q \in Procs : mon[q] \in {"none", "done"} \/ q = p
    BY <1>1, <2>1 DEF Sole, Active
  <2>3. CASE mon' = [mon EXCEPT ![p] = "done"] \/ mon' = [mon EXCEPT ![p] = "restartFailed"]
    BY <1>1, <2>2, <2>3 DEF Active
  <2>4. CASE state = "failed" /\ mon[p] # "restartFailed"
    BY <2>1, <2>4 DEF FailedInv
  <2>5. QED
    BY <1>4, <2>3, <2>4, MonitorLeaves
<1>5. ASSUME NEW p \in Procs, ProcessExit(p) PROVE \A q \in Active' : mon'[q] = "restartFailed"
  BY <1>2, <1>5 DEF ProcessExit, mgrVars, monVars
<1>6. QED
  BY <1>2, <1>3, <1>4, <1>5 DEF Next, vars, mgrVars, monVars

(* StateFailed "indicates the process exited unexpectedly and won't be     *)
(* restarted" (manager.go:39): nothing lives and no monitor is about to    *)
(* restart anything, although the state is stored outside mu               *)
(* (manager.go:561, 568, 600).  This is for programs that call Start once, *)
(* as the server does: startLocked is let in while a Stop is under way,    *)
(* and if it fails the stopping process is still alive.                    *)
FailedIsFinal ==
  state = "failed" => Live = {} /\ \A p \in Procs : mon[p] \notin {"delay", "spawn"}

(* StateFailed means what its comment says, for callers who start the      *)
(* manager once, with automatic restarts and without (manager.go:551-606). *)
THEOREM FailuresAreFinal ==
  ASSUME \A t \in Programs : OneStart(t)
  PROVE  Spec => []FailedIsFinal
<1>1. TypeInv /\ WatchInv /\ StartInv /\ FailedInv => FailedIsFinal
  <2>1. SUFFICES ASSUME TypeInv, WatchInv, StartInv, FailedInv, state = "failed"
                 PROVE  Live = {} /\ \A p \in Procs : mon[p] \notin {"delay", "spawn"}
    BY DEF FailedIsFinal
  <2>2. Sole
    BY <2>1, StartedOnceHere
  <2>3. \A p \in Procs : mon[p] \in {"none", "done", "restartFailed"}
    BY <2>1 DEF FailedInv, Active
  <2>4. \A p \in Live : p \in Procs /\ mon[p] \in {"begin", "wait"}
    BY <2>2 DEF Sole, Live
  <2>5. QED
    BY <2>3, <2>4
<1>2. Init => FailedInv
  BY DEF Init, FailedInv
<1>3. QED
  BY <1>1, <1>2, FailedStep, Starting, PTL DEF Spec

-----------------------------------------------------------------------------
(* Why "stopped" can be trusted without automatic restarts: while a        *)
(* process lives the state is running or stopping, and the Stop that found *)
(* no process has none to fear, since nothing is spawned any more.         *)
StoppedInv ==
  /\ \A p \in Procs : mon[p] \notin {"delay", "spawn", "restartFailed"}
  /\ Live # {} => cmd # 0 /\ state \in {"running", "stopping"}
  /\ \A c \in Callers : pc[c] = "stopCmd" => Live = {} /\ nprocs > 0
  /\ state \in {"running", "stopping"} => nprocs > 0

LEMMA StoppedStep ==
  ASSUME ~restarts
  PROVE  TypeInv /\ WatchInv /\ StartInv /\ StoppedInv /\ [Next]_vars => StoppedInv'
<1> SUFFICES ASSUME TypeInv, WatchInv, StartInv, StoppedInv, [Next]_vars PROVE StoppedInv'
  OBVIOUS
<1>1. /\ Sole /\ mon \in [Procs -> MonPcs] /\ pc \in [Callers -> CallPcs]
      /\ nprocs \in Nat /\ proc \in [Procs -> {"none", "live", "exited"}]
  BY StartedOnceHere, ManagerAssumption DEF TypeInv, MonType, CallType, ProcType
<1>2. ASSUME UNCHANGED <<mon, cmd, state, nprocs, proc>>, \A c \in Callers : pc'[c] = "stopCmd" => pc[c] = "stopCmd"
      PROVE  StoppedInv'
  BY <1>2 DEF StoppedInv, Live
<1>3. ASSUME NEW c \in Callers, Caller(c) PROVE StoppedInv'
  <2>1. CASE StartLock(c)
    <3>1. \A d \in Callers : pc'[d] = "stopCmd" => pc[d] = "stopCmd"
      BY <1>1, <2>1 DEF StartLock, Return, Goto
    <3>2. Live = {}
      BY <2>1, FirstSpawn DEF StartLock
    <3>3. state' \in {state, "starting"} /\ UNCHANGED <<mon, nprocs, proc, cmd>>
      BY <2>1 DEF StartLock, procVars, monVars
    <3>4. QED
      BY <3>1, <3>2, <3>3 DEF StoppedInv, Live
  <2>2. CASE StartSpawn(c)
    <3>1. Live = {} /\ nprocs = 0
      BY <2>2, FirstSpawn
    <3>2. \A d \in Callers : pc'[d] # "stopCmd"
      BY <1>1, <2>2, <3>1 DEF StartSpawn, Return, StoppedInv
    <3>3. CASE SpawnFail(mon)
      BY <3>1, <3>2, <3>3 DEF SpawnFail, StoppedInv, Live
    <3>4. CASE SpawnOK(mon)
      <4>1. nprocs' > 0 /\ cmd' # 0 /\ state' = "running" /\ mon' = [mon EXCEPT ![nprocs + 1] = "begin"]
        BY <1>1, <3>4 DEF SpawnOK
      <4>2. \A p \in Procs : mon'[p] \notin {"delay", "spawn", "restartFailed"}
        BY <1>1, <4>1 DEF StoppedInv
      <4>3. QED
        BY <3>2, <4>1, <4>2 DEF StoppedInv
    <3>5. QED
      BY <2>2, <3>3, <3>4 DEF StartSpawn
  <2>3. CASE StopLock(c)
    <3>1. UNCHANGED <<mon, nprocs, proc, cmd>> /\ Live' = Live
      BY <2>3 DEF StopLock, procVars, monVars, Live
    <3>2. CASE UNCHANGED state /\ StopReturn(c, ~closed)
      <4>1. \A d \in Callers : pc'[d] = "stopCmd" => pc[d] = "stopCmd"
        BY <1>1, <3>2, StopReturnPc DEF TypeInv
      <4>2. QED
        BY <1>2, <3>1, <3>2, <4>1
    <3>3. CASE state = "running" /\ state' = "stopping" /\ Goto(c, IF cmd = 0 THEN "stopCmd" ELSE "stopSignal")
      <4>1. \A d \in Callers : pc'[d] = "stopCmd" => pc[d] = "stopCmd" \/ cmd = 0
        BY <1>1, <3>3 DEF Goto
      <4>2. QED
        BY <3>1, <3>3, <4>1 DEF StoppedInv
    <3>4. QED
      BY <2>3, <3>2, <3>3 DEF StopLock
  <2>4. CASE StopNoCmd(c)
    <3>1. Live' = Live /\ Live = {} /\ UNCHANGED <<mon, nprocs>> /\ state' = "stopped"
      BY <2>4 DEF StopNoCmd, procVars, monVars, Live, StoppedInv
    <3>2. \A d \in Callers : pc'[d] = "stopCmd" => pc[d] = "stopCmd"
      BY <1>1, <2>4, StopReturnPc DEF StopNoCmd, TypeInv
    <3>3. QED
      BY <3>1, <3>2 DEF StoppedInv
  <2>5. CASE StopSignal(c) \/ StopExited(c) \/ StopTimeout(c) \/ StopKillTimeout(c) \/ StopCtxDone(c)
    <3>1. UNCHANGED <<mon, cmd, state, nprocs, proc>>
      BY <2>5 DEF StopSignal, StopExited, StopTimeout, StopKillTimeout, StopCtxDone, mgrVars, procVars, monVars
    <3>2. \A d \in Callers : pc'[d] = "stopCmd" => pc[d] = "stopCmd"
      <4>1. CASE StopSignal(c) \/ StopTimeout(c)
        BY <1>1, <4>1 DEF StopSignal, StopTimeout, Goto
      <4>2. CASE StopExited(c) \/ StopKillTimeout(c) \/ StopCtxDone(c)
        BY <1>1, <4>2, StopReturnPc DEF StopExited, StopKillTimeout, StopCtxDone, TypeInv
      <4>3. QED
        BY <2>5, <4>1, <4>2
    <3>3. QED
      BY <1>2, <3>1, <3>2
  <2>6. CASE Restart(c) \/ Wait(c) \/ Close(c)
    <3>1. UNCHANGED <<mon, cmd, state, nprocs, proc>>
      BY <2>6 DEF Restart, RestartPause, Wait, WaitBegin, WaitReturn, Close, CloseBegin, CloseCancel, CloseJoin,
                  CloseEvents, CloseOnce, mgrVars, procVars, monVars
    <3>2. \A d \in Callers : pc'[d] = "stopCmd" => pc[d] = "stopCmd"
      BY <1>1, <2>6 DEF Restart, RestartPause, Wait, WaitBegin, WaitReturn, Close, CloseBegin, CloseCancel, CloseJoin,
                        CloseEvents, CloseOnce, Return, Goto
    <3>3. QED
      BY <1>2, <3>1, <3>2
  <2>7. QED
    BY <1>3, <2>1, <2>2, <2>3, <2>4, <2>5, <2>6 DEF Caller, Start, Stop
<1>4. ASSUME NEW p \in Procs, Monitor(p) PROVE StoppedInv'
  <2>1. UNCHANGED pc
    BY <1>4 DEF Monitor, MonitorBegin, MonitorExited, MonitorNotify, MonitorStopped, MonitorNoRestart, MonitorGivesUp,
                MonitorSchedules, MonitorCancelled, MonitorLock, MonitorSpawn, MonitorRestartFailed, callVars
  <2>2. mon[p] \notin {"delay", "spawn", "restartFailed"}
    BY DEF StoppedInv
  <2>3. CASE MonitorBegin(p)
    <3>1. UNCHANGED <<cmd, state, nprocs, proc>> /\ mon' = [mon EXCEPT ![p] = IF cmd = 0 THEN "done" ELSE "wait"]
      BY <2>3 DEF MonitorBegin, mgrVars, procVars
    <3>2. \A q \in Procs : mon'[q] \notin {"delay", "spawn", "restartFailed"}
      BY <1>1, <3>1 DEF StoppedInv
    <3>3. QED
      BY <2>1, <3>1, <3>2 DEF StoppedInv, Live
  <2>4. CASE mon[p] # "begin"
    <3>1. Live = {}
      <4>1. p \in Active
        BY <1>4 DEF Monitor, MonitorBegin, MonitorExited, MonitorNotify, MonitorStopped, MonitorNoRestart, MonitorGivesUp,
                    MonitorSchedules, MonitorCancelled, MonitorLock, MonitorSpawn, MonitorRestartFailed, Unexpected, Active
      <4>2. \A q \in Live : q = p
        BY <1>1, <4>1 DEF Sole, Active, Live
      <4>3. CASE mon[p] = "wait"
        <5>1. MonitorExited(p)
          BY <1>4, <4>3 DEF Monitor, MonitorBegin, MonitorExited, MonitorNotify, MonitorStopped, MonitorNoRestart,
                            MonitorGivesUp, MonitorSchedules, MonitorCancelled, MonitorLock, MonitorSpawn,
                            MonitorRestartFailed, Unexpected
        <5>2. proc[p] # "live"
          BY <1>1, <4>3, <5>1 DEF MonitorExited, Sole
        <5>3. QED
          BY <4>2, <5>2 DEF Live
      <4>4. CASE mon[p] # "wait"
        BY <1>1, <2>4, <4>2, <4>4 DEF Sole
      <4>5. QED
        BY <4>3, <4>4
    <3>2. UNCHANGED <<nprocs, proc>> /\ state' \in {state, "stopped", "failed"}
          /\ \E l \in {"exited", "notified", "done"} : mon' = [mon EXCEPT ![p] = l]
      BY <1>4, <2>2, <2>4 DEF Monitor, MonitorBegin, MonitorExited, MonitorNotify, MonitorStopped, MonitorNoRestart,
              MonitorGivesUp, MonitorSchedules, MonitorCancelled, MonitorLock, MonitorSpawn, MonitorRestartFailed,
              MonGoto, MonDone, mgrVars, procVars
    <3>3. Live' = {}
      BY <3>1, <3>2 DEF Live
    <3>4. \A q \in Procs : mon'[q] \notin {"delay", "spawn", "restartFailed"}
      BY <1>1, <3>2 DEF StoppedInv
    <3>5. QED
      BY <2>1, <3>2, <3>3, <3>4 DEF StoppedInv
  <2>5. QED
    BY <1>4, <2>3, <2>4 DEF Monitor, MonitorExited, MonitorNotify, MonitorStopped, MonitorNoRestart,
            MonitorGivesUp, MonitorSchedules, MonitorCancelled, MonitorLock, MonitorSpawn, MonitorRestartFailed, Unexpected
<1>5. ASSUME NEW p \in Procs, ProcessExit(p) PROVE StoppedInv'
  <2>1. Live' \subseteq Live /\ UNCHANGED <<mon, cmd, state, nprocs, pc>>
    BY <1>1, <1>5 DEF ProcessExit, Live, mgrVars, monVars, callVars
  <2>2. QED
    BY <2>1 DEF StoppedInv
<1>6. CASE UNCHANGED vars
  BY <1>2, <1>6 DEF vars, mgrVars, procVars, monVars, callVars
<1>7. QED
  BY <1>3, <1>4, <1>5, <1>6 DEF Next

(* StateStopped "indicates the process is not running" (manager.go:30):    *)
(* true of a manager without automatic restarts that is started once.  The *)
(* restarts are what breaks it: a Stop made during the restart delay.      *)
THEOREM StoppedIsStopped ==
  ASSUME \A t \in Programs : OneStart(t)
  PROVE  Spec /\ ~restarts => []StoppedMeansNotRunning
<1>1. Init => StoppedInv
  BY DEF Init, StoppedInv, Live
<1>2. StoppedInv => StoppedMeansNotRunning
  BY DEF StoppedInv, StoppedMeansNotRunning
<1>3. ~restarts /\ TypeInv /\ WatchInv /\ StartInv /\ StoppedInv /\ [Next]_vars => StoppedInv'
  BY StoppedStep
<1>4. [Next]_vars => restarts' = restarts
  BY DEF Next, vars, mgrVars, ProcessExit, Caller, Start, StartLock, StartSpawn, Stop, StopLock, StopNoCmd,
     StopSignal, StopExited, StopTimeout, StopKillTimeout, StopCtxDone, Restart, RestartPause, Wait, WaitBegin,
     WaitReturn, Close, CloseBegin, CloseCancel, CloseJoin, CloseEvents, CloseOnce, Monitor, MonitorBegin,
     MonitorExited, MonitorNotify, MonitorStopped, MonitorNoRestart, MonitorGivesUp, MonitorSchedules,
     MonitorCancelled, MonitorLock, MonitorSpawn, MonitorRestartFailed
<1>5. ~restarts /\ [Next]_vars => ~restarts'
  BY <1>4
<1>6. QED
  BY <1>1, <1>2, <1>3, <1>5, Starting, PTL DEF Spec

-----------------------------------------------------------------------------
(* What Close waits for is on its way, whatever else runs: a holder of mu  *)
(* is spawning, which ends; the Once is held by a Close that goes on; a    *)
(* monitor that Close joins waits for a process that is being killed, or   *)
(* out a delay that the cancelled context ends (manager.go:466-486, 521,   *)
(* 581).  This is what CloseTerminates takes besides fairness.             *)
InClose == {"closeStop", "closeCancel", "closeJoin", "closeEvents"}
Spawning == {c \in Callers : pc[c] = "spawn"} \cup {p \in Procs : mon[p] = "spawn"}

CloseGoesOn ==
  /\ mu \in Spawning \cup {Free}
  /\ closed => eventsClosed \/ \E c \in Callers : pc[c] \in InClose
  /\ \A c \in Callers, p \in Procs : pc[c] = "closeJoin" =>
       /\ mon[p] = "delay" => ctxDone
       /\ mon[p] = "wait" /\ mcmd[p] \in Live => mcmd[p] \in Doomed

WaitInv ==
  /\ mu \in Spawning \cup {Free}
  /\ closed => eventsClosed \/ \E c \in Callers : pc[c] \in InClose
  /\ \A c \in Callers : pc[c] = "closeJoin" => ctxDone

(* Who is about to be Close's Stop is in a call of Close.                  *)
CloserInv == \A c \in Callers : pc[c] = "closeStop" => Head(todo[c]) = "close"

LEMMA CloserStep == TypeInv /\ CloserInv /\ [Next]_vars => CloserInv'
<1> SUFFICES ASSUME TypeInv, CloserInv, [Next]_vars PROVE CloserInv'
  OBVIOUS
<1>1. CallType
  BY DEF TypeInv
<1>2. CASE UNCHANGED <<pc, todo>>
  BY <1>2 DEF CloserInv
<1>3. ASSUME NEW c \in Callers, Caller(c) PROVE CloserInv'
  <2>1. ASSUME NEW l, l # "closeStop", pc' = [pc EXCEPT ![c] = l], \A d \in Callers \ {c} : todo'[d] = todo[d]
        PROVE  CloserInv'
    <3>1. \A d \in Callers : pc'[d] = "closeStop" => d # c /\ pc[d] = "closeStop"
      BY <1>1, <2>1 DEF CallType
    <3>2. QED
      BY <2>1, <3>1 DEF CloserInv
  <2>2. ASSUME Return(c) PROVE CloserInv'
    BY <1>1, <2>1, <2>2 DEF Return, CallType
  <2>3. ASSUME NEW ok, StopReturn(c, ok) PROVE CloserInv'
    BY <1>1, <2>1, <2>3, StopReturnPc
  <2>4. ASSUME NEW l, l # "closeStop", Goto(c, l), UNCHANGED todo PROVE CloserInv'
    BY <2>1, <2>4 DEF Goto
  <2>5. CASE StartLock(c) \/ StartSpawn(c) \/ WaitReturn(c) \/ CloseEvents(c) \/ CloseOnce(c)
    BY <2>2, <2>4, <2>5 DEF StartLock, StartSpawn, WaitReturn, CloseEvents, CloseOnce
  <2>6. CASE StopLock(c) \/ StopNoCmd(c) \/ StopExited(c) \/ StopKillTimeout(c) \/ StopCtxDone(c)
    <3>1. \/ \E ok \in BOOLEAN : StopReturn(c, ok)
          \/ UNCHANGED todo /\ (Goto(c, "stopCmd") \/ Goto(c, "stopSignal"))
      <4>1. CASE StopLock(c) /\ (closed \/ state # "running")
        BY <4>1 DEF StopLock, TypeInv, MgrType
      <4>2. CASE StopLock(c) /\ ~(closed \/ state # "running")
        BY <4>2 DEF StopLock
      <4>3. QED
        BY <2>6, <4>1, <4>2 DEF StopNoCmd, StopExited, StopKillTimeout, StopCtxDone
    <3>2. QED
      BY <2>3, <2>4, <3>1
  <2>7. CASE StopSignal(c) \/ StopTimeout(c) \/ WaitBegin(c)
    BY <2>4, <2>7 DEF StopSignal, StopTimeout, WaitBegin
  <2>8. CASE RestartPause(c)
    BY <2>2, <2>4, <2>8 DEF RestartPause
  <2>9. CASE CloseCancel(c) \/ CloseJoin(c)
    BY <2>4, <2>9 DEF CloseCancel, CloseJoin
  <2>10. CASE CloseBegin(c)
    <3>1. /\ Head(todo[c]) = "close" /\ UNCHANGED todo
          /\ \A d \in Callers : pc'[d] = "closeStop" => d = c \/ pc[d] = "closeStop"
      BY <1>1, <2>10 DEF CloseBegin, Called, Goto, CallType
    <3>2. QED
      BY <3>1 DEF CloserInv
  <2>11. QED
    BY <1>3, <2>5, <2>6, <2>7, <2>8, <2>9, <2>10 DEF Caller, Start, Stop, Restart, Wait, Close
<1>4. ASSUME NEW p \in Procs, Monitor(p) \/ ProcessExit(p) PROVE UNCHANGED <<pc, todo>>
  BY <1>4 DEF Monitor, MonitorBegin, MonitorExited, MonitorNotify, MonitorStopped, MonitorNoRestart, MonitorGivesUp,
              MonitorSchedules, MonitorCancelled, MonitorLock, MonitorSpawn, MonitorRestartFailed, ProcessExit, callVars
<1>5. CASE UNCHANGED vars
  BY <1>2, <1>5 DEF vars, callVars
<1>6. QED
  BY <1>2, <1>3, <1>4, <1>5 DEF Next

(* A step that leaves the holder of mu and every Close where they were.    *)
LEMMA WaitKept ==
  ASSUME WaitInv, UNCHANGED <<mu, closed, ctxDone, eventsClosed>>, Spawning \subseteq Spawning',
         \A c \in Callers : pc[c] \in InClose => pc'[c] \in InClose,
         \A c \in Callers : pc'[c] = "closeJoin" => pc[c] = "closeJoin"
  PROVE  WaitInv'
  BY DEF WaitInv

LEMMA CallerWait ==
  ASSUME SendInv, CloserInv, WaitInv, NEW c \in Callers, Caller(c)
  PROVE  WaitInv'
<1> USE DEF mgrVars
<1>1. pc \in [Callers -> CallPcs] /\ mon \in [Procs -> MonPcs] /\ CallType /\ closed \in BOOLEAN
  BY DEF SendInv, TypeInv, CallType, MonType, MgrType
<1>2. ASSUME NEW l \in CallPcs, pc' = [pc EXCEPT ![c] = l], pc[c] # "spawn", pc[c] \in InClose => l \in InClose,
             l # "closeJoin", UNCHANGED <<mu, closed, ctxDone, eventsClosed, mon>>
      PROVE  WaitInv'
  <2>1. \A d \in Callers : pc'[d] = IF d = c THEN l ELSE pc[d]
    BY <1>1, <1>2
  <2>2. Spawning \subseteq Spawning'
    BY <1>2, <2>1 DEF Spawning
  <2>3. QED
    BY <1>2, <2>1, <2>2, WaitKept
<1>3. CallPcs = {"idle", "start", "spawn", "stopCmd", "stopSignal", "stopWait", "stopKill", "pause", "waiting",
                 "closeStop", "closeCancel", "closeJoin", "closeEvents", "closeOnce"}
  BY DEF CallPcs
<1>4. CASE StartLock(c)
  <2>1. pc[c] \in {"idle", "start"}
    BY <1>4 DEF StartLock, Called
  <2>2. CASE Return(c) /\ UNCHANGED mu
    BY <1>2, <1>3, <1>4, <2>1, <2>2 DEF Return, StartLock, monVars, InClose
  <2>3. CASE mu' = c /\ Goto(c, "spawn")
    <3>1. \A d \in Callers : pc'[d] = IF d = c THEN "spawn" ELSE pc[d]
      BY <1>1, <2>3 DEF Goto
    <3>2. UNCHANGED <<closed, ctxDone, eventsClosed>> /\ c \in Spawning'
      BY <1>4, <3>1 DEF StartLock, Spawning
    <3>3. QED
      BY <2>1, <2>3, <3>1, <3>2 DEF WaitInv, InClose
  <2>4. QED
    BY <1>4, <2>2, <2>3 DEF StartLock
<1>5. CASE StartSpawn(c)
  <2>1. pc[c] = "spawn" /\ mu' = Free /\ UNCHANGED <<closed, ctxDone, eventsClosed>>
    BY <1>5 DEF StartSpawn
  <2>2. \A d \in Callers : pc'[d] = IF d = c THEN "idle" ELSE pc[d]
    BY <1>1, <1>5 DEF StartSpawn, Return
  <2>3. QED
    BY <2>1, <2>2 DEF WaitInv, InClose
<1>6. ASSUME NEW ok, StopReturn(c, ok), pc[c] \notin {"spawn", "closeCancel", "closeJoin", "closeEvents"},
             pc[c] = "closeStop" => Head(todo[c]) = "close", UNCHANGED <<mu, closed, ctxDone, eventsClosed, mon>>
      PROVE  WaitInv'
  <2>1. PICK l \in {"pause", "closeCancel", "idle"} :
               pc' = [pc EXCEPT ![c] = l] /\ (l = "closeCancel" <=> Head(todo[c]) = "close")
    BY <1>1, <1>6, StopReturnPc
  <2>2. QED
    BY <1>2, <1>3, <1>6, <2>1 DEF InClose
<1>7. CASE StopLock(c)
  <2>1. pc[c] \in {"idle", "closeStop"} /\ UNCHANGED <<mu, closed, ctxDone, eventsClosed, mon>>
    BY <1>7 DEF StopLock, Called, monVars
  <2>2. CASE StopReturn(c, ~closed)
    BY <1>6, <2>1, <2>2 DEF CloserInv
  <2>3. CASE ~closed /\ \E l \in {"stopCmd", "stopSignal"} : Goto(c, l)
    BY <1>2, <1>3, <2>1, <2>3 DEF Goto, SendInv, CloseInv, InClose
  <2>4. QED
    BY <1>7, <2>2, <2>3 DEF StopLock
<1>8. CASE StopNoCmd(c) \/ StopExited(c) \/ StopKillTimeout(c) \/ StopCtxDone(c)
  <2>1. pc[c] \in StopPcs /\ UNCHANGED <<mu, closed, ctxDone, eventsClosed, mon>>
    BY <1>8 DEF StopNoCmd, StopExited, StopKillTimeout, StopCtxDone, StopPcs, monVars
  <2>2. \E ok \in BOOLEAN : StopReturn(c, ok)
    BY <1>8 DEF StopNoCmd, StopExited, StopKillTimeout, StopCtxDone
  <2>3. QED
    BY <1>6, <2>1, <2>2 DEF StopPcs
<1>9. CASE StopSignal(c) \/ StopTimeout(c) \/ WaitBegin(c) \/ RestartPause(c) \/ WaitReturn(c)
  <2>1. /\ pc[c] \in {"stopSignal", "stopWait", "idle", "pause", "waiting"}
        /\ UNCHANGED <<mu, closed, ctxDone, eventsClosed, mon>>
    BY <1>9 DEF StopSignal, StopTimeout, WaitBegin, RestartPause, WaitReturn, Called, monVars
  <2>2. \E l \in {"stopWait", "stopKill", "waiting", "start", "idle"} : pc' = [pc EXCEPT ![c] = l]
    BY <1>9 DEF StopSignal, StopTimeout, WaitBegin, RestartPause, WaitReturn, Goto, Return
  <2>3. QED
    BY <1>2, <1>3, <2>1, <2>2 DEF InClose
<1>10. CASE CloseBegin(c)
  <2>1. /\ pc[c] = "idle" /\ closed' /\ UNCHANGED <<mu, ctxDone, eventsClosed, mon>>
        /\ pc' = [pc EXCEPT ![c] = IF closed THEN "closeOnce" ELSE "closeStop"]
    BY <1>10 DEF CloseBegin, Called, Goto, monVars
  <2>2. CASE closed
    BY <1>1, <1>2, <1>3, <2>1, <2>2 DEF InClose
  <2>3. CASE ~closed
    <3>1. \A d \in Callers : pc'[d] = IF d = c THEN "closeStop" ELSE pc[d]
      BY <1>1, <2>1, <2>3
    <3>2. Spawning \subseteq Spawning'
      BY <2>1, <3>1 DEF Spawning
    <3>3. QED
      BY <2>1, <3>1, <3>2 DEF WaitInv, InClose
  <2>4. QED
    BY <2>2, <2>3
<1>11. CASE CloseCancel(c)
  <2>1. pc[c] = "closeCancel" /\ ctxDone' /\ UNCHANGED <<mu, closed, eventsClosed, mon>>
    BY <1>11 DEF CloseCancel, monVars
  <2>2. \A d \in Callers : pc'[d] = IF d = c THEN "closeJoin" ELSE pc[d]
    BY <1>1, <1>11 DEF CloseCancel, Goto
  <2>3. Spawning \subseteq Spawning'
    BY <2>1, <2>2 DEF Spawning
  <2>4. QED
    BY <2>1, <2>2, <2>3 DEF WaitInv, InClose
<1>12. CASE CloseJoin(c)
  <2>1. pc[c] = "closeJoin" /\ UNCHANGED <<mu, closed, ctxDone, eventsClosed, mon>>
    BY <1>12 DEF CloseJoin, monVars
  <2>2. pc' = [pc EXCEPT ![c] = "closeEvents"]
    BY <1>12 DEF CloseJoin, Goto
  <2>3. QED
    BY <1>2, <1>3, <2>1, <2>2 DEF InClose
<1>13. CASE CloseEvents(c)
  <2>1. pc[c] = "closeEvents" /\ eventsClosed' /\ UNCHANGED <<mu, closed, ctxDone, mon>>
    BY <1>13 DEF CloseEvents, monVars
  <2>2. \A d \in Callers : pc'[d] = IF d = c THEN "idle" ELSE pc[d]
    BY <1>1, <1>13 DEF CloseEvents, Return
  <2>3. Spawning \subseteq Spawning'
    BY <2>1, <2>2 DEF Spawning
  <2>4. QED
    BY <2>1, <2>2, <2>3 DEF WaitInv, InClose
<1>14. CASE CloseOnce(c)
  <2>1. pc[c] = "closeOnce" /\ pc' = [pc EXCEPT ![c] = "idle"] /\ UNCHANGED <<mu, closed, ctxDone, eventsClosed, mon>>
    BY <1>14 DEF CloseOnce, Return, monVars
  <2>2. QED
    BY <1>2, <1>3, <2>1 DEF InClose
<1>15. QED
  BY <1>4, <1>5, <1>7, <1>8, <1>9, <1>10, <1>11, <1>12, <1>13, <1>14 DEF Caller, Start, Stop, Restart, Wait, Close

LEMMA MonitorWait ==
  ASSUME SendInv, WaitInv, NEW p \in Procs, Monitor(p)
  PROVE  WaitInv'
<1> USE DEF mgrVars, callVars
<1>1. mon \in [Procs -> MonPcs]
  BY DEF SendInv, TypeInv, MonType
<1>2. UNCHANGED <<pc, closed, ctxDone, eventsClosed>>
  BY DEF Monitor, MonitorBegin, MonitorExited, MonitorNotify, MonitorStopped, MonitorNoRestart, MonitorGivesUp,
         MonitorSchedules, MonitorCancelled, MonitorLock, MonitorSpawn, MonitorRestartFailed
<1>3. ASSUME mon[p] # "spawn", \E l : mon' = [mon EXCEPT ![p] = l], UNCHANGED mu
      PROVE  WaitInv'
  <2>1. Spawning \subseteq Spawning'
    BY <1>1, <1>2, <1>3 DEF Spawning
  <2>2. QED
    BY <1>2, <1>3, <2>1, WaitKept
<1>4. CASE \/ MonitorBegin(p) \/ MonitorExited(p) \/ MonitorNotify(p) \/ MonitorStopped(p)
           \/ MonitorCancelled(p) \/ MonitorRestartFailed(p)
  <2>1. mon[p] # "spawn" /\ UNCHANGED mu
    BY <1>4 DEF MonitorBegin, MonitorExited, MonitorNotify, MonitorStopped, MonitorCancelled, MonitorRestartFailed
  <2>2. \E l : mon' = [mon EXCEPT ![p] = l]
    BY <1>4 DEF MonitorBegin, MonitorExited, MonitorNotify, MonitorStopped, MonitorCancelled, MonitorRestartFailed,
                MonDone, MonGoto
  <2>3. QED
    BY <1>3, <2>1, <2>2
<1>5. CASE MonitorNoRestart(p) \/ MonitorGivesUp(p) \/ MonitorSchedules(p)
  <2>1. mon[p] # "spawn" /\ UNCHANGED mu
    BY <1>5 DEF MonitorNoRestart, MonitorGivesUp, MonitorSchedules, Unexpected
  <2>2. \E l : mon' = [mon EXCEPT ![p] = l]
    BY <1>5 DEF MonitorNoRestart, MonitorGivesUp, MonitorSchedules, MonGoto
  <2>3. QED
    BY <1>3, <2>1, <2>2
<1>6. CASE MonitorLock(p)
  <2>1. mon[p] = "delay"
    BY <1>6 DEF MonitorLock
  <2>2. CASE UNCHANGED mu
    BY <1>3, <1>6, <2>1, <2>2 DEF MonitorLock, MonGoto
  <2>3. CASE mu' = p /\ MonGoto(p, "spawn")
    <3>1. p \in Spawning'
      BY <1>1, <2>3 DEF Spawning, MonGoto
    <3>2. QED
      BY <1>2, <2>3, <3>1 DEF WaitInv
  <2>4. QED
    BY <1>6, <2>2, <2>3 DEF MonitorLock
<1>7. CASE MonitorSpawn(p)
  <2>1. mu' = Free
    BY <1>7 DEF MonitorSpawn
  <2>2. QED
    BY <1>2, <2>1 DEF WaitInv
<1>8. QED
  BY <1>4, <1>5, <1>6, <1>7 DEF Monitor

(* Nothing that a Close waits for is stuck: what CloseTerminates needs     *)
(* besides fairness.                                                       *)
THEOREM ClosesGoOn == Spec => []CloseGoesOn
<1>1. Init => CloserInv /\ WaitInv
  BY DEF Init, CloserInv, WaitInv
<1>2. SendInv /\ CloserInv /\ WaitInv /\ [Next]_vars => WaitInv'
  <2> SUFFICES ASSUME SendInv, CloserInv, WaitInv, [Next]_vars PROVE WaitInv'
    OBVIOUS
  <2>1. ASSUME NEW p \in Procs, ProcessExit(p) PROVE WaitInv'
    <3>1. UNCHANGED <<mu, closed, ctxDone, eventsClosed, pc, mon>>
      BY <2>1 DEF ProcessExit, mgrVars, monVars, callVars
    <3>2. QED
      BY <3>1, WaitKept DEF Spawning
  <2>2. CASE UNCHANGED vars
    <3>1. UNCHANGED <<mu, closed, ctxDone, eventsClosed, pc, mon>>
      BY <2>2 DEF vars, mgrVars, monVars, callVars
    <3>2. QED
      BY <3>1, WaitKept DEF Spawning
  <2>3. QED
    BY <2>1, <2>2, CallerWait, MonitorWait DEF Next
<1>3. SendInv /\ CloserInv /\ [Next]_vars => SendInv' /\ CloserInv'
  BY SendStep, CloserStep DEF SendInv
<1>4. WaitInv => CloseGoesOn
  BY DEF WaitInv, CloseGoesOn, Doomed
<1>5. QED
  BY <1>1, <1>2, <1>3, <1>4, SendInit, PTL DEF Spec
=============================================================================
