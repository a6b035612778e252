--------------------------- MODULE ProcessManager ---------------------------
(***************************************************************************)
(* The subprocess manager of internal/process/manager.go.                  *)
(*                                                                         *)
(* Goroutines of two kinds share the manager:                              *)
(*   - callers of the API (Start, Stop, Restart, Wait, Close);             *)
(*   - one monitor per process that startLocked has spawned.               *)
(* A critical section under m.mu is one action; startLocked, which may     *)
(* take long, holds mu over two actions.  Everything the code does outside *)
(* mu is an action of its own: those windows are what this module is for.  *)
(*                                                                         *)
(* Processes are numbered in the order they are spawned.  m.cmd, m.stdin,  *)
(* m.stdout, m.stderr and m.pid are set together and cleared together      *)
(* under mu, so one variable, cmd, stands for them (0 is nil).  Channel p  *)
(* of exitSent is the waitCh made for process p (0: the one of NewManager).*)
(***************************************************************************)
EXTENDS Integers, Sequences, FiniteSets

CONSTANTS
  Callers,           \* goroutines that call the Manager interface
  Programs,          \* what calls they make: a set of functions Callers -> Seq(Ops)
  MaxProcs,          \* bound of the model: processes spawned
  MaxRestarts,       \* ManagerConfig.MaxRestarts, 0 is unlimited
  Free               \* mu is not held

Ops == {"start", "stop", "restart", "wait", "close"}
Procs == 1..MaxProcs

ASSUME ManagerAssumption ==
  /\ MaxProcs \in Nat \ {0}
  /\ MaxRestarts \in Nat
  /\ Programs \subseteq [Callers -> Seq(Ops)]
  /\ Callers \cap Procs = {}
  /\ Free \notin Callers \cup Procs

VARIABLES
  restarts,      \* m.cfg.RestartOnFailure
  mu,            \* holder of m.mu across actions: a caller, a monitor, Free
  state,         \* m.state
  closed,        \* m.closed
  ctxDone,       \* m.ctx is cancelled
  eventsClosed,  \* close(m.events) has run
  panicked,      \* a goroutine sent on the closed events channel
  restartCount,  \* m.restartCount
  cmd,           \* m.cmd, the pipes and m.pid
  waitCh,        \* m.waitCh
  exitSent,      \* channel -> it holds an exit result
  nprocs,        \* processes spawned so far
  auto,          \* those that monitors spawned
  proc,          \* the operating system's view of each process
  killed,        \* processes that were sent SIGKILL
  mon,           \* program counter of each monitor
  mcmd,          \* monitor's local cmd
  mstop,         \* monitor's local wasStopping
  mch,           \* the waitCh in place when the monitor last held mu
  pc,            \* program counter of each caller
  todo,          \* calls each caller has not completed
  scmd,          \* Stop's local cmd
  sch            \* the waitCh a caller saw when it last held mu

mgrVars  == <<restarts, mu, state, closed, ctxDone, eventsClosed, panicked, restartCount>>
procVars == <<cmd, waitCh, exitSent, nprocs, auto, proc, killed>>
monVars  == <<mon, mcmd, mstop, mch>>
callVars == <<pc, todo, scmd, sch>>
vars == <<mgrVars, procVars, monVars, callVars>>

States  == {"stopped", "starting", "running", "stopping", "failed"}
MonPcs  == {"none", "begin", "wait", "exited", "notified", "delay", "spawn", "restartFailed", "done"}
CallPcs == {"idle", "start", "spawn", "stopCmd", "stopSignal", "stopWait",
            "stopKill", "pause", "waiting", "closeStop", "closeCancel",
            "closeJoin", "closeEvents", "closeOnce"}

Spawned  == 1..nprocs
Live     == {p \in Procs : proc[p] = "live"}
Doomed   == {p \in Live : p \in killed \/ ctxDone}

Init ==
  /\ restarts \in BOOLEAN
  /\ mu = Free /\ state = "stopped"
  /\ closed = FALSE /\ ctxDone = FALSE /\ eventsClosed = FALSE /\ panicked = FALSE
  /\ restartCount = 0 /\ cmd = 0 /\ waitCh = 0 /\ nprocs = 0 /\ auto = {} /\ killed = {}
  /\ exitSent = [ch \in 0..MaxProcs |-> FALSE]
  /\ proc  = [p \in Procs |-> "none"]
  /\ mon   = [p \in Procs |-> "none"]
  /\ mcmd  = [p \in Procs |-> 0]
  /\ mstop = [p \in Procs |-> FALSE]
  /\ mch   = [p \in Procs |-> 0]
  /\ pc    = [c \in Callers |-> "idle"]
  /\ todo  \in Programs
  /\ scmd  = [c \in Callers |-> 0]
  /\ sch   = [c \in Callers |-> 0]

-----------------------------------------------------------------------------
(* sendEvent: a send on the closed channel panics.  What the buffer holds  *)
(* is not part of this module.                                             *)
SendEvent == panicked' = (panicked \/ eventsClosed)

(* Mutant: the new process reuses the old waitCh, not even drained. *)
SpawnOK_SameWaitCh(mon2) ==
  /\ nprocs < MaxProcs
  /\ nprocs' = nprocs + 1
  /\ proc' = [proc EXCEPT ![nprocs + 1] = "live"]
  /\ cmd' = nprocs + 1
  /\ state' = "running"
  /\ mon' = [mon2 EXCEPT ![nprocs + 1] = "begin"]
  /\ SendEvent
  /\ UNCHANGED <<exitSent, waitCh>>

(* The spawning half of startLocked; mon2 is the monitors' new program     *)
(* counters without the new monitor.                                       *)
SpawnOK(mon2) ==
  /\ nprocs < MaxProcs
  /\ nprocs' = nprocs + 1
  /\ proc' = [proc EXCEPT ![nprocs + 1] = "live"]
  /\ cmd' = nprocs + 1
  /\ state' = "running"
  /\ exitSent' = [exitSent EXCEPT ![waitCh] = FALSE]
  /\ waitCh' = nprocs + 1
  /\ mon' = [mon2 EXCEPT ![nprocs + 1] = "begin"]
  /\ SendEvent

(* Making a pipe or cmd.Start failed. *)
SpawnFail(mon2) ==
  /\ state' = "failed"
  /\ mon' = mon2
  /\ UNCHANGED <<nprocs, proc, cmd, exitSent, waitCh, panicked>>

-----------------------------------------------------------------------------
(* The callers. *)

Called(c, op) == pc[c] = "idle" /\ todo[c] # <<>> /\ Head(todo[c]) = op
Goto(c, label) == pc' = [pc EXCEPT ![c] = label]

(* The call returns to the program that made it. *)
Return(c) ==
  /\ pc'   = [pc EXCEPT ![c] = "idle"]
  /\ todo' = [todo EXCEPT ![c] = Tail(todo[c])]
  /\ scmd' = [scmd EXCEPT ![c] = 0]
  /\ sch'  = [sch EXCEPT ![c] = 0]

(* Stop's result reaches whoever called it: the program, Restart or Close. *)
StopReturn(c, ok) ==
  CASE Head(todo[c]) = "restart" /\ ok -> Goto(c, "pause") /\ UNCHANGED <<todo, scmd, sch>>
    [] Head(todo[c]) = "close"         -> Goto(c, "closeCancel") /\ UNCHANGED <<todo, scmd, sch>>
    [] OTHER                           -> Return(c)

StartRefused == closed \/ state \in {"running", "starting"}

StartLock(c) ==
  /\ Called(c, "start") \/ pc[c] = "start"
  /\ mu = Free
  /\ \/ /\ StartRefused
        /\ Return(c)
        /\ UNCHANGED <<mu, state>>
     \/ /\ ~StartRefused
        /\ mu' = c
        /\ state' = "starting"
        /\ Goto(c, "spawn")
        /\ UNCHANGED <<todo, scmd, sch>>
  /\ UNCHANGED <<restarts, closed, ctxDone, eventsClosed, panicked, restartCount, procVars, monVars>>

StartSpawn(c) ==
  /\ pc[c] = "spawn"
  /\ SpawnOK(mon) \/ SpawnFail(mon)
  /\ mu' = Free
  /\ Return(c)
  /\ UNCHANGED <<restarts, closed, ctxDone, eventsClosed, restartCount, auto, killed, mcmd, mstop, mch>>

(* Stop's first critical section. *)
StopLock(c) ==
  /\ Called(c, "stop") \/ Called(c, "restart") \/ pc[c] = "closeStop"
  /\ mu = Free
  /\ \/ /\ closed \/ state # "running"
        /\ StopReturn(c, ~closed)
        /\ UNCHANGED state
     \/ /\ ~closed /\ state = "running"
        /\ state' = "stopping"
        /\ scmd' = [scmd EXCEPT ![c] = cmd]
        /\ Goto(c, IF cmd = 0 THEN "stopCmd" ELSE "stopSignal")
        /\ UNCHANGED <<todo, sch>>
  /\ UNCHANGED <<restarts, mu, closed, ctxDone, eventsClosed, panicked, restartCount, procVars, monVars>>

(* There was no process: the state is stored without mu. *)
StopNoCmd(c) ==
  /\ pc[c] = "stopCmd"
  /\ state' = "stopped"
  /\ StopReturn(c, TRUE)
  /\ UNCHANGED <<restarts, mu, closed, ctxDone, eventsClosed, panicked, restartCount, procVars, monVars>>

(* Stdin is closed under mu and SIGTERM sent: the process may now exit, as *)
(* it may at any time.  If SIGTERM cannot be sent, SIGKILL is.             *)
StopSignal(c) ==
  /\ pc[c] = "stopSignal"
  /\ mu = Free
  /\ sch' = [sch EXCEPT ![c] = waitCh]
  /\ killed' \in {killed, killed \cup ({scmd[c]} \cap Live)}
  /\ Goto(c, "stopWait")
  /\ UNCHANGED <<mgrVars, cmd, waitCh, exitSent, nprocs, auto, proc, monVars, todo, scmd>>

(* The select on m.waitCh.  The field is read without mu, so the channel   *)
(* may be any that was current since the caller last held mu.              *)
StopExited(c) ==
  /\ pc[c] \in {"stopWait", "stopKill"}
  /\ \E ch \in sch[c]..waitCh :
        /\ exitSent[ch]
        /\ exitSent' = [exitSent EXCEPT ![ch] = FALSE]
  /\ StopReturn(c, TRUE)
  /\ UNCHANGED <<mgrVars, cmd, waitCh, nprocs, auto, proc, killed, monVars>>

(* The graceful timeout: SIGKILL, and one more second for the exit. *)
StopTimeout(c) ==
  /\ pc[c] = "stopWait"
  /\ killed' = killed \cup ({scmd[c]} \cap Live)
  /\ Goto(c, "stopKill")
  /\ UNCHANGED <<mgrVars, cmd, waitCh, exitSent, nprocs, auto, proc, monVars, todo, scmd, sch>>

StopKillTimeout(c) ==
  /\ pc[c] = "stopKill"
  /\ StopReturn(c, TRUE)
  /\ UNCHANGED <<mgrVars, procVars, monVars>>

(* The caller's context ended: SIGKILL, and Stop returns its error. *)
StopCtxDone(c) ==
  /\ pc[c] = "stopWait"
  /\ killed' = killed \cup ({scmd[c]} \cap Live)
  /\ StopReturn(c, FALSE)
  /\ UNCHANGED <<mgrVars, cmd, waitCh, exitSent, nprocs, auto, proc, monVars>>

(* Restart waits 100 ms between Stop and Start, or the caller gives up. *)
RestartPause(c) ==
  /\ pc[c] = "pause"
  /\ \/ Goto(c, "start") /\ UNCHANGED <<todo, scmd, sch>>
     \/ Return(c)
  /\ UNCHANGED <<mgrVars, procVars, monVars>>

WaitBegin(c) ==
  /\ Called(c, "wait")
  /\ mu = Free
  /\ sch' = [sch EXCEPT ![c] = waitCh]
  /\ Goto(c, "waiting")
  /\ UNCHANGED <<mgrVars, procVars, monVars, todo, scmd>>

(* The result is put back for other waiters. *)
WaitReturn(c) ==
  /\ pc[c] = "waiting"
  /\ exitSent[sch[c]] \/ ctxDone
  /\ Return(c)
  /\ UNCHANGED <<mgrVars, procVars, monVars>>

(* closedOnce: the first caller runs the body, the others wait for it. *)
CloseBegin(c) ==
  /\ Called(c, "close")
  /\ closed' = TRUE
  /\ Goto(c, IF closed THEN "closeOnce" ELSE "closeStop")
  /\ UNCHANGED <<restarts, mu, state, ctxDone, eventsClosed, panicked, restartCount,
                 procVars, monVars, todo, scmd, sch>>

(* Mutant: the monitors are not told to stop. *)
CloseCancel_NoCancel(c) ==
  /\ pc[c] = "closeCancel"
  /\ Goto(c, "closeJoin")
  /\ UNCHANGED <<mgrVars, procVars, monVars, todo, scmd, sch>>

(* m.cancel(): exec.CommandContext kills every process that still runs. *)
CloseCancel(c) ==
  /\ pc[c] = "closeCancel"
  /\ ctxDone' = TRUE
  /\ Goto(c, "closeJoin")
  /\ UNCHANGED <<restarts, mu, state, closed, eventsClosed, panicked, restartCount,
                 procVars, monVars, todo, scmd, sch>>

(* Mutant: Close does not wait for the monitors. *)
CloseJoin_NoWait(c) ==
  /\ pc[c] = "closeJoin"
  /\ Goto(c, "closeEvents")
  /\ UNCHANGED <<mgrVars, procVars, monVars, todo, scmd, sch>>

(* m.monitorWg.Wait() *)
CloseJoin(c) ==
  /\ pc[c] = "closeJoin"
  /\ \A p \in Procs : mon[p] \in {"none", "done"}
  /\ Goto(c, "closeEvents")
  /\ UNCHANGED <<mgrVars, procVars, monVars, todo, scmd, sch>>

CloseEvents(c) ==
  /\ pc[c] = "closeEvents"
  /\ eventsClosed' = TRUE
  /\ Return(c)
  /\ UNCHANGED <<restarts, mu, state, closed, ctxDone, panicked, restartCount, procVars, monVars>>

CloseOnce(c) ==
  /\ pc[c] = "closeOnce"
  /\ eventsClosed
  /\ Return(c)
  /\ UNCHANGED <<mgrVars, procVars, monVars>>

-----------------------------------------------------------------------------
(* The monitors. *)

MonGoto(p, label) ==
  /\ mon' = [mon EXCEPT ![p] = label]
  /\ UNCHANGED <<mcmd, mstop, mch>>

MonDone(p) == [mon EXCEPT ![p] = "done"]

(* Mutant: the monitor looks at the state instead of at cmd. *)
MonitorBegin_IfRunning(p) ==
  /\ mon[p] = "begin"
  /\ mu = Free
  /\ mon' = [mon EXCEPT ![p] = IF state # "running" THEN "done" ELSE "wait"]
  /\ mcmd' = [mcmd EXCEPT ![p] = cmd]
  /\ UNCHANGED <<mgrVars, procVars, mstop, mch, callVars>>

MonitorBegin(p) ==
  /\ mon[p] = "begin"
  /\ mu = Free
  /\ mon' = [mon EXCEPT ![p] = IF cmd = 0 THEN "done" ELSE "wait"]
  /\ mcmd' = [mcmd EXCEPT ![p] = cmd]
  /\ UNCHANGED <<mgrVars, procVars, mstop, mch, callVars>>

(* Mutant: any return of cmd.Wait, an error of the call itself too, is     *)
(* taken for the exit of the process.                                      *)
MonitorExited_Early(p) ==
  /\ mon[p] = "wait"
  /\ mu = Free
  /\ mstop' = [mstop EXCEPT ![p] = (state = "stopping")]
  /\ mch' = [mch EXCEPT ![p] = waitCh]
  /\ cmd' = 0
  /\ mon' = [mon EXCEPT ![p] = "exited"]
  /\ UNCHANGED <<mgrVars, waitCh, exitSent, nprocs, auto, proc, killed, mcmd, callVars>>

(* cmd.Wait returned; the critical section clears whatever cmd is current. *)
MonitorExited(p) ==
  /\ mon[p] = "wait"
  /\ proc[mcmd[p]] # "live"
  /\ mu = Free
  /\ mstop' = [mstop EXCEPT ![p] = (state = "stopping")]
  /\ mch' = [mch EXCEPT ![p] = waitCh]
  /\ cmd' = 0
  /\ mon' = [mon EXCEPT ![p] = "exited"]
  /\ UNCHANGED <<mgrVars, waitCh, exitSent, nprocs, auto, proc, killed, mcmd, callVars>>

(* The exit is reported on m.waitCh, a field read without mu. *)
MonitorNotify(p) ==
  /\ mon[p] = "exited"
  /\ \E ch \in mch[p]..waitCh : exitSent' = [exitSent EXCEPT ![ch] = TRUE]
  /\ mch' = [mch EXCEPT ![p] = 0]
  /\ mon' = [mon EXCEPT ![p] = "notified"]
  /\ UNCHANGED <<mgrVars, mcmd, mstop, cmd, waitCh, nprocs, auto, proc, killed, callVars>>

MonitorStopped(p) ==
  /\ mon[p] = "notified"
  /\ mstop[p] \/ closed
  /\ state' = "stopped"
  /\ SendEvent
  /\ mon' = MonDone(p)
  /\ mstop' = [mstop EXCEPT ![p] = FALSE]
  /\ UNCHANGED <<restarts, mcmd, mch, mu, closed, ctxDone, eventsClosed, restartCount, procVars, callVars>>

Unexpected(p) == mon[p] = "notified" /\ ~mstop[p] /\ ~closed
(* Mutant: the limit is compared before the counter is incremented. *)
LimitReached_OffByOne == MaxRestarts > 0 /\ restartCount > MaxRestarts

LimitReached == MaxRestarts > 0 /\ restartCount + 1 > MaxRestarts

(* Mutant: without automatic restarts the exit is only reported. *)
MonitorNoRestart_KeepState(p) ==
  /\ Unexpected(p)
  /\ ~restarts
  /\ SendEvent
  /\ MonGoto(p, "done")
  /\ UNCHANGED <<restarts, mu, state, closed, ctxDone, eventsClosed, restartCount, procVars, callVars>>

MonitorNoRestart(p) ==
  /\ Unexpected(p)
  /\ ~restarts
  /\ state' = "failed"
  /\ SendEvent
  /\ MonGoto(p, "done")
  /\ UNCHANGED <<restarts, mu, closed, ctxDone, eventsClosed, restartCount, procVars, callVars>>

(* Mutant: giving up leaves the state as it was. *)
MonitorGivesUp_KeepState(p) ==
  /\ Unexpected(p)
  /\ restarts /\ LimitReached
  /\ restartCount' = restartCount + 1
  /\ SendEvent
  /\ MonGoto(p, "done")
  /\ UNCHANGED <<restarts, mu, state, closed, ctxDone, eventsClosed, procVars, callVars>>

MonitorGivesUp(p) ==
  /\ Unexpected(p)
  /\ restarts /\ LimitReached
  /\ restartCount' = restartCount + 1
  /\ state' = "failed"
  /\ SendEvent
  /\ MonGoto(p, "done")
  /\ UNCHANGED <<restarts, mu, closed, ctxDone, eventsClosed, procVars, callVars>>

(* The state stays what it was, "running", all through the delay. *)
MonitorSchedules(p) ==
  /\ Unexpected(p)
  /\ restarts /\ ~LimitReached
  /\ restartCount' = restartCount + 1
  /\ SendEvent
  /\ MonGoto(p, "delay")
  /\ UNCHANGED <<restarts, mu, state, closed, ctxDone, eventsClosed, procVars, callVars>>

MonitorCancelled(p) ==
  /\ mon[p] = "delay"
  /\ ctxDone
  /\ state' = "stopped"
  /\ MonGoto(p, "done")
  /\ UNCHANGED <<restarts, mu, closed, ctxDone, eventsClosed, panicked, restartCount, procVars, callVars>>

(* RestartDelay is over: the second critical section.  Only closed is      *)
(* looked at; a Stop made during the delay is not.                         *)
MonitorLock(p) ==
  /\ mon[p] = "delay"
  /\ mu = Free
  /\ \/ /\ closed
        /\ state' = "stopped"
        /\ MonGoto(p, "done")
        /\ UNCHANGED mu
     \/ /\ ~closed
        /\ mu' = p
        /\ state' = "starting"
        /\ MonGoto(p, "spawn")
  /\ UNCHANGED <<restarts, closed, ctxDone, eventsClosed, panicked, restartCount, procVars, callVars>>

MonitorSpawn(p) ==
  /\ mon[p] = "spawn"
  /\ \/ SpawnOK(MonDone(p)) /\ auto' = auto \cup {nprocs + 1}
     \/ SpawnFail([mon EXCEPT ![p] = "restartFailed"]) /\ UNCHANGED auto
  /\ mu' = Free
  /\ UNCHANGED <<restarts, closed, ctxDone, eventsClosed, restartCount, killed, mcmd, mstop, mch, callVars>>

(* The failure is stored once more, after mu has been released.            *)
MonitorRestartFailed(p) ==
  /\ mon[p] = "restartFailed"
  /\ state' = "failed"
  /\ SendEvent
  /\ MonGoto(p, "done")
  /\ UNCHANGED <<restarts, mu, closed, ctxDone, eventsClosed, restartCount, procVars, callVars>>

-----------------------------------------------------------------------------
(* The operating system: a process may exit at any time. *)
ProcessExit(p) ==
  /\ p \in Live
  /\ proc' = [proc EXCEPT ![p] = "exited"]
  /\ UNCHANGED <<mgrVars, cmd, waitCh, exitSent, nprocs, auto, killed, monVars, callVars>>

Start(c)   == StartLock(c) \/ StartSpawn(c)
Stop(c)    == StopLock(c) \/ StopNoCmd(c) \/ StopSignal(c) \/ StopExited(c)
                \/ StopTimeout(c) \/ StopKillTimeout(c) \/ StopCtxDone(c)
Restart(c) == RestartPause(c)
Wait(c)    == WaitBegin(c) \/ WaitReturn(c)
Close(c)   == CloseBegin(c) \/ CloseCancel(c) \/ CloseJoin(c) \/ CloseEvents(c) \/ CloseOnce(c)

Caller(c)  == Start(c) \/ Stop(c) \/ Restart(c) \/ Wait(c) \/ Close(c)

Monitor(p) == \/ MonitorBegin(p) \/ MonitorExited(p) \/ MonitorNotify(p)
              \/ MonitorStopped(p) \/ MonitorNoRestart(p) \/ MonitorGivesUp(p)
              \/ MonitorSchedules(p) \/ MonitorCancelled(p)
              \/ MonitorLock(p) \/ MonitorSpawn(p) \/ MonitorRestartFailed(p)

Next == \/ \E c \in Callers : Caller(c)
        \/ \E p \in Procs : Monitor(p) \/ ProcessExit(p)

(* Goroutines that can run do, timers fire, and a killed process dies.  A  *)
(* process that was not killed need not exit, and a program need not make  *)
(* its next call.                                                          *)
Fairness ==
  /\ \A c \in Callers : WF_vars(pc[c] # "idle" /\ Caller(c))
  /\ \A p \in Procs : WF_vars(Monitor(p)) /\ WF_vars(p \in Doomed /\ ProcessExit(p))

Spec == Init /\ [][Next]_vars
FairSpec == Spec /\ Fairness

-----------------------------------------------------------------------------
TypeOK ==
  /\ restarts \in BOOLEAN /\ mu \in Callers \cup Procs \cup {Free}
  /\ state \in States
  /\ closed \in BOOLEAN /\ ctxDone \in BOOLEAN /\ eventsClosed \in BOOLEAN /\ panicked \in BOOLEAN
  /\ restartCount \in Nat
  /\ nprocs \in 0..MaxProcs /\ cmd \in 0..nprocs /\ waitCh = nprocs
  /\ exitSent \in [0..MaxProcs -> BOOLEAN]
  /\ auto \subseteq Spawned /\ killed \subseteq Spawned
  /\ proc  \in [Procs -> {"none", "live", "exited"}]
  /\ mon   \in [Procs -> MonPcs]
  /\ mcmd  \in [Procs -> 0..MaxProcs]
  /\ mstop \in [Procs -> BOOLEAN]
  /\ mch   \in [Procs -> 0..MaxProcs]
  /\ pc    \in [Callers -> CallPcs]
  /\ todo  \in [Callers -> Seq(Ops)]
  /\ scmd  \in [Callers -> 0..MaxProcs]
  /\ sch   \in [Callers -> 0..MaxProcs]

(* The manager was started by its user at most once, as server.go does:    *)
(* every further process is an automatic restart.                          *)
StartedOnce == Cardinality(Spawned \ auto) <= 1

(* No goroutine ever sends an event after Close has closed the channel: a  *)
(* monitor's sendEvent and the one in startLocked both race with Close     *)
(* (manager.go:292, 543, 552, 571, 602 against 483).                       *)
NoSendAfterClose == ~panicked

(* The automatic restarts never exceed MaxRestarts, however many monitors  *)
(* and callers there are ("MaxRestarts is the maximum number of automatic  *)
(* restarts", manager.go:119-120).                                         *)
RestartLimit == MaxRestarts > 0 => Cardinality(auto) <= MaxRestarts

(* A manager that was started once never has two processes alive: the      *)
(* automatic restart of manager.go:589-597 comes only after the previous   *)
(* process is gone, whatever Stops and Closes overlap it.                  *)
OneProcess == StartedOnce => Cardinality(Live) <= 1

(* Once Close has closed the events channel, nothing of the manager is     *)
(* left: no monitor runs and, if it was started once, no process lives.    *)
CloseReleases ==
  eventsClosed => /\ \A p \in Procs : mon[p] \in {"none", "done"}
                  /\ StartedOnce => Live = {}

(* While a process lives, a monitor watches it: otherwise its exit would   *)
(* be noticed by nobody and never restarted.                               *)
Watched ==
  StartedOnce => \A p \in Live : mon[p] = "begin" \/ (mon[p] = "wait" /\ mcmd[p] = p)

(* A Stop that returns because it received an exit result (the select of   *)
(* manager.go:349) received the one of the process it was stopping.        *)
StopSeesItsExit ==
  [][\A c \in Callers : StartedOnce /\ StopExited(c) => scmd[c] \notin Live]_vars

(* Every Close returns: the monitor of a running process is woken by the   *)
(* kill, one that waits for its restart delay by the cancelled context.    *)
CloseTerminates ==
  \A c \in Callers : pc[c] \in {"closeStop", "closeCancel", "closeJoin", "closeOnce"} ~> pc[c] = "idle"

(* Running() is not wrong for ever: during the restart delay the state     *)
(* stays "running" with no process alive (manager.go:576-581), and then a  *)
(* new process lives or the state changes.                                 *)
RunningSettles ==
  StartedOnce /\ state = "running" /\ Live = {}
    ~> Live # {} \/ state # "running" \/ ~StartedOnce

(* StateStopped "indicates the process is not running" (manager.go:30).    *)
StoppedMeansNotRunning == state = "stopped" => Live = {}
=============================================================================
