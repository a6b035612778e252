------------------------ MODULE ServerLifecycleProofs ------------------------
(***************************************************************************)
(* Proofs about ServerLifecycle, for any connections.  Nothing here needs  *)
(* fairness: the theorems are about Spec.                                  *)
(***************************************************************************)
EXTENDS ServerLifecycle, TLAPS

Progress == \/ Main \/ Start \/ Stop \/ monitorProcessEvents \/ CleanupEnds \/ ProcessExit
            \/ \E p \in Posts : PostEnds(p)
            \/ \E s \in Streams : StreamEnds(s) \/ StreamLeft(s)
            \/ \E c \in Conns : Connect(c)
            \/ \E c \in Callers : Deadline(c)

LEMMA NextIsProgress == Next <=> ~Exited /\ Progress
BY DEF Next, Progress

-----------------------------------------------------------------------------
(* Type correctness. *)

LEMMA InitType == Init => TypeOK
BY DEF Init, TypeOK, StopPcs, Callers

LEMMA MainType == ASSUME TypeOK, Main PROVE TypeOK'
<1>. USE DEF TypeOK, startVars, stopVars, timeVars, connVars, cleanupVars, procVars, monitorVars
<1>1. CASE TakeSignal BY <1>1 DEF TakeSignal, Callers
<1>2. CASE StopReturns BY <1>2 DEF StopReturns
<1>3. CASE Exit BY <1>3 DEF Exit, Exits
<1>. QED BY <1>1, <1>2, <1>3 DEF Main

LEMMA StartType == ASSUME TypeOK, Start PROVE TypeOK'
<1>. USE DEF TypeOK, startVars, stopVars, timeVars, connVars, cleanupVars, procVars, monitorVars
<1>1. CASE StartCheck
  <2>1. main' \in {"select", "stop", "wait"} \cup Exits BY <1>1 DEF StartCheck, Exits
  <2>2. stop' \in StopPcs /\ done' \in BOOLEAN BY <1>1 DEF StartCheck, StopPcs
  <2>3. caller' \in [Callers -> {"none", "called", "running", "returned"}]
    <3>1. caller' = caller
           \/ caller' = [c \in Callers |-> IF caller[c] = "running" THEN "returned" ELSE caller[c]]
      BY <1>1 DEF StartCheck
    <3>. QED BY <3>1
  <2>4. start' \in {start, "process"} BY <1>1 DEF StartCheck
  <2>. QED BY <1>1, <2>1, <2>2, <2>3, <2>4 DEF StartCheck
<1>2. CASE StartProcess BY <1>2 DEF StartProcess
<1>3. CASE StartMonitor BY <1>3 DEF StartMonitor
<1>4. CASE StartCleanup
  <2>1. cleanup' = "on" /\ cancel' = TRUE /\ start' = "listen" BY <1>4 DEF StartCleanup
  <2>2. cancel' = (cleanup' # "off") /\ cleanup' \in {"off", "on", "cancelled", "ended"} BY <2>1
  <2>. QED BY <1>4, <2>1, <2>2 DEF StartCleanup
<1>5. CASE StartListen BY <1>5 DEF StartListen
<1>6. CASE StartAnnounce BY <1>6 DEF StartAnnounce
<1>7. CASE Serve BY <1>7 DEF Serve
<1>. QED BY <1>1, <1>2, <1>3, <1>4, <1>5, <1>6, <1>7 DEF Start

LEMMA StopType == ASSUME TypeOK, Stop PROVE TypeOK'
<1>. USE DEF TypeOK, StopPcs, startVars, timeVars, connVars, cleanupVars, procVars, monitorVars
<1>1. ASSUME NEW c \in Callers, StopBegin(c) PROVE TypeOK'
  <2>1. caller' \in [Callers -> {"none", "called", "running", "returned"}] BY <1>1 DEF StopBegin
  <2>2. stop' \in StopPcs /\ owner' \in Callers /\ running' \in BOOLEAN BY <1>1 DEF StopBegin
  <2>. QED BY <1>1, <2>1, <2>2 DEF StopBegin
<1>2. ASSUME NEW c \in Callers, StopOnceDone(c) PROVE TypeOK' BY <1>2 DEF StopOnceDone
<1>3. CASE Shutdown BY <1>3 DEF Shutdown
<1>4. CASE StopCleanup BY <1>4 DEF StopCleanup
<1>5. CASE CloseAllSessions BY <1>5 DEF CloseAllSessions
<1>6. CASE StopProcess BY <1>6 DEF StopProcess
<1>7. CASE CloseAuth BY <1>7 DEF CloseAuth
<1>8. CASE CloseProcess
  <2>1. stop' \in StopPcs BY <1>8 DEF CloseProcess
  <2>2. proc' \in {proc, "dying"} /\ mgrClosed' \in BOOLEAN BY <1>8 DEF CloseProcess
  <2>. QED BY <1>8, <2>1, <2>2 DEF CloseProcess
<1>9. CASE StopEnd BY <1>9 DEF StopEnd
<1>. QED BY <1>1, <1>2, <1>3, <1>4, <1>5, <1>6, <1>7, <1>8, <1>9 DEF Stop, StopBody

LEMMA NextType == TypeOK /\ [Next]_vars => TypeOK'
<1>. SUFFICES ASSUME TypeOK, [Next]_vars PROVE TypeOK' OBVIOUS
<1>. USE DEF TypeOK, startVars, stopVars, timeVars, connVars, cleanupVars, procVars, monitorVars
<1>1. CASE monitorProcessEvents
  <2>1. caller' \in {caller, [caller EXCEPT !["event"] = "called"]}
    BY <1>1 DEF monitorProcessEvents
  <2>2. caller' \in [Callers -> {"none", "called", "running", "returned"}] BY <2>1
  <2>3. monitor' \in {"off", "on"} /\ evt' \in BOOLEAN BY <1>1 DEF monitorProcessEvents
  <2>. QED BY <1>1, <2>2, <2>3 DEF monitorProcessEvents
<1>2. CASE CleanupEnds BY <1>2 DEF CleanupEnds
<1>3. CASE ProcessExit BY <1>3 DEF ProcessExit
<1>4. ASSUME NEW p \in Posts, PostEnds(p) PROVE TypeOK' BY <1>4 DEF PostEnds, Conns
<1>5. ASSUME NEW s \in Streams, StreamEnds(s) PROVE TypeOK' BY <1>5 DEF StreamEnds, Conns
<1>6. ASSUME NEW s \in Streams, StreamLeft(s) PROVE TypeOK' BY <1>6 DEF StreamLeft, Conns
<1>7. ASSUME NEW c \in Conns, Connect(c) PROVE TypeOK' BY <1>7 DEF Connect
<1>8. ASSUME NEW c \in Callers, Deadline(c) PROVE TypeOK' BY <1>8 DEF Deadline
<1>9. CASE UNCHANGED vars BY <1>9 DEF vars
<1>. QED
  BY <1>1, <1>2, <1>3, <1>4, <1>5, <1>6, <1>7, <1>8, <1>9, MainType, StartType, StopType,
     NextIsProgress DEF Progress

(* The type invariant, for any connections. *)
THEOREM TypeCorrect == Spec => []TypeOK
BY InitType, NextType, PTL DEF Spec

-----------------------------------------------------------------------------
(* Past Shutdown the listener is closed for good, and either no POST is    *)
(* under way or the caller's time is up.                                   *)
Drained(c) == late[c] \/ \A p \in Posts : conn[p] # "open"

ShutInv ==
  /\ stop \notin {"none", "shutdown"} => http = "shut"
  /\ stop \notin {"none", "shutdown", "draining"} => Drained(owner)
  /\ done => stop = "over"

(* What remains closed once it is closed: manager, sessions and listener.  *)
Clean == /\ proc \notin {"alive", "dying"} /\ mgrClosed /\ sessions = {} /\ http = "shut"
         /\ \E c \in Callers : Drained(c)

CleanInv ==
  /\ stop \in {"stopProc", "waitProc", "auth", "closeProc", "joinProc"} => sessions = {}
  /\ stop = "joinProc" => mgrClosed /\ proc # "alive"
  /\ stop \in {"finish", "over"} => Clean
  /\ \A c \in Callers : caller[c] = "returned" => Clean
  /\ main = "wait" => Clean
  /\ main = "select" => ~signalled
  /\ Exited /\ signalled => Clean

LEMMA InitInv == Init => ShutInv /\ CleanInv
BY DEF Init, ShutInv, CleanInv, Exited, Exits

LEMMA MainInv == ASSUME TypeOK, ShutInv, CleanInv, ~Exited, Main PROVE ShutInv' /\ CleanInv'
<1>. USE DEF ShutInv, CleanInv, Clean, Drained, Exited, Exits, Callers,
             startVars, stopVars, timeVars, connVars, cleanupVars, procVars, monitorVars
<1>1. CASE TakeSignal BY <1>1 DEF TakeSignal, TypeOK
<1>2. CASE StopReturns BY <1>2 DEF StopReturns
<1>3. CASE Exit BY <1>3 DEF Exit
<1>. QED BY <1>1, <1>2, <1>3 DEF Main

LEMMA StartInv == ASSUME TypeOK, ShutInv, CleanInv, ~Exited, Start PROVE ShutInv' /\ CleanInv'
<1>. USE DEF ShutInv, CleanInv, Clean, Drained, Exited, Exits,
             startVars, stopVars, timeVars, connVars, cleanupVars, procVars, monitorVars
<1>1. CASE StartCheck
  <2>1. done => Clean BY DEF ShutInv, CleanInv
  <2>2. CASE ~done BY <1>1, <2>2 DEF StartCheck
  <2>3. CASE done
    <3>1. Clean' BY <1>1, <2>1, <2>3 DEF StartCheck
    <3>2. main' \in {main, "panic"} /\ signalled' = signalled BY <1>1 DEF StartCheck
    <3>3. \/ stop' = "none" /\ ~done'
          \/ UNCHANGED <<stop, done, owner, late, conn, http>>
      BY <1>1 DEF StartCheck
    <3>4. ShutInv' BY <3>3 DEF ShutInv
    <3>. QED BY <3>1, <3>2, <3>3, <3>4, <1>1, <2>3 DEF StartCheck
  <2>. QED BY <2>2, <2>3
<1>2. CASE StartProcess BY <1>2 DEF StartProcess
<1>3. CASE StartMonitor BY <1>3 DEF StartMonitor
<1>4. CASE StartCleanup BY <1>4 DEF StartCleanup
<1>5. CASE StartListen BY <1>5 DEF StartListen
<1>6. CASE StartAnnounce BY <1>6 DEF StartAnnounce
<1>7. CASE Serve BY <1>7 DEF Serve
<1>. QED BY <1>1, <1>2, <1>3, <1>4, <1>5, <1>6, <1>7 DEF Start

LEMMA StopInv == ASSUME TypeOK, ShutInv, CleanInv, ~Exited, Stop PROVE ShutInv' /\ CleanInv'
<1>. USE DEF ShutInv, CleanInv, Clean, Drained, Exited, Exits,
             startVars, timeVars, connVars, cleanupVars, procVars, monitorVars
<1>1. ASSUME NEW c \in Callers, StopBegin(c) PROVE ShutInv' /\ CleanInv'
  BY <1>1 DEF StopBegin, TypeOK
<1>2. ASSUME NEW c \in Callers, StopOnceDone(c) PROVE ShutInv' /\ CleanInv'
  BY <1>2 DEF StopOnceDone, TypeOK
<1>3. CASE Shutdown BY <1>3 DEF Shutdown, Open, Conns, TypeOK
<1>4. CASE StopCleanup BY <1>4 DEF StopCleanup
<1>5. CASE CloseAllSessions BY <1>5 DEF CloseAllSessions
<1>6. CASE StopProcess BY <1>6 DEF StopProcess
<1>7. CASE CloseAuth BY <1>7 DEF CloseAuth
<1>8. CASE CloseProcess BY <1>8 DEF CloseProcess, TypeOK
<1>9. CASE StopEnd BY <1>9 DEF StopEnd
<1>. QED BY <1>1, <1>2, <1>3, <1>4, <1>5, <1>6, <1>7, <1>8, <1>9 DEF Stop, StopBody

LEMMA NextInv == TypeOK /\ ShutInv /\ CleanInv /\ [Next]_vars => ShutInv' /\ CleanInv'
<1>. SUFFICES ASSUME TypeOK, ShutInv, CleanInv, [Next]_vars PROVE ShutInv' /\ CleanInv' OBVIOUS
<1>. USE DEF ShutInv, CleanInv, Clean, Drained, Exited, Exits, TypeOK, Conns,
             startVars, stopVars, timeVars, connVars, cleanupVars, procVars, monitorVars
<1>1. CASE monitorProcessEvents BY <1>1 DEF monitorProcessEvents
<1>2. CASE CleanupEnds BY <1>2 DEF CleanupEnds
<1>3. CASE ProcessExit BY <1>3 DEF ProcessExit
<1>4. ASSUME NEW p \in Posts, PostEnds(p) PROVE ShutInv' /\ CleanInv' BY <1>4 DEF PostEnds
<1>5. ASSUME NEW s \in Streams, StreamEnds(s) PROVE ShutInv' /\ CleanInv' BY <1>5 DEF StreamEnds
<1>6. ASSUME NEW s \in Streams, StreamLeft(s) PROVE ShutInv' /\ CleanInv' BY <1>6 DEF StreamLeft
<1>7. ASSUME NEW c \in Conns, Connect(c) PROVE ShutInv' /\ CleanInv' BY <1>7 DEF Connect
<1>8. ASSUME NEW c \in Callers, Deadline(c) PROVE ShutInv' /\ CleanInv' BY <1>8 DEF Deadline
<1>9. CASE UNCHANGED vars BY <1>9 DEF vars
<1>. QED
  BY <1>1, <1>2, <1>3, <1>4, <1>5, <1>6, <1>7, <1>8, <1>9, MainInv, StartInv, StopInv,
     NextIsProgress DEF Progress

LEMMA LifeInvariant == Spec => []ShutInv /\ []CleanInv
BY InitInv, NextInv, TypeCorrect, PTL DEF Spec

(* The subprocess is not stopped under a POST before the deadline.         *)
THEOREM PostsFinish == Spec => []PostsFinishFirst
<1>1. ShutInv => PostsFinishFirst BY DEF ShutInv, Drained, PostsFinishFirst
<1>. QED BY <1>1, LifeInvariant, PTL

(* After a signal nothing is left behind when the bridge exits.            *)
THEOREM ExitsAreClean == Spec => []ExitIsClean
<1>1. CleanInv => ExitIsClean
  BY DEF CleanInv, Clean, Drained, ExitIsClean, Open, Conns
<1>. QED BY <1>1, LifeInvariant, PTL

-----------------------------------------------------------------------------
(* Whatever Stop waits for has been told to end and can: the cleanup       *)
(* goroutine was cancelled, the subprocess signalled or killed, and the    *)
(* deadline of the context under which the body runs still comes           *)
(* (server.go:337-385, session.go StopCleanup).  What StopEnds takes       *)
(* besides fairness.                                                       *)
StopGoesOn ==
  /\ stop = "waitCleanup" => cleanup \in {"cancelled", "ended"}
  /\ stop = "waitProc" => proc \in {"dying", "dead"}
  /\ stop = "joinProc" => proc # "alive"
  /\ stop \notin {"none", "over"} => caller[owner] = "running"

(* Nobody starts anew what Stop waits for, and nobody calls Stop again     *)
(* while it runs: Start passes each of its places once, main calls Stop    *)
(* once, and a subprocess that used up its restarts stays dead.            *)
OnceInv ==
  /\ start \in {"begin", "process"} => proc = "none"
  /\ start \in {"begin", "process", "monitor", "cleanup"} => cleanup = "off"
  /\ main = "select" => caller["main"] = "none"
  /\ evt => caller["event"] = "none"
  /\ evt \/ caller["event"] # "none" => proc = "dead"

WaitInv == StopGoesOn /\ OnceInv

LEMMA InitWait == Init => WaitInv
BY DEF Init, WaitInv, StopGoesOn, OnceInv, Callers

LEMMA MainWait == ASSUME TypeOK, WaitInv, Main PROVE WaitInv'
<1>. USE DEF WaitInv, StopGoesOn, OnceInv, Callers, TypeOK, Exits,
             startVars, stopVars, timeVars, connVars, cleanupVars, procVars, monitorVars
<1>1. CASE TakeSignal BY <1>1 DEF TakeSignal
<1>2. CASE StopReturns BY <1>2 DEF StopReturns
<1>3. CASE Exit BY <1>3 DEF Exit
<1>. QED BY <1>1, <1>2, <1>3 DEF Main

LEMMA StartWait == ASSUME TypeOK, ShutInv, CleanInv, WaitInv, Start PROVE WaitInv'
<1>. USE DEF WaitInv, StopGoesOn, OnceInv, Callers, TypeOK,
             startVars, stopVars, timeVars, connVars, cleanupVars, procVars, monitorVars
<1>1. CASE StartCheck
  <2>1. done => stop = "over" BY DEF ShutInv
  <2>2. \/ UNCHANGED <<stop, caller>>
        \/ stop' = "none" /\ \A c \in Callers : caller[c] = "none" => caller'[c] = "none"
    BY <1>1 DEF StartCheck
  <2>3. \A c \in Callers : caller'[c] = "none" <=> caller[c] = "none" BY <1>1 DEF StartCheck
  <2>4. main' \in {main, "panic"} /\ start' \in {start, "process"} /\ start = "begin"
        /\ UNCHANGED <<proc, cleanup, owner, evt>>
    BY <1>1 DEF StartCheck
  <2>5. OnceInv'
    <3>1. main' = "select" => main = "select" BY <2>4
    <3>2. (caller'["event"] = "none" <=> caller["event"] = "none") /\ (caller'["main"] = "none" <=> caller["main"] = "none")
      BY <2>3
    <3>. QED BY <2>4, <3>1, <3>2
  <2>6. StopGoesOn' BY <2>2, <2>4
  <2>. QED BY <2>5, <2>6 DEF WaitInv
<1>2. CASE StartProcess BY <1>2 DEF StartProcess, CleanInv
<1>3. CASE StartMonitor BY <1>3 DEF StartMonitor
<1>4. CASE StartCleanup BY <1>4 DEF StartCleanup
<1>5. CASE StartListen BY <1>5 DEF StartListen
<1>6. CASE StartAnnounce BY <1>6 DEF StartAnnounce
<1>7. CASE Serve BY <1>7 DEF Serve
<1>. QED BY <1>1, <1>2, <1>3, <1>4, <1>5, <1>6, <1>7 DEF Start

LEMMA StopWait == ASSUME TypeOK, WaitInv, Stop PROVE WaitInv'
<1>. USE DEF WaitInv, StopGoesOn, OnceInv, Callers, TypeOK,
             startVars, timeVars, connVars, cleanupVars, procVars, monitorVars
<1>1. ASSUME NEW c \in Callers, StopBegin(c) PROVE WaitInv' BY <1>1 DEF StopBegin
<1>2. ASSUME NEW c \in Callers, StopOnceDone(c) PROVE WaitInv' BY <1>2 DEF StopOnceDone
<1>3. CASE Shutdown BY <1>3 DEF Shutdown
<1>4. CASE StopCleanup BY <1>4 DEF StopCleanup
<1>5. CASE CloseAllSessions BY <1>5 DEF CloseAllSessions
<1>6. CASE StopProcess BY <1>6 DEF StopProcess
<1>7. CASE CloseAuth BY <1>7 DEF CloseAuth
<1>8. CASE CloseProcess BY <1>8 DEF CloseProcess
<1>9. CASE StopEnd BY <1>9 DEF StopEnd
<1>. QED BY <1>1, <1>2, <1>3, <1>4, <1>5, <1>6, <1>7, <1>8, <1>9 DEF Stop, StopBody

LEMMA NextWait == TypeOK /\ ShutInv /\ CleanInv /\ WaitInv /\ [Next]_vars => WaitInv'
<1>. SUFFICES ASSUME TypeOK, ShutInv, CleanInv, WaitInv, [Next]_vars PROVE WaitInv' OBVIOUS
<1>. USE DEF WaitInv, StopGoesOn, OnceInv, Callers, TypeOK,
             startVars, stopVars, timeVars, connVars, cleanupVars, procVars, monitorVars
<1>1. CASE monitorProcessEvents BY <1>1 DEF monitorProcessEvents
<1>2. CASE CleanupEnds BY <1>2 DEF CleanupEnds
<1>3. CASE ProcessExit BY <1>3 DEF ProcessExit
<1>4. ASSUME NEW p \in Posts, PostEnds(p) PROVE WaitInv' BY <1>4 DEF PostEnds
<1>5. ASSUME NEW s \in Streams, StreamEnds(s) \/ StreamLeft(s) PROVE WaitInv'
  BY <1>5 DEF StreamEnds, StreamLeft
<1>6. ASSUME NEW c \in Conns, Connect(c) PROVE WaitInv' BY <1>6 DEF Connect
<1>7. ASSUME NEW c \in Callers, Deadline(c) PROVE WaitInv' BY <1>7 DEF Deadline
<1>8. CASE UNCHANGED vars BY <1>8 DEF vars
<1>. QED
  BY <1>1, <1>2, <1>3, <1>4, <1>5, <1>6, <1>7, <1>8, MainWait, StartWait, StopWait,
     NextIsProgress DEF Progress

(* Stop waits for nothing that was not told to end.                        *)
THEOREM StopsGoOn == Spec => []StopGoesOn
<1>1. WaitInv => StopGoesOn BY DEF WaitInv
<1>. QED BY <1>1, InitWait, NextWait, TypeCorrect, LifeInvariant, PTL DEF Spec
=============================================================================
