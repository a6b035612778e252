--------------------------- MODULE ServerLifecycle ---------------------------
(***************************************************************************)
(* The life of the bridge in server mode (internal/server/server.go and    *)
(* cmd/mcp-bridge/main.go): main runs Server.Start in a goroutine and      *)
(* waits for a signal or for Start to return; Server.Stop, whose body runs *)
(* once, is called by main after a signal and by monitorProcessEvents when *)
(* the subprocess has used up its restarts.                                *)
(*                                                                         *)
(* The subprocess manager is seen from outside (ProcessManager has its     *)
(* insides), the HTTP connections are POSTs that wait for the subprocess   *)
(* and event streams that last as long as their session and their client.  *)
(***************************************************************************)
EXTENDS Integers, FiniteSets

CONSTANTS Posts, Streams   \* connections

VARIABLES
  main, signalled,  \* the main goroutine; it took the signal
  start,            \* the goroutine of Start: its place, or what it returned
  running, done,    \* s.running; s.done is closed
  stop, owner,      \* the body of Stop: its place and the caller that runs it
  caller,           \* the calls of Stop by main and by the event goroutine
  late,             \* the deadline of the context of each caller has passed
  ctxDone,          \* the context of main was cancelled
  http,             \* the http.Server: new, serving, shut
  conn, sessions,   \* each connection; the streams whose session is open
  cleanup, cancel,  \* the session cleanup goroutine; sm.cleanupCancel is set
  proc, mgrClosed,  \* the subprocess; the manager is closed
  monitor, evt      \* monitorProcessEvents; EventMaxRestartsReached is in the channel

startVars == <<start, running>>
stopVars == <<done, stop, owner, caller>>
timeVars == <<late, ctxDone>>
connVars == <<conn, sessions>>
cleanupVars == <<cleanup, cancel>>
procVars == <<proc, mgrClosed>>
monitorVars == <<monitor, evt>>
vars == <<main, signalled, startVars, stopVars, timeVars, http, connVars, cleanupVars, procVars,
          monitorVars>>

Callers == {"main", "event"}
Conns == Posts \cup Streams
Exits == {"exit0", "exit1", "panic"}
Exited == main \in Exits
Open == {c \in Conns : conn[c] = "open"}
StopPcs == {"none", "shutdown", "draining", "cleanup", "waitCleanup", "sessions", "stopProc",
            "waitProc", "auth", "closeProc", "joinProc", "finish", "over"}

Init ==
  /\ main = "select" /\ signalled = FALSE
  /\ start = "begin" /\ running = FALSE
  /\ done = FALSE /\ stop = "none" /\ owner = "main"
  /\ caller = [c \in Callers |-> "none"] /\ late = [c \in Callers |-> FALSE]
  /\ ctxDone = FALSE /\ http = "new"
  /\ conn = [c \in Conns |-> "none"] /\ sessions = {}
  /\ cleanup = "off" /\ cancel = FALSE
  /\ proc = "none" /\ mgrClosed = FALSE
  /\ monitor = "off" /\ evt = FALSE

-----------------------------------------------------------------------------
(* main. *)

TakeSignal ==
  /\ main = "select"
  /\ main' = "stop" /\ signalled' = TRUE /\ ctxDone' = TRUE
  /\ caller' = [caller EXCEPT !["main"] = "called"]
  /\ UNCHANGED <<startVars, done, stop, owner, late, http, connVars, cleanupVars, procVars, monitorVars>>

(* Mutant: main calls Stop in a goroutine and goes on. *)
StopReturns_NoWait ==
  /\ main = "stop" /\ main' = "wait"
  /\ UNCHANGED <<signalled, startVars, stopVars, timeVars, http, connVars, cleanupVars, procVars, monitorVars>>

StopReturns ==
  /\ main = "stop" /\ caller["main"] = "returned"
  /\ main' = "wait"
  /\ UNCHANGED <<signalled, startVars, stopVars, timeVars, http, connVars, cleanupVars, procVars, monitorVars>>

(* Start has returned, before a signal or after Stop; or the deadline.     *)
Exit ==
  /\ \/ main \in {"select", "wait"} /\ start = "nil" /\ main' = "exit0"
     \/ main \in {"select", "wait"} /\ start = "error" /\ main' = "exit1"
     \/ main = "wait" /\ late["main"] /\ main' = "exit1"
  /\ UNCHANGED <<signalled, startVars, stopVars, timeVars, http, connVars, cleanupVars, procVars, monitorVars>>

-----------------------------------------------------------------------------
(* Server.Start. *)

(* After a Stop that has finished, done and shutdownOnce are made anew; if *)
(* its sync.Once has yet to unlock, the mutex it unlocks is the new one,   *)
(* and the runtime ends the program.                                       *)
StartCheck ==
  /\ start = "begin"
  /\ \/ /\ start' = "process" /\ UNCHANGED main
        /\ IF done THEN /\ done' = FALSE /\ stop' = "none"
                        /\ caller' = [c \in Callers |-> IF caller[c] = "running" THEN "returned" ELSE caller[c]]
                   ELSE UNCHANGED <<done, stop, caller>>
     \/ /\ done /\ \E c \in Callers : caller[c] = "running"
        /\ main' = "panic" /\ UNCHANGED <<start, done, stop, caller>>
  /\ UNCHANGED <<signalled, running, owner, timeVars, http, connVars, cleanupVars, procVars, monitorVars>>

(* processManager.Start: an error when the manager is closed, or no spawn. *)
StartProcess ==
  /\ start = "process"
  /\ \/ ~mgrClosed /\ start' = "monitor" /\ proc' = "alive"
     \/ start' = "error" /\ UNCHANGED proc
  /\ UNCHANGED <<main, signalled, running, stopVars, timeVars, http, connVars, cleanupVars,
                 mgrClosed, monitorVars>>

StartMonitor ==
  /\ start = "monitor"
  /\ start' = "cleanup" /\ monitor' = "on"
  /\ UNCHANGED <<main, signalled, running, stopVars, timeVars, http, connVars, cleanupVars,
                 procVars, evt>>

(* Mutant: the cancel function is not kept. *)
StartCleanup_NotKept ==
  /\ start = "cleanup"
  /\ start' = "listen" /\ cleanup' = "on" /\ UNCHANGED cancel
  /\ UNCHANGED <<main, signalled, running, stopVars, timeVars, http, connVars, procVars, monitorVars>>

StartCleanup ==
  /\ start = "cleanup"
  /\ start' = "listen" /\ cleanup' = "on" /\ cancel' = TRUE
  /\ UNCHANGED <<main, signalled, running, stopVars, timeVars, http, connVars, procVars, monitorVars>>

(* net.Listen; when it fails the subprocess is stopped, and nothing else.  *)
StartListen ==
  /\ start = "listen"
  /\ \/ start' = "announce" /\ UNCHANGED proc
     \/ start' = "error" /\ proc' = IF proc = "alive" THEN "dying" ELSE proc
  /\ UNCHANGED <<main, signalled, running, stopVars, timeVars, http, connVars, cleanupVars,
                 mgrClosed, monitorVars>>

StartAnnounce ==
  /\ start = "announce"
  /\ start' = "serve" /\ running' = TRUE
  /\ UNCHANGED <<main, signalled, stopVars, timeVars, http, connVars, cleanupVars, procVars, monitorVars>>

(* Serve, and its return: http.ErrServerClosed once Shutdown has begun, or *)
(* an error of the listener.                                               *)
Serve ==
  /\ start = "serve"
  /\ \/ http = "new" /\ http' = "serving" /\ UNCHANGED start
     \/ http = "shut" /\ start' = "nil" /\ UNCHANGED http
     \/ http = "serving" /\ start' = "error" /\ UNCHANGED http
  /\ UNCHANGED <<main, signalled, running, stopVars, timeVars, connVars, cleanupVars, procVars, monitorVars>>

-----------------------------------------------------------------------------
(* Server.Stop. *)

(* shutdownOnce: the first caller runs the body, others wait for its end.  *)
StopBegin(c) ==
  /\ caller[c] = "called" /\ stop = "none"
  /\ stop' = "shutdown" /\ owner' = c /\ running' = FALSE
  /\ caller' = [caller EXCEPT ![c] = "running"]
  /\ UNCHANGED <<main, signalled, start, done, timeVars, http, connVars, cleanupVars, procVars, monitorVars>>

StopOnceDone(c) ==
  /\ stop = "over" /\ caller[c] \in {"called", "running"}
  /\ caller' = [caller EXCEPT ![c] = "returned"]
  /\ UNCHANGED <<main, signalled, startVars, done, stop, owner, timeVars, http, connVars,
                 cleanupVars, procVars, monitorVars>>

(* Mutant: the server is closed without waiting for its connections. *)
Shutdown_NoDrain ==
  /\ stop = "shutdown" /\ stop' = "cleanup" /\ http' = "shut"
  /\ UNCHANGED <<main, signalled, startVars, done, owner, caller, timeVars, connVars, cleanupVars,
                 procVars, monitorVars>>

(* Shutdown closes the listener, then waits for the connections until the  *)
(* deadline; streams count, and their sessions are closed only afterwards. *)
Shutdown ==
  /\ \/ stop = "shutdown" /\ stop' = "draining" /\ http' = "shut"
     \/ stop = "draining" /\ (Open = {} \/ late[owner]) /\ stop' = "cleanup" /\ UNCHANGED http
  /\ UNCHANGED <<main, signalled, startVars, done, owner, caller, timeVars, connVars, cleanupVars,
                 procVars, monitorVars>>

(* StopCleanup cancels the cleanup goroutine and waits for it, if there is *)
(* one yet.                                                                *)
StopCleanup ==
  /\ \/ stop = "cleanup" /\ ~cancel /\ stop' = "sessions" /\ UNCHANGED cleanup
     \/ stop = "cleanup" /\ cancel /\ stop' = "waitCleanup"
        /\ cleanup' = IF cleanup = "on" THEN "cancelled" ELSE cleanup
     \/ stop = "waitCleanup" /\ cleanup = "ended" /\ stop' = "sessions" /\ UNCHANGED cleanup
  /\ UNCHANGED <<main, signalled, startVars, done, owner, caller, timeVars, http, connVars,
                 cancel, procVars, monitorVars>>

CloseAllSessions ==
  /\ stop = "sessions"
  /\ stop' = "stopProc" /\ sessions' = {}
  /\ UNCHANGED <<main, signalled, startVars, done, owner, caller, timeVars, http, conn,
                 cleanupVars, procVars, monitorVars>>

(* processManager.Stop: signals the process and waits for its exit; when   *)
(* the context ends it kills it and returns.                               *)
StopProcess ==
  /\ \/ stop = "stopProc" /\ proc = "alive" /\ stop' = "waitProc" /\ proc' = "dying"
     \/ stop = "stopProc" /\ proc # "alive" /\ stop' = "auth" /\ UNCHANGED proc
     \/ stop = "waitProc" /\ (proc = "dead" \/ late[owner]) /\ stop' = "auth" /\ UNCHANGED proc
  /\ UNCHANGED <<main, signalled, startVars, done, owner, caller, timeVars, http, connVars,
                 cleanupVars, mgrClosed, monitorVars>>

(* auth.Close and oauthServer.Close. *)
CloseAuth ==
  /\ stop = "auth" /\ stop' = "closeProc"
  /\ UNCHANGED <<main, signalled, startVars, done, owner, caller, timeVars, http, connVars,
                 cleanupVars, procVars, monitorVars>>

(* processManager.Close: whatever was started meanwhile is killed, and its *)
(* monitor waited for.                                                     *)
CloseProcess ==
  /\ \/ stop = "closeProc" /\ stop' = "joinProc" /\ mgrClosed' = TRUE
        /\ proc' = IF proc = "alive" THEN "dying" ELSE proc
     \/ stop = "joinProc" /\ proc # "dying" /\ stop' = "finish" /\ UNCHANGED procVars
  /\ UNCHANGED <<main, signalled, startVars, done, owner, caller, timeVars, http, connVars,
                 cleanupVars, monitorVars>>

StopEnd ==
  /\ stop = "finish"
  /\ stop' = "over" /\ done' = TRUE
  /\ UNCHANGED <<main, signalled, startVars, owner, caller, timeVars, http, connVars, cleanupVars,
                 procVars, monitorVars>>

StopBody == \/ Shutdown \/ StopCleanup \/ CloseAllSessions \/ StopProcess \/ CloseAuth
            \/ CloseProcess \/ StopEnd

-----------------------------------------------------------------------------
(* The goroutines of the server. *)

(* Mutant: the event is logged, as the others are. *)
monitorProcessEvents_LogOnly ==
  /\ monitor = "on"
  /\ \/ evt /\ evt' = FALSE /\ UNCHANGED <<monitor, caller>>
     \/ (ctxDone \/ done) /\ monitor' = "off" /\ UNCHANGED <<evt, caller>>
  /\ UNCHANGED <<main, signalled, startVars, done, stop, owner, timeVars, http, connVars,
                 cleanupVars, procVars>>

(* EventMaxRestartsReached starts a goroutine that calls Stop. *)
monitorProcessEvents ==
  /\ monitor = "on"
  /\ \/ evt /\ evt' = FALSE /\ caller' = [caller EXCEPT !["event"] = "called"] /\ UNCHANGED monitor
     \/ (ctxDone \/ done) /\ monitor' = "off" /\ UNCHANGED <<evt, caller>>
  /\ UNCHANGED <<main, signalled, startVars, done, stop, owner, timeVars, http, connVars,
                 cleanupVars, procVars>>

CleanupEnds ==
  /\ cleanup \in {"on", "cancelled"} /\ (ctxDone \/ cleanup = "cancelled")
  /\ cleanup' = "ended"
  /\ UNCHANGED <<main, signalled, startVars, stopVars, timeVars, http, connVars, cancel, procVars,
                 monitorVars>>

(* A POST gets its response or its timeout.  *)
PostEnds(p) ==
  /\ conn[p] = "open" /\ conn' = [conn EXCEPT ![p] = "closed"]
  /\ UNCHANGED <<main, signalled, startVars, stopVars, timeVars, http, sessions, cleanupVars,
                 procVars, monitorVars>>

(* A stream ends with its session. *)
StreamEnds(s) ==
  /\ conn[s] = "open" /\ s \notin sessions
  /\ conn' = [conn EXCEPT ![s] = "closed"]
  /\ UNCHANGED <<main, signalled, startVars, stopVars, timeVars, http, sessions, cleanupVars,
                 procVars, monitorVars>>

-----------------------------------------------------------------------------
(* The environment. *)

Connect(c) ==
  /\ http = "serving" /\ conn[c] = "none"
  /\ conn' = [conn EXCEPT ![c] = "open"]
  /\ sessions' = sessions \cup ({c} \cap Streams)
  /\ UNCHANGED <<main, signalled, startVars, stopVars, timeVars, http, cleanupVars, procVars, monitorVars>>

(* The client of a stream leaves, or its session expires. *)
StreamLeft(s) ==
  /\ conn[s] = "open"
  /\ \/ conn' = [conn EXCEPT ![s] = "closed"] /\ UNCHANGED sessions
     \/ s \in sessions /\ cleanup = "on" /\ sessions' = sessions \ {s} /\ UNCHANGED conn
  /\ UNCHANGED <<main, signalled, startVars, stopVars, timeVars, http, cleanupVars, procVars, monitorVars>>

(* The subprocess exits after it was signalled or killed, or of itself for *)
(* good: with no restarts left an event says so.                           *)
ProcessExit ==
  /\ \/ proc = "dying" /\ proc' = "dead" /\ UNCHANGED evt
     \/ proc = "alive" /\ proc' = "dead" /\ evt' \in BOOLEAN
  /\ UNCHANGED <<main, signalled, startVars, stopVars, timeVars, http, connVars, cleanupVars,
                 mgrClosed, monitor>>

(* The deadline of 30 seconds of a caller's context. *)
Deadline(c) ==
  /\ caller[c] # "none" /\ ~late[c]
  /\ late' = [late EXCEPT ![c] = TRUE]
  /\ UNCHANGED <<main, signalled, startVars, stopVars, ctxDone, http, connVars, cleanupVars,
                 procVars, monitorVars>>

Main == TakeSignal \/ StopReturns \/ Exit
Start == \/ StartCheck \/ StartProcess \/ StartMonitor \/ StartCleanup \/ StartListen
         \/ StartAnnounce \/ Serve
Stop == StopBody \/ \E c \in Callers : StopBegin(c) \/ StopOnceDone(c)

(* When main has returned nothing runs. *)
Next ==
  /\ ~Exited
  /\ \/ Main \/ Start \/ Stop \/ monitorProcessEvents \/ CleanupEnds \/ ProcessExit
     \/ \E p \in Posts : PostEnds(p)
     \/ \E s \in Streams : StreamEnds(s) \/ StreamLeft(s)
     \/ \E c \in Conns : Connect(c)
     \/ \E c \in Callers : Deadline(c)

(* Goroutines run, deadlines pass, a process that is killed exits.  Serve  *)
(* may go on for ever, and so may a stream and a subprocess.               *)
Fairness ==
  /\ WF_vars(~Exited /\ (StopReturns \/ Exit)) /\ WF_vars(~Exited /\ Stop)
  /\ WF_vars(~Exited /\ (StartCheck \/ StartProcess \/ StartMonitor \/ StartCleanup \/ StartListen \/ StartAnnounce))
  /\ WF_vars(~Exited /\ Serve /\ start' = "nil")
  /\ WF_vars(~Exited /\ monitorProcessEvents) /\ WF_vars(~Exited /\ CleanupEnds)
  /\ WF_vars(~Exited /\ proc = "dying" /\ ProcessExit)
  /\ \A c \in Callers : WF_vars(~Exited /\ Deadline(c))

Spec == Init /\ [][Next]_vars
FairSpec == Spec /\ Fairness

-----------------------------------------------------------------------------
TypeOK ==
  /\ main \in {"select", "stop", "wait"} \cup Exits /\ signalled \in BOOLEAN
  /\ start \in {"begin", "process", "monitor", "cleanup", "listen", "announce", "serve", "nil", "error"}
  /\ running \in BOOLEAN /\ done \in BOOLEAN
  /\ stop \in StopPcs /\ owner \in Callers
  /\ caller \in [Callers -> {"none", "called", "running", "returned"}]
  /\ late \in [Callers -> BOOLEAN] /\ ctxDone \in BOOLEAN
  /\ http \in {"new", "serving", "shut"}
  /\ conn \in [Conns -> {"none", "open", "closed"}] /\ sessions \subseteq Streams
  /\ cleanup \in {"off", "on", "cancelled", "ended"} /\ cancel = (cleanup # "off")
  /\ proc \in {"none", "alive", "dying", "dead"} /\ mgrClosed \in BOOLEAN
  /\ monitor \in {"off", "on"} /\ evt \in BOOLEAN

(* The subprocess is not stopped under a POST that waits for it: Stop goes *)
(* past Shutdown with one open only when its time is up, whoever calls     *)
(* Stop and wherever Start is (server.go:337-357).                         *)
PostsFinishFirst ==
  stop \in {"stopProc", "waitProc", "auth", "closeProc", "joinProc", "finish"} =>
    late[owner] \/ \A p \in Posts : conn[p] # "open"

(* After a signal the bridge does not exit before Stop has finished, even  *)
(* when Start was still starting or another Stop was under way: no         *)
(* subprocess is left behind, no session and no cleanup (main.go:173-200). *)
ExitIsClean ==
  Exited /\ signalled => /\ proc \notin {"alive", "dying"} /\ sessions = {} /\ mgrClosed
                         /\ Open \cap Posts # {} => \E c \in Callers : late[c]

(* Stop ends, whatever it meets; and a subprocess that has used up its     *)
(* restarts ends the bridge (server.go:321-389, 441-447).                  *)
StopEnds ==
  /\ stop = "shutdown" ~> (done \/ Exited)
  /\ evt ~> Exited
=============================================================================
