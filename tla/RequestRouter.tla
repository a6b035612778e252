---------------------------- MODULE RequestRouter ----------------------------
(***************************************************************************)
(* The request path of MCPHandler (internal/server/handler.go): HandlePost *)
(* handlers write JSON-RPC lines to the subprocess's stdin, one read loop  *)
(* reads its stdout and routes each response, by its id alone, to the      *)
(* handler that is registered under that id in pendingResponses.           *)
(*                                                                         *)
(* A request r stands for one POST.  IdOf[r] is the JSON-RPC id its client *)
(* chose: clients number their requests independently, so ids may repeat.  *)
(* The subprocess and process.Manager, as the handler sees them, are the   *)
(* environment: generation gen of the process is alive or not, and its     *)
(* pipes are there until the monitor has cleared them.                     *)
(***************************************************************************)
EXTENDS Integers, Sequences

CONSTANTS
  Requests,  \* the POSTs
  MayNotify, \* those whose message may be a notification
  Ids,       \* JSON-RPC ids
  IdOf,      \* Requests -> Ids
  MaxGen,    \* bound of the model: generations of the subprocess
  None,      \* no request, nil
  NL         \* the newline that ends a message on stdin

ASSUME RouterAssumption ==
  /\ MayNotify \subseteq Requests
  /\ IdOf \in [Requests -> Ids]
  /\ MaxGen \in Nat \ {0}
  /\ None \notin Requests
  /\ NL \notin Requests
  /\ Requests \cap {"none", "error", "accepted"} = {}

VARIABLES
  notes,    \* the POSTs whose message is a notification
  gen, alive, pipes, running,  \* the process manager, as the handler sees it
  stdin,    \* what was written and not yet read: requests and newlines
  inside,   \* requests the subprocess has read and not answered
  stdout,   \* answers not yet read: the requests they answer
  hmu,      \* holder of h.mu
  pending,  \* h.pendingResponses: id -> the handler registered
  chan,     \* each handler's responseChan: the request the response answers
  started,  \* h.readLoopStarted
  rl,       \* program counter of the read loop
  rgen,     \* generation whose stdout the read loop holds
  rbuf,     \* what its bufio.Reader still holds of a stdout that is gone
  rmsg,     \* the response the read loop is routing
  rtarget,  \* the handler that routeResponse looked up for it
  pc, wgen, \* each handler: program counter, generation of its stdin
  result    \* what each POST was answered with: an error, 202, a response

procVars == <<gen, alive, pipes, running>>
pipeVars == <<stdin, inside, stdout>>
loopVars == <<started, rl, rgen, rbuf, rmsg, rtarget>>
postVars == <<notes, hmu, pc, wgen>>
vars == <<procVars, pipeVars, loopVars, postVars, pending, chan, result>>

PostPcs == {"idle", "register", "lock", "body", "newline", "wait", "cleanup", "done"}
LoopPcs == {"off", "begin", "reading", "send", "gone"}
Outcomes == {"none", "error", "accepted"}   \* beside the response to a request

Init ==
  /\ gen = 1 /\ alive = TRUE /\ pipes = TRUE /\ running = TRUE
  /\ stdin = <<>> /\ inside = {} /\ stdout = <<>>
  /\ notes \in SUBSET MayNotify
  /\ hmu = None
  /\ pending = [i \in Ids |-> None]
  /\ chan = [r \in Requests |-> None]
  /\ started = FALSE /\ rl = "off" /\ rgen = 0 /\ rbuf = <<>> /\ rmsg = None /\ rtarget = None
  /\ pc = [r \in Requests |-> "idle"]
  /\ wgen = [r \in Requests |-> 0]
  /\ result = [r \in Requests |-> "none"]

-----------------------------------------------------------------------------
(* The handlers. *)

Step(r, from, to) == pc[r] = from /\ pc' = [pc EXCEPT ![r] = to]
Answer(r, res) == result' = [result EXCEPT ![r] = res]

ensureReadLoop ==
  IF started THEN UNCHANGED <<started, rl>> ELSE started' = TRUE /\ rl' = "begin"

(* Headers, Running, session and body are checked first, and any of them   *)
(* may refuse the POST.  Then the read loop is started and the message     *)
(* goes by its type: one that is neither a request nor a notification is   *)
(* answered with an error.                                                 *)
HandlePost(r) ==
  /\ \/ Step(r, "idle", "done") /\ Answer(r, "error") /\ UNCHANGED <<started, rl>>
     \/ /\ running
        /\ ensureReadLoop
        /\ \/ Step(r, "idle", "register") /\ r \notin notes /\ UNCHANGED result
           \/ Step(r, "idle", "lock") /\ r \in notes /\ UNCHANGED result
           \/ Step(r, "idle", "done") /\ Answer(r, "error")
  /\ UNCHANGED <<notes, procVars, pipeVars, rgen, rbuf, rmsg, rtarget, hmu, wgen, pending, chan>>

(* An entry of another handler under the same id is overwritten. *)
Register(r) ==
  /\ Step(r, "register", "lock")
  /\ pending' = [pending EXCEPT ![IdOf[r]] = r]
  /\ UNCHANGED <<notes, procVars, pipeVars, loopVars, hmu, wgen, chan, result>>

(* Mutant: stdin is taken without h.mu. *)
WriteLock_NoMutex(r) ==
  /\ \/ /\ ~pipes
        /\ Step(r, "lock", "cleanup")
        /\ Answer(r, "error")
        /\ UNCHANGED <<hmu, wgen>>
     \/ /\ pipes
        /\ Step(r, "lock", "body")
        /\ hmu' = r
        /\ wgen' = [wgen EXCEPT ![r] = gen]
        /\ UNCHANGED result
  /\ UNCHANGED <<notes, procVars, pipeVars, loopVars, pending, chan>>

(* h.mu is taken and Stdin() asked for. *)
WriteLock(r) ==
  /\ hmu = None
  /\ \/ /\ ~pipes
        /\ Step(r, "lock", "cleanup")
        /\ Answer(r, "error")
        /\ UNCHANGED <<hmu, wgen>>
     \/ /\ pipes
        /\ Step(r, "lock", "body")
        /\ hmu' = r
        /\ wgen' = [wgen EXCEPT ![r] = gen]
        /\ UNCHANGED result
  /\ UNCHANGED <<notes, procVars, pipeVars, loopVars, pending, chan>>

(* A write succeeds if the stdin it was given is still that of a process.  *)
Writable(r) == wgen[r] = gen /\ pipes /\ alive

WriteFails(r, from) ==
  /\ ~Writable(r)
  /\ Step(r, from, "cleanup")
  /\ Answer(r, "error")
  /\ hmu' = None
  /\ wgen' = [wgen EXCEPT ![r] = 0]
  /\ UNCHANGED stdin

WriteBody(r) ==
  /\ \/ WriteFails(r, "body")
     \/ /\ Writable(r)
        /\ Step(r, "body", "newline")
        /\ stdin' = Append(stdin, r)
        /\ UNCHANGED <<hmu, wgen, result>>
  /\ UNCHANGED <<notes, procVars, inside, stdout, loopVars, pending, chan>>

(* The message is complete; a notification is answered 202 at once. *)
WriteNewline(r) ==
  /\ \/ WriteFails(r, "newline")
     \/ /\ Writable(r)
        /\ stdin' = Append(stdin, NL)
        /\ hmu' = None
        /\ wgen' = [wgen EXCEPT ![r] = 0]
        /\ IF r \in notes THEN Step(r, "newline", "done") /\ Answer(r, "accepted")
                          ELSE Step(r, "newline", "wait") /\ UNCHANGED result
  /\ UNCHANGED <<notes, procVars, inside, stdout, loopVars, pending, chan>>

ReceiveResponse(r) ==
  /\ chan[r] # None
  /\ Step(r, "wait", "cleanup")
  /\ Answer(r, chan[r])
  /\ UNCHANGED <<notes, procVars, pipeVars, loopVars, hmu, wgen, pending, chan>>

(* Mutant: the entry stays when the handler gives up. *)
GiveUpWaiting_NoCleanup(r) ==
  /\ Step(r, "wait", "done")
  /\ Answer(r, "error")
  /\ UNCHANGED <<notes, procVars, pipeVars, loopVars, hmu, wgen, pending, chan>>

(* readTimeout, or the client went away. *)
GiveUpWaiting(r) ==
  /\ Step(r, "wait", "cleanup")
  /\ Answer(r, "error")
  /\ UNCHANGED <<notes, procVars, pipeVars, loopVars, hmu, wgen, pending, chan>>

(* The deferred delete: by id, whoever is registered under it. *)
Cleanup(r) ==
  /\ Step(r, "cleanup", "done")
  /\ pending' = IF r \in notes THEN pending ELSE [pending EXCEPT ![IdOf[r]] = None]
  /\ UNCHANGED <<notes, procVars, pipeVars, loopVars, hmu, wgen, chan, result>>

Handle(r) ==
  \/ Register(r) \/ WriteLock(r) \/ WriteBody(r)
  \/ WriteNewline(r) \/ ReceiveResponse(r) \/ Cleanup(r)

Post(r) == HandlePost(r) \/ Handle(r) \/ GiveUpWaiting(r)

-----------------------------------------------------------------------------
(* The read loop. *)

(* Stdout() may be nil: the goroutine ends and the flag stays set. *)
LoopBegin ==
  /\ rl = "begin"
  /\ IF pipes THEN rl' = "reading" /\ rgen' = gen
              ELSE rl' = "gone" /\ UNCHANGED rgen
  /\ UNCHANGED <<procVars, pipeVars, postVars, started, rbuf, rmsg, rtarget, pending, chan, result>>

HasStdout == rgen = gen /\ pipes

(* The next line: what was buffered of a stdout that is gone, or of stdout. *)
NextLine == IF rbuf # <<>> THEN Head(rbuf) ELSE Head(stdout)
TakeLine ==
  \/ rbuf # <<>> /\ rbuf' = Tail(rbuf) /\ UNCHANGED stdout
  \/ rbuf = <<>> /\ HasStdout /\ stdout # <<>> /\ stdout' = Tail(stdout) /\ UNCHANGED rbuf

(* Mutant: the lookup's result is not checked. *)
LoopRead_NoCheck ==
  /\ rl = "reading"
  /\ TakeLine
  /\ rl' = "send" /\ rmsg' = NextLine /\ rtarget' = pending[IdOf[NextLine]]
  /\ UNCHANGED <<procVars, stdin, inside, postVars, started, rgen, pending, chan, result>>

(* Mutant: a response goes to whichever handler is waiting. *)
LoopRead_AnyWaiter ==
  /\ rl = "reading"
  /\ TakeLine
  /\ \E i \in Ids : pending[i] # None /\ rtarget' = pending[i]
  /\ rl' = "send" /\ rmsg' = NextLine
  /\ UNCHANGED <<procVars, stdin, inside, postVars, started, rgen, pending, chan, result>>

(* Mutant: a response that nobody waits for ends the loop. *)
LoopRead_StopOnUnknown ==
  /\ rl = "reading"
  /\ TakeLine
  /\ IF pending[IdOf[NextLine]] = None
       THEN rl' = "off" /\ UNCHANGED <<rmsg, rtarget>>
       ELSE rl' = "send" /\ rmsg' = NextLine /\ rtarget' = pending[IdOf[NextLine]]
  /\ UNCHANGED <<procVars, stdin, inside, postVars, started, rgen, pending, chan, result>>

(* ReadBytes, ParseMessage and routeResponse's lookup under pendingMu. *)
LoopRead ==
  /\ rl = "reading"
  /\ TakeLine
  /\ IF pending[IdOf[NextLine]] = None
       THEN UNCHANGED <<rl, rmsg, rtarget>>
       ELSE rl' = "send" /\ rmsg' = NextLine /\ rtarget' = pending[IdOf[NextLine]]
  /\ UNCHANGED <<procVars, stdin, inside, postVars, started, rgen, pending, chan, result>>

(* The non-blocking send on the handler's channel, of capacity one. *)
LoopSend ==
  /\ rl = "send"
  /\ chan' = IF chan[rtarget] = None THEN [chan EXCEPT ![rtarget] = rmsg] ELSE chan
  /\ rl' = "reading" /\ rmsg' = None /\ rtarget' = None
  /\ UNCHANGED <<procVars, pipeVars, postVars, started, rgen, rbuf, pending, result>>

(* End of file, or the pipe was closed under the reader. *)
LoopError ==
  /\ rl = "reading" /\ rbuf = <<>>
  /\ ~HasStdout \/ (~alive /\ stdout = <<>>)
  /\ rl' = "off" /\ rgen' = 0 /\ started' = FALSE
  /\ UNCHANGED <<procVars, pipeVars, postVars, rbuf, rmsg, rtarget, pending, chan, result>>

ReadLoop == LoopBegin \/ LoopRead \/ LoopSend \/ LoopError

-----------------------------------------------------------------------------
(* The subprocess and its manager. *)

(* The subprocess reads a line; it may answer requests in any order.  *)
ProcessRead ==
  /\ alive /\ pipes
  /\ Len(stdin) >= 2 /\ stdin[2] = NL
  /\ stdin' = Tail(Tail(stdin))
  /\ inside' = inside \cup ({stdin[1]} \ (notes \cup {NL}))
  /\ UNCHANGED <<procVars, stdout, loopVars, postVars, pending, chan, result>>

ProcessAnswer(r) ==
  /\ alive /\ pipes /\ r \in inside
  /\ inside' = inside \ {r}
  /\ stdout' = Append(stdout, r)
  /\ UNCHANGED <<procVars, stdin, loopVars, postVars, pending, chan, result>>

(* The process exits: what it had read is lost, what it had written to     *)
(* stdout can still be read until the monitor clears the pipes.            *)
ProcessExit ==
  /\ alive
  /\ alive' = FALSE
  /\ stdin' = <<>> /\ inside' = {}
  /\ UNCHANGED <<gen, pipes, running, stdout, loopVars, postVars, pending, chan, result>>

(* cmd.Wait closes stdout and monitor clears the pipes; the read loop may  *)
(* have buffered what was not read.  Running() still holds during the      *)
(* restart delay.                                                          *)
ManagerClears ==
  /\ ~alive /\ pipes
  /\ pipes' = FALSE
  /\ stdout' = <<>>
  /\ IF rl \in {"reading", "send"} /\ rgen = gen
       THEN \E n \in 0..Len(stdout) : rbuf' = SubSeq(stdout, 1, n)
       ELSE UNCHANGED rbuf
  /\ UNCHANGED <<gen, alive, running, stdin, inside, started, rl, rgen, rmsg, rtarget,
                 postVars, pending, chan, result>>

ManagerRestarts ==
  /\ ~pipes /\ running /\ gen < MaxGen
  /\ gen' = gen + 1 /\ alive' = TRUE /\ pipes' = TRUE
  /\ UNCHANGED <<running, pipeVars, loopVars, postVars, pending, chan, result>>

ManagerGivesUp ==
  /\ ~pipes /\ running
  /\ running' = FALSE
  /\ UNCHANGED <<gen, alive, pipes, pipeVars, loopVars, postVars, pending, chan, result>>

Process == \/ ProcessRead \/ ProcessExit \/ ManagerClears \/ ManagerRestarts \/ ManagerGivesUp
           \/ \E r \in Requests : ProcessAnswer(r)

Next == ReadLoop \/ Process \/ \E r \in Requests : Post(r)

(* The read loop runs and handlers run.  Nothing is assumed of the process *)
(* and its manager, of timeouts, or of clients that go away.               *)
Fairness ==
  /\ WF_vars(ReadLoop)
  /\ \A r \in Requests : WF_vars(Handle(r))

Spec == Init /\ [][Next]_vars
FairSpec == Spec /\ Fairness

-----------------------------------------------------------------------------
TypeOK ==
  /\ gen \in 1..MaxGen /\ alive \in BOOLEAN /\ pipes \in BOOLEAN /\ running \in BOOLEAN
  /\ stdin \in Seq(Requests \cup {NL}) /\ inside \subseteq Requests
  /\ stdout \in Seq(Requests) /\ rbuf \in Seq(Requests)
  /\ notes \subseteq MayNotify /\ hmu \in Requests \cup {None}
  /\ pending \in [Ids -> Requests \cup {None}]
  /\ chan \in [Requests -> Requests \cup {None}]
  /\ started \in BOOLEAN /\ rl \in LoopPcs /\ rgen \in 0..MaxGen
  /\ rmsg \in Requests \cup {None} /\ rtarget \in Requests \cup {None}
  /\ rl = "send" => rmsg # None /\ rtarget # None
  /\ pc \in [Requests -> PostPcs] /\ wgen \in [Requests -> 0..MaxGen]
  /\ result \in [Requests -> Requests \cup Outcomes]

(* No other request of the run has r's id. *)
Unique(r) == \A q \in Requests \ (notes \cup {r}) : IdOf[q] # IdOf[r]

(* A POST is only ever answered with a response that carries its id, and   *)
(* with its own when no other request uses the id: a response that comes   *)
(* after its handler timed out reaches nobody else (handler.go:524-547).   *)
ResponseMatches ==
  \A r \in Requests : result[r] \in Requests =>
    IdOf[result[r]] = IdOf[r] /\ (Unique(r) => result[r] = r)

(* pendingResponses leaks nothing: an entry belongs to a handler that has  *)
(* not finished, whatever requests share the id and delete each other's    *)
(* entries (handler.go:211-219).                                           *)
Registered == {"lock", "body", "newline", "wait", "cleanup"}
PendingLive ==
  \A i \in Ids : pending[i] # None => IdOf[pending[i]] = i /\ pc[pending[i]] \in Registered

(* Every message on the subprocess's stdin is followed by its newline: the *)
(* two writes of concurrent handlers are never interleaved, and a failed   *)
(* write leaves no half message before another (handler.go:222-243).       *)
FramesWhole ==
  \A i \in 1..Len(stdin) :
    IF stdin[i] = NL THEN i > 1 /\ stdin[i-1] # NL
                     ELSE IF i = Len(stdin) THEN hmu = stdin[i] ELSE stdin[i+1] = NL

(* An answer that is in stdout while the read loop reads it and its        *)
(* handler waits ends the wait, unless the process goes: no answer is lost *)
(* between the lookup and the wait (handler.go:524-547 against 255-304).   *)
AnswerArrives ==
  \A r \in Requests :
    (/\ Unique(r) /\ pc[r] = "wait" /\ rl = "reading" /\ HasStdout
     /\ \E i \in 1..Len(stdout) : stdout[i] = r)
      ~> (pc[r] = "done" \/ ~alive)

(* ensureReadLoop "starts the read loop if not already running"            *)
(* (handler.go:456): the flag it leaves set means a loop runs.             *)
ReadLoopRuns == started => rl # "gone"

(* Each POST is answered with the response to its own request, also when   *)
(* "multiple clients" (docs/index.md:23) choose the same ids.              *)
ResponseIsOwn == \A r \in Requests : result[r] \in Requests => result[r] = r

(* What stands between a request and a POST that its response may answer,  *)
(* by the stage it has reached.                                            *)
Elems(s) == {s[i] : i \in 1..Len(s)}
Fresh == {r \in Requests : pc[r] \in {"idle", "register", "lock", "body"}}
Received == {chan[r] : r \in {q \in Requests : chan[q] # None /\ result[q] = "none"}}
InTransit == (Elems(stdin) \ (notes \cup {NL})) \cup inside \cup Elems(stdout) \cup Elems(rbuf)
               \cup (IF rl = "send" THEN {rmsg} ELSE {}) \cup Received

(* The handler keeps what PostService promises: whatever requests share an *)
(* id, time out, or go under with the subprocess, a response answers one   *)
(* POST at most, one with its id, whose message the subprocess was given   *)
(* (handler.go:89-304, 507-547).                                           *)
Service == INSTANCE PostService WITH
  fresh <- Fresh, travelling <- InTransit
Promise == Service!Spec
=============================================================================
