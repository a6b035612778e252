------------------------------ MODULE SseFanout ------------------------------
(***************************************************************************)
(* Server-Sent Events in MCPHandler (internal/server/handler.go): HandleSSE*)
(* connections, HandleSessionClose, and routeNotification, by which the    *)
(* read loop sends each notification of the subprocess to the registered   *)
(* writers and queues it for the sessions of SessionPool.                  *)
(*                                                                         *)
(* sseClientsMu is a readers-writer lock: routeNotification holds it for   *)
(* reading while it writes to every client; registering, unregistering and *)
(* HandleSessionClose take it for writing.                                 *)
(***************************************************************************)
EXTENDS SessionPool

CONSTANTS
  Conns      \* GET connections, each serves one stream

ASSUME FanoutAssumption == None \notin Conns

VARIABLES
  sseClients, \* h.sseClients: session -> the connection registered
  cpc, csess, \* each connection: program counter and session
  broken,     \* connections on which a write fails
  rpc, rleft, rnote, \* routeNotification: where it is, writers left, the data
  got         \* history: how often each connection was sent each notification

sseVars == <<sseClients, cpc, csess, broken, rpc, rleft, rnote, got>>
vars == <<sessVars, sseVars>>

Init ==
  /\ PoolInit
  /\ sseClients = [s \in Ids |-> None]
  /\ cpc = [k \in Conns |-> "idle"] /\ csess = [k \in Conns |-> None]
  /\ broken = {}
  /\ rpc = "idle" /\ rleft = {} /\ rnote = None
  /\ got = [k \in Conns |-> [n \in Notifs |-> 0]]

ClientsCanWrite == rpc # "direct"
Goto(k, label) == cpc' = [cpc EXCEPT ![k] = label]
Send(k, n) == got' = IF k \in broken THEN got ELSE [got EXCEPT ![k][n] = @ + 1]

-----------------------------------------------------------------------------
(* HandleSSE: the session must exist when the stream is asked for.         *)
HandleSSE(k, s) ==
  /\ cpc[k] = "idle" /\ CanRead
  /\ GetSession(s)
  /\ csess' = [csess EXCEPT ![k] = s]
  /\ Goto(k, "register")
  /\ UNCHANGED <<sessVars, sseClients, broken, rpc, rleft, rnote, got>>

(* The registration of an older stream of the session is overwritten.      *)
Register(k) ==
  /\ cpc[k] = "register" /\ ClientsCanWrite
  /\ sseClients' = [sseClients EXCEPT ![csess[k]] = k]
  /\ Goto(k, "loop")
  /\ UNCHANGED <<sessVars, csess, broken, rpc, rleft, rnote, got>>

(* Mutant: only the registered stream reads the queue of an open session. *)
StreamQueued_IfRegistered(k) ==
  /\ cpc[k] = "loop" /\ (sseClients[csess[k]] = k \/ closed[csess[k]])
  /\ Receive(csess[k])
  /\ Send(k, Head(buf[csess[k]]))
  /\ Goto(k, IF k \in broken THEN "leave" ELSE "loop")
  /\ UNCHANGED <<sseClients, csess, broken, rpc, rleft, rnote>>

(* A notification from the session's queue. *)
StreamQueued(k) ==
  /\ cpc[k] = "loop"
  /\ Receive(csess[k])
  /\ Send(k, Head(buf[csess[k]]))
  /\ Goto(k, IF k \in broken THEN "leave" ELSE "loop")
  /\ UNCHANGED <<sseClients, csess, broken, rpc, rleft, rnote>>

(* Mutant: the closed queue is noticed only with the next failed write. *)
StreamClosed_Unnoticed(k) ==
  /\ cpc[k] = "loop" /\ k \in broken
  /\ closed[csess[k]] /\ buf[csess[k]] = <<>>
  /\ Goto(k, "leave")
  /\ UNCHANGED <<sessVars, sseClients, csess, broken, rpc, rleft, rnote, got>>

(* Mutant: the return on a closed queue skips the deferred delete. *)
StreamClosed_NoUnregister(k) ==
  /\ cpc[k] = "loop"
  /\ closed[csess[k]] /\ buf[csess[k]] = <<>>
  /\ Goto(k, "done")
  /\ UNCHANGED <<sessVars, sseClients, csess, broken, rpc, rleft, rnote, got>>

(* The queue is closed and drained. *)
StreamClosed(k) ==
  /\ cpc[k] = "loop"
  /\ closed[csess[k]] /\ buf[csess[k]] = <<>>
  /\ Goto(k, "leave")
  /\ UNCHANGED <<sessVars, sseClients, csess, broken, rpc, rleft, rnote, got>>

(* The client went away, or "connected" or a ping could not be written.    *)
StreamLost(k) ==
  /\ cpc[k] = "loop" /\ k \in broken
  /\ Goto(k, "leave")
  /\ UNCHANGED <<sessVars, sseClients, csess, broken, rpc, rleft, rnote, got>>

(* Mutant: the entry is deleted without sseClientsMu. *)
Unregister_NoLock(k) ==
  /\ cpc[k] = "leave"
  /\ sseClients' = [sseClients EXCEPT ![csess[k]] = None]
  /\ Goto(k, "done")
  /\ UNCHANGED <<sessVars, csess, broken, rpc, rleft, rnote, got>>

(* Mutant: the stream empties its session's queue when it returns. *)
Unregister_Drains(k) ==
  /\ cpc[k] = "leave" /\ ClientsCanWrite
  /\ sseClients' = [sseClients EXCEPT ![csess[k]] = None]
  /\ buf' = [buf EXCEPT ![csess[k]] = <<>>]
  /\ Goto(k, "done")
  /\ UNCHANGED <<issued, sessions, closed, idle, reapVars, castVars, postVars, delVars, csess, broken, rpc, rleft, rnote, got>>

(* The deferred delete, by session: whoever is registered.  Then the       *)
(* handler has returned and its ResponseWriter may not be used any more.   *)
Unregister(k) ==
  /\ cpc[k] = "leave" /\ ClientsCanWrite
  /\ sseClients' = [sseClients EXCEPT ![csess[k]] = None]
  /\ Goto(k, "done")
  /\ UNCHANGED <<sessVars, csess, broken, rpc, rleft, rnote, got>>

(* The client disconnects, or the server's write deadline passes.          *)
Break(k) ==
  /\ cpc[k] = "loop" /\ k \notin broken
  /\ broken' = broken \cup {k}
  /\ UNCHANGED <<sessVars, sseClients, cpc, csess, rpc, rleft, rnote, got>>

(* HandleSessionClose after CloseSession: a "close" event to the writer    *)
(* and its entry is dropped.                                               *)
CloseStream(d) ==
  /\ ClientsCanWrite
  /\ DeleteDone(d)
  /\ sseClients' = [sseClients EXCEPT ![dsess[d]] = None]
  /\ UNCHANGED <<cpc, csess, broken, rpc, rleft, rnote, got>>

-----------------------------------------------------------------------------
(* routeNotification, called by the read loop for one line after another:  *)
(* the previous one's broadcast is over.                                   *)
RouteBegin(n) ==
  /\ rpc = "idle" /\ bpc = "idle" /\ n \notin broadcast
  /\ rpc' = "direct" /\ rnote' = n
  /\ rleft' = {sseClients[s] : s \in Ids} \ {None}
  /\ UNCHANGED <<sessVars, sseClients, cpc, csess, broken, got>>

RouteDirect(k) ==
  /\ rpc = "direct" /\ k \in rleft
  /\ rleft' = rleft \ {k}
  /\ Send(k, rnote)
  /\ UNCHANGED <<sessVars, sseClients, cpc, csess, broken, rpc, rnote>>

(* Every writer was served: on to BroadcastNotification. *)
RouteQueue ==
  /\ rpc = "direct" /\ rleft = {}
  /\ BroadcastBegin(rnote)
  /\ rpc' = "idle" /\ rnote' = None
  /\ UNCHANGED <<sseClients, cpc, csess, broken, rleft, got>>

Route == RouteQueue \/ \E k \in Conns : RouteDirect(k)

Stream(k) == Register(k) \/ StreamQueued(k) \/ StreamClosed(k) \/ StreamLost(k) \/ Unregister(k)

Next ==
  \/ PoolNext /\ UNCHANGED sseVars
  \/ \E d \in Deletes : CloseStream(d)
  \/ \E k \in Conns : Stream(k) \/ Break(k) \/ \E s \in Ids : HandleSSE(k, s)
  \/ Route \/ \E n \in Notifs : RouteBegin(n)

(* Handlers, the read loop and the reaper run; writers get sm.mu, since a  *)
(* writer that waits on a sync.RWMutex keeps new readers out.              *)
Fairness ==
  /\ \A k \in Conns : WF_vars(Stream(k))
  /\ WF_vars(Route) /\ WF_vars(Broadcast /\ UNCHANGED sseVars)
  /\ SF_vars(Reaper /\ UNCHANGED sseVars)
  /\ \A p \in Posts : WF_vars(Touch(p) /\ UNCHANGED sseVars)

Spec == Init /\ [][Next]_vars
FairSpec == Spec /\ Fairness

-----------------------------------------------------------------------------
TypeOK ==
  /\ PoolTypeOK
  /\ sseClients \in [Ids -> Conns \cup {None}]
  /\ cpc \in [Conns -> {"idle", "register", "loop", "leave", "done"}]
  /\ csess \in [Conns -> Ids \cup {None}]
  /\ broken \subseteq Conns
  /\ rpc \in {"idle", "direct"} /\ rleft \subseteq Conns
  /\ rnote \in Notifs \cup {None}
  /\ got \in [Conns -> [Notifs -> Nat]]

(* A registered writer belongs to a handler of that session that has not   *)
(* returned: net/http forbids writing to a ResponseWriter after that, and  *)
(* two streams of one session overwrite and delete each other's entries    *)
(* (handler.go:375-385).                                                   *)
WriterLive ==
  \A s \in Ids : sseClients[s] # None =>
    csess[sseClients[s]] = s /\ cpc[sseClients[s]] \in {"loop", "leave"}

(* What routeNotification writes to is a live writer at that moment, not   *)
(* only when it looked it up (handler.go:553-562).                         *)
DirectWriteLive == [][\A k \in Conns : RouteDirect(k) => cpc[k] \in {"loop", "leave"}]_vars

(* The stream of a session that was closed, by DELETE, by the reaper or at *)
(* shutdown, ends (handler.go:405-409).                                    *)
StreamEnds ==
  \A k \in Conns : cpc[k] = "loop" /\ closed[csess[k]] ~> cpc[k] = "done"

(* An idle session is evicted or touched again: slots of the pool come     *)
(* back without any client's help (session.go:362-371).                    *)
IdleEvicted == \A s \in Ids : s \in sessions /\ idle[s] ~> s \notin sessions \/ ~idle[s]

Queued(s, n) == \E i \in 1..Len(buf[s]) : buf[s][i] = n

(* A queued notification leaves the queue of its session only to a stream  *)
(* of that session that is in its loop, which was sent it unless that very *)
(* stream is broken (handler.go:403-418).                                  *)
QueuedIsKept ==
  [][\A s \in Ids, n \in Notifs : Queued(s, n) /\ ~Queued(s, n)' =>
       \E k \in Conns : /\ csess[k] = s /\ cpc[k] = "loop"
                        /\ k \in broken \/ got'[k][n] = got[k][n] + 1]_vars

(* What is queued for a session is taken from the queue as long as one of  *)
(* its streams works, also one whose registration was deleted by an older  *)
(* stream's deferred delete (handler.go:379-383).  With QueuedIsKept: it   *)
(* is sent, or lost by the breaking of the stream that took it.            *)
QueueDelivers ==
  \A k \in Conns, s \in Ids, n \in Notifs :
    (cpc[k] = "loop" /\ csess[k] = s /\ Queued(s, n)) ~> k \in broken \/ ~Queued(s, n)

(* A notification is sent once on a stream: it is queued "for sessions     *)
(* without active SSE connections" (handler.go:565).                       *)
NoDuplicates == \A k \in Conns, n \in Notifs : got[k][n] <= 1
=============================================================================
