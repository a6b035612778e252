----------------------------- MODULE SessionPool -----------------------------
(***************************************************************************)
(* SessionManager and Session of internal/server/session.go.               *)
(*                                                                         *)
(* sm.mu is a readers-writer lock.  A section that holds it in one go is   *)
(* one action; BroadcastNotification keeps it for reading over a sequence  *)
(* of QueueNotification calls, and cleanupExpiredSessions for writing over *)
(* a scan and the evictions: those take several actions, and what needs    *)
(* only the session's own mutex (Touch, a receive) runs between them.      *)
(* POST handlers are slots that serve one request after another.           *)
(***************************************************************************)
EXTENDS Integers, Sequences, FiniteSets

CONSTANTS
  Ids,          \* session ids; generateSessionID never repeats one
  MaxSessions,  \* sm.maxSessions
  BufCap,       \* notificationBufferSize
  Notifs,       \* notifications of the subprocess, each broadcast once
  Posts,        \* concurrent POST handlers
  Deletes,      \* concurrent DELETE handlers
  None          \* no session, nil

ASSUME PoolAssumption ==
  /\ MaxSessions \in Nat \ {0}
  /\ BufCap \in Nat \ {0}
  /\ None \notin Ids \cup Notifs

VARIABLES
  issued,     \* ids given to sessions so far
  sessions,   \* the ids in sm.sessions
  closed,     \* session -> its closed flag, and its channel is closed
  idle,       \* session -> more than sm.timeout since LastActivity
  buf,        \* session -> its notifications channel
  writer,     \* the reaper holds sm.mu for writing
  expired,    \* the reaper's local list
  bpc,        \* BroadcastNotification: idle, or it holds sm.mu for reading
  bleft, bcur, bnote,  \* sessions not visited, the one visited, the data
  broadcast,  \* notifications broadcast so far
  panicked,   \* something was sent on a closed notifications channel
  ppc, psess, \* POST handlers: program counter and session
  dpc, dsess  \* DELETE handlers

poolVars  == <<issued, sessions, closed, idle, buf>>
reapVars  == <<writer, expired>>
castVars  == <<bpc, bleft, bcur, bnote, broadcast, panicked>>
postVars  == <<ppc, psess>>
delVars   == <<dpc, dsess>>
sessVars  == <<poolVars, reapVars, castVars, postVars, delVars>>

PoolInit ==
  /\ issued = {} /\ sessions = {}
  /\ closed = [s \in Ids |-> FALSE] /\ idle = [s \in Ids |-> FALSE]
  /\ buf = [s \in Ids |-> <<>>]
  /\ writer = FALSE /\ expired = {}
  /\ bpc = "idle" /\ bleft = {} /\ bcur = None /\ bnote = None
  /\ broadcast = {} /\ panicked = FALSE
  /\ ppc = [p \in Posts |-> "idle"] /\ psess = [p \in Posts |-> None]
  /\ dpc = [d \in Deletes |-> "idle"] /\ dsess = [d \in Deletes |-> None]

-----------------------------------------------------------------------------
(* sm.mu can be taken for reading. *)
CanRead == ~writer

(* Mutant: the broadcast works on a copy of the map, without sm.mu. *)
CanWrite_NoReaders == ~writer

(* sm.mu can be taken for writing. *)
CanWrite == ~writer /\ bpc = "idle"

GetSession(s) == s \in sessions /\ ~closed[s]

(* Session.Close and the delete from the map, for a set of sessions.  Their *)
(* LastActivity is not looked at any more.                                  *)
CloseAndDelete(S) ==
  /\ closed' = [s \in Ids |-> closed[s] \/ s \in S]
  /\ idle' = [s \in Ids |-> idle[s] /\ s \notin S]
  /\ sessions' = sessions \ S

-----------------------------------------------------------------------------
(* A POST without a session id creates a session, if there is room.  The   *)
(* ids are random, so which unused one it gets makes no difference.        *)
CreateSession(p) ==
  /\ ppc[p] = "idle"
  /\ CanWrite
  /\ Cardinality(sessions) < MaxSessions
  /\ Ids # issued
  /\ LET s == CHOOSE id \in Ids : id \notin issued IN
       issued' = issued \cup {s} /\ sessions' = sessions \cup {s}
  /\ UNCHANGED <<closed, idle, buf, reapVars, castVars, postVars, delVars>>

(* A POST with a session id looks it up, and once more in TouchSession:    *)
(* between the lookups nothing is done, so the last one counts.            *)
PostGet(p, s) ==
  /\ ppc[p] = "idle"
  /\ CanRead
  /\ GetSession(s)
  /\ ppc' = [ppc EXCEPT ![p] = "touch"]
  /\ psess' = [psess EXCEPT ![p] = s]
  /\ UNCHANGED <<poolVars, reapVars, castVars, delVars>>

(* It touches what it found, under the session's own mutex.                *)
Touch(p) ==
  /\ ppc[p] = "touch"
  /\ idle' = [idle EXCEPT ![psess[p]] = FALSE]
  /\ ppc' = [ppc EXCEPT ![p] = "idle"]
  /\ psess' = [psess EXCEPT ![p] = None]
  /\ UNCHANGED <<issued, sessions, closed, buf, reapVars, castVars, delVars>>

-----------------------------------------------------------------------------
(* DELETE: the lookup, then CloseSession, which looks again.               *)
DeleteGet(d, s) ==
  /\ dpc[d] = "idle"
  /\ CanRead
  /\ GetSession(s)
  /\ dpc' = [dpc EXCEPT ![d] = "close"]
  /\ dsess' = [dsess EXCEPT ![d] = s]
  /\ UNCHANGED <<poolVars, reapVars, castVars, postVars>>

(* Mutant: the session leaves the map but is not closed. *)
CloseSession_NoClose(d) ==
  /\ dpc[d] = "close"
  /\ CanWrite
  /\ sessions' = sessions \ {dsess[d]}
  /\ dpc' = [dpc EXCEPT ![d] = "closed"]
  /\ UNCHANGED <<issued, closed, idle, buf, reapVars, castVars, postVars, dsess>>

CloseSession(d) ==
  /\ dpc[d] = "close"
  /\ CanWrite
  /\ IF dsess[d] \in sessions THEN CloseAndDelete({dsess[d]}) ELSE UNCHANGED <<closed, idle, sessions>>
  /\ dpc' = [dpc EXCEPT ![d] = "closed"]
  /\ UNCHANGED <<issued, buf, reapVars, castVars, postVars, dsess>>

DeleteDone(d) ==
  /\ dpc[d] = "closed"
  /\ dpc' = [dpc EXCEPT ![d] = "idle"]
  /\ dsess' = [dsess EXCEPT ![d] = None]
  /\ UNCHANGED <<poolVars, reapVars, castVars, postVars>>

CloseAllSessions ==
  /\ CanWrite
  /\ sessions # {}
  /\ CloseAndDelete(sessions)
  /\ UNCHANGED <<issued, buf, reapVars, castVars, postVars, delVars>>

-----------------------------------------------------------------------------
(* Time: the timeout passes without a touch. *)
Expire(s) ==
  /\ s \in sessions /\ ~idle[s]
  /\ idle' = [idle EXCEPT ![s] = TRUE]
  /\ UNCHANGED <<issued, sessions, closed, buf, reapVars, castVars, postVars, delVars>>

(* Mutant: the comparison in IsExpired is the wrong way round. *)
ReaperScan_Inverted ==
  /\ CanWrite
  /\ expired' = {s \in sessions : ~idle[s]}
  /\ expired' # {}
  /\ writer' = TRUE
  /\ UNCHANGED <<poolVars, castVars, postVars, delVars>>

(* The ticker of cleanupLoop; nothing to do when nothing has expired.      *)
ReaperScan ==
  /\ CanWrite
  /\ expired' = {s \in sessions : idle[s]}
  /\ expired' # {}
  /\ writer' = TRUE
  /\ UNCHANGED <<poolVars, castVars, postVars, delVars>>

(* Mutant: the list survives the call that made it. *)
ReaperEvict_KeepList ==
  /\ writer
  /\ CloseAndDelete(expired \cap sessions)
  /\ writer' = FALSE
  /\ UNCHANGED <<issued, buf, expired, castVars, postVars, delVars>>

ReaperEvict ==
  /\ writer
  /\ CloseAndDelete(expired \cap sessions)
  /\ expired' = {} /\ writer' = FALSE
  /\ UNCHANGED <<issued, buf, castVars, postVars, delVars>>

-----------------------------------------------------------------------------
(* BroadcastNotification holds sm.mu for reading to its end. *)
BroadcastBegin(n) ==
  /\ bpc = "idle" /\ CanRead
  /\ bpc' = "next" /\ bleft' = sessions /\ bnote' = n
  /\ broadcast' = broadcast \cup {n}
  /\ UNCHANGED <<poolVars, reapVars, bcur, panicked, postVars, delVars>>

(* QueueNotification looks at closed under the session's mutex, ... *)
QueueCheck(s) ==
  /\ bpc = "next" /\ s \in bleft
  /\ bleft' = bleft \ {s}
  /\ IF closed[s] THEN UNCHANGED <<bpc, bcur>> ELSE bpc' = "send" /\ bcur' = s
  /\ UNCHANGED <<poolVars, reapVars, bnote, broadcast, panicked, postVars, delVars>>

(* ... releases it, and sends: a full buffer drops the notification, a     *)
(* closed channel panics.                                                  *)
QueueSend ==
  /\ bpc = "send"
  /\ bpc' = "next" /\ bcur' = None
  /\ panicked' = (panicked \/ closed[bcur])
  /\ buf' = IF ~closed[bcur] /\ Len(buf[bcur]) < BufCap
              THEN [buf EXCEPT ![bcur] = Append(@, bnote)] ELSE buf
  /\ UNCHANGED <<issued, sessions, closed, idle, reapVars, bleft, bnote, broadcast, postVars, delVars>>

BroadcastEnd ==
  /\ bpc = "next" /\ bleft = {}
  /\ bpc' = "idle" /\ bnote' = None
  /\ UNCHANGED <<poolVars, reapVars, bleft, bcur, broadcast, panicked, postVars, delVars>>

(* A consumer receives from the session's channel (SseFanout says who).    *)
Receive(s) ==
  /\ buf[s] # <<>>
  /\ buf' = [buf EXCEPT ![s] = Tail(@)]
  /\ UNCHANGED <<issued, sessions, closed, idle, reapVars, castVars, postVars, delVars>>

-----------------------------------------------------------------------------
Reaper    == ReaperScan \/ ReaperEvict
Broadcast == QueueSend \/ BroadcastEnd \/ \E s \in Ids : QueueCheck(s)

(* What a pool does by itself; DeleteDone and Receive are left to the      *)
(* module that knows what comes between.                                   *)
PoolNext ==
  \/ \E p \in Posts : CreateSession(p) \/ Touch(p) \/ \E s \in Ids : PostGet(p, s)
  \/ \E d \in Deletes : CloseSession(d) \/ \E s \in Ids : DeleteGet(d, s)
  \/ CloseAllSessions \/ Reaper \/ Broadcast \/ \E s \in Ids : Expire(s)

(* The pool with any consumer and any producer. *)
PoolStep ==
  \/ PoolNext
  \/ \E s \in Ids : Receive(s)
  \/ \E d \in Deletes : DeleteDone(d)
  \/ \E n \in Notifs : BroadcastBegin(n)

PoolSpec == PoolInit /\ [][PoolStep]_sessVars

-----------------------------------------------------------------------------
PoolTypeOK ==
  /\ issued \subseteq Ids /\ sessions \subseteq issued
  /\ closed \in [Ids -> BOOLEAN] /\ idle \in [Ids -> BOOLEAN]
  /\ buf \in [Ids -> Seq(Notifs)]
  /\ writer \in BOOLEAN /\ expired \subseteq Ids /\ (writer \/ expired = {})
  /\ bpc \in {"idle", "next", "send"} /\ bleft \subseteq Ids
  /\ bcur \in Ids \cup {None} /\ bnote \in Notifs \cup {None}
  /\ broadcast \subseteq Notifs /\ panicked \in BOOLEAN
  /\ ppc \in [Posts -> {"idle", "touch"}] /\ psess \in [Posts -> Ids \cup {None}]
  /\ dpc \in [Deletes -> {"idle", "close", "closed"}] /\ dsess \in [Deletes -> Ids \cup {None}]

(* No notification is ever sent on the channel of a closed session:        *)
(* QueueNotification looks at closed and sends after it has released the   *)
(* session's mutex (session.go:146-157), and only sm.mu keeps the three    *)
(* ways of closing a session out of that window.                           *)
NoSendOnClosed == ~panicked

(* A session that was handed out is closed exactly when it has left the    *)
(* map: no open session is forgotten (its SSE stream would never end), no  *)
(* closed one keeps a slot (session.go:316-338, 399-421).                  *)
ClosedIffRemoved == \A s \in issued : closed[s] <=> s \notin sessions
=============================================================================
