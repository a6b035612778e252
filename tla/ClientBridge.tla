----------------------------- MODULE ClientBridge -----------------------------
(***************************************************************************)
(* The client side of the bridge (internal/client): Client.Run, or         *)
(* RunWithSSE, takes the lines that the stdin goroutine reads, posts each  *)
(* to the remote server through Transport and writes the reply to stdout.  *)
(* Transport.doWithRetry retries within one Send, Client.retryMessage      *)
(* repeats the Send, and a session that the server has forgotten is        *)
(* dropped on the way.  Close and the cancellation of the context come at  *)
(* any time.                                                               *)
(*                                                                         *)
(* The remote server and the network are the environment: sessions expire, *)
(* a post is lost, refused, or executed without the reply coming back.     *)
(***************************************************************************)
EXTENDS Integers, Sequences, FiniteSets

CONSTANTS
  N,            \* bound of the model: lines on stdin
  MaxRetries,   \* config.Retry.MaxRetries
  ChanCap,      \* capacity of the channels of messages and of events (10)
  MaxEvents,    \* bound of the model: message events of one stream
  MaxSessions   \* bound of the model: sessions the server opens

ASSUME BridgeAssumption ==
  /\ N \in Nat /\ MaxRetries \in Nat /\ MaxEvents \in Nat /\ MaxSessions \in Nat
  /\ ChanCap \in Nat \ {0}

Lines == 1..N
Sessions == 1..MaxSessions

VARIABLES
  kinds, mode, retries,          \* what the lines hold; RunWithSSE or Run; Retry.Enabled
  reader, got, messages,         \* the stdin goroutine, the last line it read, its channel
  run, cur, attempt, tries, sid, \* Run: its place, the message, retryMessage's and doWithRetry's
                                 \* counters, the session id it sends (0 when there is none)
  session,                       \* c.sessionID
  streams, events,               \* the goroutine of each SendWithSSE; events in its channel
  ctxDone, closing,              \* the context; how far Close has come
  out,                           \* the lines that the messages on stdout reply to
  live, opened,                  \* the server's sessions; how many it ever opened
  sends, faults, gaveUp,         \* of cur: posts, failures that were no expiry, dropped
  rejected                       \* the ids that the server answered with 404 or 410

config == <<kinds, mode, retries>>
stdinVars == <<reader, got, messages>>
postVars == <<attempt, tries, sid, session, live, opened, sends, faults, rejected>>
sseVars == <<streams, events>>
vars == <<config, stdinVars, run, cur, postVars, gaveUp, sseVars, ctxDone, closing, out>>

ReaderPcs == {"new", "check", "read", "send", "off"}
RunPcs == {"start", "select", "send", "do", "pause", "backoff", "write", "events", "stopped"}
StreamPcs == {"none", "read", "send", "off"}
Errors == {"expired", "deadline", "cancelled", "other"}

Init ==
  /\ kinds \in [Lines -> {"request", "notification", "blank"}]
  /\ mode \in {"plain", "sse"} /\ retries \in BOOLEAN
  /\ reader = "new" /\ got = 0 /\ messages = <<>>
  /\ run = "start" /\ cur = 0 /\ attempt = 0 /\ tries = 0 /\ sid = 0 /\ session = 0
  /\ streams = [m \in Lines |-> "none"] /\ events = [m \in Lines |-> 0]
  /\ ctxDone = FALSE /\ closing = "open"
  /\ out = <<>>
  /\ live = {} /\ opened = 0
  /\ sends = 0 /\ faults = 0 /\ gaveUp = FALSE /\ rejected = {}

Closed == closing # "open"
StdioClosed == closing = "stdio"

-----------------------------------------------------------------------------
(* StdioHandler.ReadMessages. *)

ReaderCheck ==
  /\ reader = "check"
  /\ reader' = IF ctxDone \/ StdioClosed THEN "off" ELSE "read"
  /\ UNCHANGED <<config, got, messages, run, cur, postVars, gaveUp, sseVars, ctxDone, closing, out>>

(* A line, the end of stdin or an error; a line that is blank is skipped. *)
ReaderRead ==
  /\ reader = "read"
  /\ \/ /\ got < N
        /\ got' = got + 1
        /\ reader' = IF kinds[got + 1] = "blank" THEN "check" ELSE "send"
     \/ reader' = "off" /\ UNCHANGED got
  /\ UNCHANGED <<config, messages, run, cur, postVars, gaveUp, sseVars, ctxDone, closing, out>>

ReaderSend ==
  /\ reader = "send"
  /\ \/ Len(messages) < ChanCap /\ messages' = Append(messages, got) /\ reader' = "check"
     \/ ctxDone /\ reader' = "off" /\ UNCHANGED messages
  /\ UNCHANGED <<config, got, run, cur, postVars, gaveUp, sseVars, ctxDone, closing, out>>

-----------------------------------------------------------------------------
(* Run and RunWithSSE. *)

RunStart ==
  /\ run = "start"
  /\ IF Closed THEN run' = "stopped" /\ UNCHANGED reader
               ELSE run' = "select" /\ reader' = "check"
  /\ UNCHANGED <<config, got, messages, cur, postVars, gaveUp, sseVars, ctxDone, closing, out>>

(* The loop ends when the context is done, or the channel closed and empty.*)
RunEnds ==
  /\ run = "select"
  /\ ctxDone \/ (messages = <<>> /\ reader = "off")
  /\ run' = "stopped"
  /\ UNCHANGED <<config, stdinVars, cur, postVars, gaveUp, sseVars, ctxDone, closing, out>>

(* handleMessage, handleMessageWithSSE: the session id is read once. *)
TakeMessage ==
  /\ run = "select" /\ messages # <<>>
  /\ cur' = Head(messages) /\ messages' = Tail(messages)
  /\ run' = "send" /\ attempt' = 0 /\ tries' = 0 /\ sid' = session
  /\ sends' = 0 /\ faults' = 0 /\ gaveUp' = FALSE
  /\ UNCHANGED <<config, reader, got, session, live, opened, rejected, sseVars, ctxDone, closing, out>>

(* An error returned to the loop is logged, one of the context ends it. *)
GiveUp(fatal) ==
  /\ gaveUp' = TRUE
  /\ run' = IF fatal THEN "stopped" ELSE "select"

(* Mutant: retryMessage makes one attempt too many. *)
RetryFrom_OffByOne(n, s) ==
  IF n <= MaxRetries + 1
    THEN run' = "backoff" /\ attempt' = n /\ sid' = s /\ UNCHANGED gaveUp
    ELSE GiveUp(FALSE) /\ UNCHANGED <<attempt, sid>>

(* retryMessage: attempt n, with the session id s. *)
RetryFrom(n, s) ==
  IF n <= MaxRetries
    THEN run' = "backoff" /\ attempt' = n /\ sid' = s /\ UNCHANGED gaveUp
    ELSE GiveUp(FALSE) /\ UNCHANGED <<attempt, sid>>

(* Mutant: after an expiry the message is retried with the id it had. *)
handleSendError_SameId(err) ==
  /\ session' = IF err = "expired" THEN 0 ELSE session
  /\ IF retries THEN RetryFrom(1, sid)
                ELSE GiveUp(err = "deadline") /\ UNCHANGED <<attempt, sid>>

(* The first Send failed.  The id of an expired session is dropped whether *)
(* the message can be retried or not.                                      *)
handleSendError(err) ==
  /\ session' = IF err = "expired" THEN 0 ELSE session
  /\ IF retries THEN RetryFrom(1, IF err = "expired" THEN 0 ELSE session)
                ELSE GiveUp(err = "deadline") /\ UNCHANGED <<attempt, sid>>

(* Send, or SendWithSSE, which is never retried, returned an error.  Only  *)
(* the first Send of Run looks whether it is an expiry: RunWithSSE and     *)
(* retryMessage leave the id as it is.                                     *)
SendFails(err) ==
  /\ IF err = "expired" THEN rejected' = rejected \cup {sid} /\ UNCHANGED faults
                        ELSE faults' = faults + 1 /\ UNCHANGED rejected
  /\ IF mode = "sse"
       THEN GiveUp(err = "deadline") /\ UNCHANGED <<attempt, sid, session>>
     ELSE IF attempt = 0 THEN handleSendError(err)
     ELSE RetryFrom(attempt + 1, sid) /\ UNCHANGED session

(* Send: the transport may be closed, Authenticate may fail. *)
StartSend ==
  /\ run = "send"
  /\ \/ ~Closed /\ run' = "do" /\ tries' = 1
        /\ UNCHANGED <<attempt, sid, session, rejected, faults, gaveUp>>
     \/ SendFails("other") /\ UNCHANGED tries
  /\ UNCHANGED <<config, stdinVars, cur, live, opened, sends, sseVars, ctxDone, closing, out>>

(* The server executes the post: without an id it opens a session. *)
Executed(s) ==
  IF sid = 0 THEN /\ opened < MaxSessions /\ s = opened + 1
                  /\ opened' = s /\ live' = live \cup {s}
             ELSE sid \in live /\ s = sid /\ UNCHANGED <<opened, live>>

(* The session id of a reply.  handleMessage compares it with what it sent *)
(* and retryMessage stores it; a reply need not carry one.                 *)
SessionOfReply(s) == \/ session' = s
                     \/ UNCHANGED session

(* The stream's goroutine looks at the context before each event. *)
NextRead == IF ctxDone THEN "off" ELSE "read"

(* 2xx.  Replies to notifications and empty bodies are not written. *)
Answered ==
  /\ \E s \in Sessions : Executed(s) /\ SessionOfReply(s)
  /\ \/ mode = "plain" /\ kinds[cur] = "request" /\ run' = "write" /\ UNCHANGED streams
     \/ mode = "plain" /\ run' = "select" /\ UNCHANGED streams
     \/ mode = "sse" /\ run' = "events" /\ streams' = [streams EXCEPT ![cur] = NextRead]
  /\ UNCHANGED <<attempt, tries, sid, rejected, faults, gaveUp>>

(* 404 or 410. *)
Expired ==
  /\ sid # 0 /\ sid \notin live
  /\ SendFails("expired")
  /\ UNCHANGED <<tries, live, opened, streams>>

(* A network error before or after the server executed the post: it is     *)
(* posted again after a pause.                                             *)
Lost ==
  /\ UNCHANGED <<live, opened>> \/ \E s \in Sessions : Executed(s)
  /\ IF mode = "plain" /\ retries /\ tries <= MaxRetries
       THEN run' = "pause" /\ faults' = faults + 1
            /\ UNCHANGED <<attempt, sid, session, rejected, gaveUp>>
       ELSE SendFails("other")
  /\ UNCHANGED <<tries, streams>>

(* Another status, a body that breaks off, the timeout of the HTTP client  *)
(* (which errors.Is takes for context.DeadlineExceeded), or cancellation:  *)
(* shouldRetry says no to all of them.                                     *)
Refused ==
  /\ UNCHANGED <<live, opened>> \/ \E s \in Sessions : Executed(s)
  /\ \/ \E err \in {"other", "deadline"} : SendFails(err)
     \/ ctxDone /\ SendFails("cancelled")
  /\ UNCHANGED <<tries, streams>>

Post ==
  /\ run = "do"
  /\ sends' = sends + 1
  /\ Answered \/ Expired \/ Lost \/ Refused
  /\ UNCHANGED <<config, stdinVars, cur, events, ctxDone, closing, out>>

(* doWithRetry waits before it posts again. *)
Pause ==
  /\ run = "pause"
  /\ \/ run' = "do" /\ tries' = tries + 1
        /\ UNCHANGED <<attempt, sid, session, rejected, faults, gaveUp>>
     \/ ctxDone /\ SendFails("cancelled") /\ UNCHANGED tries
  /\ UNCHANGED <<config, stdinVars, cur, live, opened, sends, sseVars, ctxDone, closing, out>>

(* retryMessage waits before it sends again. *)
Backoff ==
  /\ run = "backoff"
  /\ \/ run' = "send" /\ UNCHANGED gaveUp
     \/ ctxDone /\ GiveUp(TRUE)
  /\ UNCHANGED <<config, stdinVars, cur, postVars, sseVars, ctxDone, closing, out>>

WriteMessage ==
  IF StdioClosed THEN GiveUp(FALSE) /\ UNCHANGED out
                 ELSE out' = Append(out, cur) /\ UNCHANGED gaveUp

WriteReply ==
  /\ run = "write"
  /\ WriteMessage
  /\ ~StdioClosed => run' = "select"
  /\ UNCHANGED <<config, stdinVars, cur, postVars, sseVars, ctxDone, closing>>

-----------------------------------------------------------------------------
(* The streams of SSE mode. *)

(* Mutant: the events of a reply to a notification are written too. *)
NextEvent_Notification ==
  /\ run = "events"
  /\ \/ /\ events[cur] > 0
        /\ events' = [events EXCEPT ![cur] = @ - 1]
        /\ WriteMessage /\ (~StdioClosed => UNCHANGED run)
     \/ /\ events[cur] = 0 /\ streams[cur] = "off"
        /\ run' = "select" /\ UNCHANGED <<events, gaveUp, out>>
  /\ UNCHANGED <<config, stdinVars, cur, postVars, streams, ctxDone, closing>>

(* handleMessageWithSSE: a failed write leaves the stream where it is. *)
NextEvent ==
  /\ run = "events"
  /\ \/ /\ events[cur] > 0
        /\ events' = [events EXCEPT ![cur] = @ - 1]
        /\ IF kinds[cur] = "request" THEN WriteMessage /\ (~StdioClosed => UNCHANGED run)
                                     ELSE UNCHANGED <<run, gaveUp, out>>
     \/ /\ events[cur] = 0 /\ streams[cur] = "off"
        /\ run' = "select" /\ UNCHANGED <<events, gaveUp, out>>
  /\ UNCHANGED <<config, stdinVars, cur, postVars, streams, ctxDone, closing>>

Written(m) == Cardinality({i \in DOMAIN out : out[i] = m})

(* An event of type message; or the end of the stream, an error, the HTTP  *)
(* client's timeout, the context.                                          *)
StreamRead(m) ==
  /\ streams[m] = "read"
  /\ \/ Written(m) + events[m] < MaxEvents /\ streams' = [streams EXCEPT ![m] = "send"]
     \/ streams' = [streams EXCEPT ![m] = "off"]
  /\ UNCHANGED <<config, stdinVars, run, cur, postVars, gaveUp, events, ctxDone, closing, out>>

(* Mutant: the send on the channel does not watch the context. *)
StreamSend_NoCtx(m) ==
  /\ streams[m] = "send"
  /\ events[m] < ChanCap /\ events' = [events EXCEPT ![m] = @ + 1]
  /\ streams' = [streams EXCEPT ![m] = NextRead]
  /\ UNCHANGED <<config, stdinVars, run, cur, postVars, gaveUp, ctxDone, closing, out>>

StreamSend(m) ==
  /\ streams[m] = "send"
  /\ \/ events[m] < ChanCap /\ events' = [events EXCEPT ![m] = @ + 1]
        /\ streams' = [streams EXCEPT ![m] = NextRead]
     \/ ctxDone /\ streams' = [streams EXCEPT ![m] = "off"] /\ UNCHANGED events
  /\ UNCHANGED <<config, stdinVars, run, cur, postVars, gaveUp, ctxDone, closing, out>>

-----------------------------------------------------------------------------
(* The environment. *)

(* SetSessionID resumes a session that the server knows. *)
SetSessionID ==
  /\ run = "start" /\ opened < MaxSessions
  /\ opened' = opened + 1 /\ live' = live \cup {opened + 1} /\ session' = opened + 1
  /\ UNCHANGED <<config, stdinVars, run, cur, attempt, tries, sid, sends, faults, rejected, gaveUp,
                 sseVars, ctxDone, closing, out>>

Cancel ==
  /\ ~ctxDone /\ ctxDone' = TRUE
  /\ UNCHANGED <<config, stdinVars, run, cur, postVars, gaveUp, sseVars, closing, out>>

(* Client.Close: its flag and the transport (between the two nothing looks *)
(* at the flag but a Run that starts), the authenticator, then stdio.      *)
Close ==
  /\ \/ closing = "open" /\ closing' = "transport"
     \/ closing = "transport" /\ closing' = "stdio"
  /\ UNCHANGED <<config, stdinVars, run, cur, postVars, gaveUp, sseVars, ctxDone, out>>

ServerForgets ==
  /\ \E s \in live : live' = live \ {s}
  /\ UNCHANGED <<config, stdinVars, run, cur, attempt, tries, sid, session, opened, sends, faults,
                 rejected, gaveUp, sseVars, ctxDone, closing, out>>

Reader == ReaderCheck \/ ReaderRead \/ ReaderSend
Run == \/ RunStart \/ RunEnds \/ TakeMessage \/ StartSend \/ Post \/ Pause \/ Backoff
       \/ WriteReply \/ NextEvent
Stream(m) == StreamRead(m) \/ StreamSend(m)

Next == Reader \/ Run \/ SetSessionID \/ Cancel \/ Close \/ ServerForgets \/ \E m \in Lines : Stream(m)

(* The loop and the streams run: posts and reads from the network end, by  *)
(* the HTTP client's timeout if not before.  Nothing is assumed of stdin.  *)
Fairness == WF_vars(Run) /\ \A m \in Lines : WF_vars(Stream(m))

Spec == Init /\ [][Next]_vars
FairSpec == Spec /\ Fairness

-----------------------------------------------------------------------------
TypeOK ==
  /\ kinds \in [Lines -> {"request", "notification", "blank"}]
  /\ mode \in {"plain", "sse"} /\ retries \in BOOLEAN
  /\ reader \in ReaderPcs /\ got \in 0..N /\ messages \in Seq(Lines)
  /\ run \in RunPcs /\ cur \in 0..N
  /\ attempt \in 0..MaxRetries /\ tries \in 0..MaxRetries + 1
  /\ sid \in 0..MaxSessions /\ session \in 0..MaxSessions
  /\ streams \in [Lines -> StreamPcs] /\ events \in [Lines -> 0..ChanCap]
  /\ ctxDone \in BOOLEAN /\ closing \in {"open", "transport", "stdio"}
  /\ out \in Seq(Lines)
  /\ live \subseteq Sessions /\ opened \in 0..MaxSessions
  /\ sends \in Nat /\ faults \in Nat /\ gaveUp \in BOOLEAN /\ rejected \subseteq Sessions

(* The bridge keeps the promise made to the local client: replies in the   *)
(* order of the requests, none to a notification, and one to a request     *)
(* however often retries sent it (client.go:132-334, 384-425).             *)
Busy == run \in {"send", "do", "pause", "backoff", "write", "events"}
Client == INSTANCE LocalClient WITH last <- cur, owed <- IF Busy THEN cur ELSE 0
Promise == Client!Spec

(* The retries of doWithRetry and of retryMessage multiply, and end: a     *)
(* message is posted at most (MaxRetries + 1)^2 times (transport.go:293,   *)
(* client.go:278).                                                         *)
PostsBounded == sends <= IF retries /\ mode = "plain" THEN (MaxRetries + 1) * (MaxRetries + 1) ELSE 1

(* With retries enabled a message is never given up because its session    *)
(* expired: something else failed as well (client.go:253-263).             *)
ExpiryRecovers ==
  gaveUp /\ mode = "plain" /\ retries /\ MaxRetries > 0 /\ ~ctxDone /\ ~Closed => faults > 0

(* "It implements retry logic and handles session expiration", says        *)
(* client.go:252 of the errors of Run, and client_test.go:589 that then    *)
(* "Session should have been cleared and new one set": no message is first *)
(* sent with an id that the server has answered with 404 or 410.  It fails *)
(* where a retry gets that answer (client.go:298-324).                     *)
ExpiredNotReused == mode = "plain" /\ run = "send" /\ attempt = 0 => sid \notin rejected

(* When the context is cancelled Run returns and no goroutine of a stream  *)
(* is left, wherever they were (client.go:148, 291; transport.go:261-285). *)
ShutdownEnds ==
  ctxDone ~> (run = "stopped" /\ \A m \in Lines : streams[m] \in {"none", "off"})
=============================================================================
