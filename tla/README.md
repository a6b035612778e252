# Specifications of pgedge-mcp-bridge

TLA+ modules, TLC configurations and TLAPS proofs for the bridge that makes an
MCP server which speaks JSON-RPC over stdin and stdout reachable over HTTP
(server mode), and for the counterpart that gives a local stdio client access to
such an HTTP endpoint (client mode). Paths below are relative to `src/`.

## 1. The system

### Server mode

    HTTP clients                         MCP subprocess
      POST  --> HandlePost ---- stdin ------>  .
      GET   <-- HandleSSE        read loop <-- stdout
      DELETE -> HandleSessionClose   |         ^ spawn, signal, wait
                    |                |         |
               SessionManager <------+    process.Manager

| Component | State | Operations | Talks to |
|---|---|---|---|
| Process manager, `internal/process/manager.go` | state, cmd and pipes, pid, restartCount, waitCh, events, closed | Start, Stop, Restart, Wait, Close; one monitor goroutine per process | the OS; the server reads `Events()`, handlers take `Stdin()` and `Stdout()` |
| Request path, `internal/server/handler.go` | pendingResponses by JSON-RPC id, h.mu over stdin, readLoopStarted | HandlePost, handleRequest, handleNotification, readLoop, routeResponse | manager's pipes, session pool |
| Session pool, `internal/server/session.go` | map of sessions; per session LastActivity, closed, a bounded queue of notifications | create, get, touch, close, close all, reaper, broadcast | handlers, read loop, server shutdown |
| SSE streams, `internal/server/handler.go`, `sse.go` | sseClients: session -> writer | HandleSSE, HandleSessionClose, routeNotification | session pool, read loop |
| Server life cycle, `internal/server/server.go`, `cmd/mcp-bridge/main.go` | running, done, shutdownOnce, listener | Start, Stop, monitorProcessEvents, health and readiness, signals | all of the above |
| Authorization server, `internal/authserver/` | codes, refresh tokens, CSRF tokens, pending federated requests, the OIDC client's caches, rate windows | authorize, callback, token, register, cleanup goroutines | in-memory storage, an upstream identity provider |
| Authenticators, `internal/auth/` | current token, the token source's own, PKCE verifier | getToken, Refresh, BuildAuthorizationURL, ExchangeAuthorizationCode; Validate and the middleware on the receiving side | provider, introspection endpoint |

### Client mode

| Component | State | Operations |
|---|---|---|
| Client, `internal/client/client.go`, `stdio.go` | session id, closed, the channel of lines | Run, RunWithSSE, the stdin goroutine, handleMessage, handleSendError, retryMessage, Close |
| Transport, `transport.go`, `sse_reader.go` | closed, one goroutine and channel for each stream | Send, SendWithSSE, doWithRetry, ReadEvent |

`protocol` (message classification, ids, codec), `config`, `logging`, `tls`,
`cors` and `pkg/version` are sequential helpers. `process/stdio.go`
(StdioBridge) is used by tests only.

### What is hard

- **Windows outside locks.** Stop and monitor read `waitCh` and store the state
  without `m.mu`; the restart delay holds nothing; QueueNotification checks
  `closed` and sends in two steps; routing looks a handler up and sends later.
- **Crashes and restarts.** The pipes vanish under a handler that writes and a
  read loop that reads; a new process has new pipes; the read loop is started by
  POSTs only.
- **Late and lost answers.** Handlers time out, clients go away, ids repeat.
- **Several ways to end one thing.** A session is closed by DELETE, the reaper
  and the shutdown; a stream by its client, its session and a write error; a
  process by itself, Stop and Close.
- **Two storage calls.** Codes, refresh tokens and pending requests are looked
  up and removed under separate locks; two requests can both find them.
- **Retries inside retries.** The transport repeats a post, the client repeats
  the Send, and a session may expire in the middle of both.
- **Stop against Start.** A signal or the end of the subprocess's restarts calls
  Stop wherever Start is.
- **Everyone waits.** Close waits for monitors, writers of `sm.mu` and
  `sseClientsMu` for readers, every POST for `h.mu`.

What makes each component correct is stated at its properties in section 3; the
full list of hazards with the line of each is `hazards` in PROJECT.json.

## 2. Modules

| Module | Models |
|---|---|
| `ProcessManager` | callers of the manager and the monitors of its processes |
| `PostService` | what clients are promised of the answers to their POSTs: an abstract specification |
| `RequestRouter` | POST handlers, the read loop, and the subprocess and manager as their environment; implements `PostService` |
| `SessionPool` | sessions, reaper, broadcast; with any consumer and producer it is `PoolSpec`, the abstract specification |
| `SseFanout` | extends SessionPool with streams, DELETE and routeNotification; implements `PoolSpec` |
| `LocalClient` | what a local stdio client may see on stdout: the abstract specification of client mode |
| `ClientBridge` | the client loop, its stdin goroutine, transport, streams and the server's sessions; implements `LocalClient` |
| `ServerLifecycle` | main, Server.Start, Server.Stop and the server's goroutines over a subprocess and connections seen from outside |
| `GrantService` | what users of the authorization server are promised of their grants: an abstract specification |
| `AuthServer` | the authorization server: logins, codes, tokens, storages and their cleanup; implements `GrantService` |
| `TokenPath` | the OAuth authenticator: the shared token, the PKCE flow, and the receiver's verdict |
| `MC*` | constants for TLC |
| `*Proofs` | theorems and their proofs |

A section of code that holds a mutex in one go is one action. Code between
critical sections is an action of its own. Operators whose names end in
`_Something` next to the definition they vary (`CloseJoin_NoWait`) are mutants:
plausible bugs, none of them used by a specification, with which each property
has been seen to fail.

### ProcessManager

State and actions keep the code's order: `StartLock`/`StartSpawn` are the two
halves of `startLocked` (it holds `mu` while it forks), `StopLock`,
`StopSignal`, `StopExited`/`StopTimeout`/`StopKillTimeout`/`StopCtxDone` are
Stop's steps, `Close*` those of Close inside `closedOnce`, `Monitor*` those of
monitor. Processes are numbered; channel p is the `waitCh` made for process p.
Since `m.waitCh` is read without the lock, `StopExited` and `MonitorNotify` may
see any channel that was current since their goroutine last held `mu`: that is
the choice a data race leaves. `cmd`, the three pipes and the pid are assigned
together and cleared together under `mu`, so one variable stands for them.
What the events channel holds is not modelled, only that it is open or closed.
`restarts` is `RestartOnFailure`, chosen in Init: runs and theorems cover both.

### RequestRouter

A request r stands for one POST with id `IdOf[r]`; `notes` are those that are
notifications. A message is one element of `stdin` and its newline another,
because the code writes them with two calls. `gen`, `alive`, `pipes` and
`running` are the manager seen from the handlers: a process dies (`ProcessExit`),
later its monitor clears the pipes (`ManagerClears`), later it restarts it or
gives up; `running` stays true in between, as in the code. `rbuf` is what the
read loop's `bufio.Reader` may have buffered of a stdout that is gone: any
prefix of what was unread (buffer sizes are not modelled).
`HandlePost` covers every refusal as one outcome "error".

PostService knows neither pipes nor table: a POST's message is given to the
subprocess, its response then travels, may be lost, and answers one POST with
its id. The mapping puts the response of a request "in transit" from the write of
its message to the moment a handler takes it: in stdin, in the subprocess, in
stdout, in the read loop's buffer or hands, in a handler's channel. As in
RequestRouter, the subprocess responds to a request at most once.

### SessionPool and SseFanout

`sm.mu` and `sseClientsMu` are readers-writer locks. `writer` and `bpc` say who
holds `sm.mu` over several actions (the reaper between scan and eviction, the
broadcast over its loop); `rpc = "direct"` says that routeNotification holds
`sseClientsMu` for reading. Time is the action `Expire`: the timeout of a
session has passed since LastActivity. `broken` are connections on which writes
fail. `got` counts what each stream was sent; it is history.

### LocalClient and ClientBridge

LocalClient has five variables: the kind of each line, the mode, the last line
served, the one being served, and what stands on stdout, named by the line each
message replies to. ClientBridge is one `run` loop with the places `send` (Send
begins), `do` (the request is on its way), `pause` (doWithRetry waits), `backoff`
(retryMessage waits), `write` and `events`; `attempt` and `tries` are the
counters of the two loops, `sid` the session id read at the start of a message.
`kinds`, `mode` and `retries` are chosen in Init, so one run covers `Run` and
`RunWithSSE` with and without retries. A post is executed by the server or not,
and its outcome is an answer, an expiry (404, 410), a loss that the transport
repeats, or an error it does not repeat. `faults` and `gaveUp`, `sends` and
`rejected` (every id answered with 404 or 410, by whichever Send) are history, for
the properties. What is on the wire is only the line
number, and a reply to it is named by the same number: that the server pairs
them is RequestRouter's affair.

### ServerLifecycle

`start` and `stop` are the places of Start and of the one body of Stop; `caller`
holds the two callers of Stop, main after a signal and the goroutine that
monitorProcessEvents starts, and `owner` the one whose call runs the body under
`shutdownOnce`. `late[c]` says that the 30 seconds of that caller's context are
over. The subprocess is none, alive, dying or dead; its end without a signal may
come with `evt`, EventMaxRestartsReached. `main = "panic"` would be the end of
the program by the runtime, when Start replaces `shutdownOnce` between the end
of a Stop and the unlock of that Once: TLC finds the state reachable, and
`ExitIsClean` says nothing is left behind in it either.

### AuthServer

A login `f` is one GET to the authorization endpoint and all that follows from
it, in either mode. Codes are numbered within their login, tokens in the order
of their issue. `forms` are unused CSRF tokens of a login. A record is live,
expired, or (tokens) gone; `tokens` keeps records of tokens that left the
storage, as history. `tgrant` is what a token request has looked up and holds on
its stack while the storage moves on. `overlapped` marks codes of which two
requests were under way at once. A handler that answers with an error before it
changed anything is a stuttering step: a wrong client, a bad redirect URI, a
missing CSRF token, the rate limiter's 429.

GrantService knows only grants: one for each code, made once, with scopes of the
user; something of it is left or not. The mapping says that a grant is left while
its code is stored, a refresh token that descends from it is kept, or a request
that looked one of them up is under way (`Carried`). Access tokens are not part of
it: they are signed, not stored, and end by their own expiry.

### TokenPath

Tokens have an age (fresh, within ten seconds of the end, expired), because
`oauth2.Token.Valid` is false ten seconds early; `taken` is the age at which a
caller got its token. `cached` is the token inside `oauth2.ReuseTokenSource`,
and differs from `currentToken` after a user's flow. A flow's verifier is named
by the flow. `Verdicts` is Validate of the receiver: signature, else
introspection. When the keys cannot be fetched and introspection is off or does not
answer, the code answers 401 all the same: that is "unchecked", which every token may
meet, and which says nothing of the token. A token that came without `expires_in`
never ages here; that it ends untold is the step `Revokes`.

Handlers of the HTTP server cannot start more than `Conns`, `Posts`, `Deletes`
at a time; POST and DELETE slots are reused, a connection serves one stream.

## 3. What the runs check

| Run | Instance | Distinct states |
|---|---|---|
| `process_manager` | 2 callers: start, stop, close beside one of wait-stop, restart, stop-start, close; 3 processes, MaxRestarts 1, RestartOnFailure on or off | 113,152 |
| `request_router` | 3 POSTs, two share an id, one of these may be a notification; 2 generations | 524,150 |
| `sse_fanout` | 2 session ids, 1 slot, queue of 1, 2 streams, 1 POST, 1 DELETE, 1 notification | 208,688 |
| `client_bridge` | 2 lines of any kind, MaxRetries 1, channels of 1, 2 events a stream, 2 sessions | 811,808 |
| `auth_server` | 1 login, 2 handlers, 2 token requests, 3 tokens, storages of 1 code and 2 tokens, 3 redirect URIs, 2 scopes | 281,092 |
| `server_lifecycle` | 2 POSTs, 1 stream | 96,339 |
| `token_path` | 2 callers, 2 flows, 3 tokens, a receiver with signatures and introspection, either of which may fail to answer | 1,740,083 (up to symmetry) |

**process_manager.** `NoSendAfterClose`: no goroutine sends on the closed events
channel. `RestartLimit`: at most MaxRestarts automatic restarts. `OneProcess`,
`Watched`: a manager that its user started once never has two live processes and
a live process always has its monitor (with a second Start by the user, during a
delay or after a Stop that timed out, both fail; the server starts once, so the
properties say so with `StartedOnce`: startLocked refuses only the states starting
and running, so it is let in while a Stop is under way, and that hazard is left
uncovered). `CloseReleases`: after Close no monitor
runs and no process lives. `StopSeesItsExit`: Stop does not take another
process's exit for the one it waits for. `CloseTerminates`, `RunningSettles`:
Close returns; "running" with no process ends.

**request_router.** `Promise` is `PostService!Spec` under a refinement mapping: a
response answers at most one POST, which has its id and whose message the
subprocess was given; only a notification that was written is accepted.
`PendingLive`: the table holds live
handlers only. `FramesWhole`: each message on stdin is followed by its newline.
`AnswerArrives`: an answer in stdout ends its handler's wait, unless the process
goes. Two POSTs with one id, a third with its own and two generations are enough
for overwritten registrations, deletes of another's entry, late responses and a
crash at every step of a write and of a read.

**sse_fanout.** `NoSendOnClosed`, `ClosedIffRemoved`,
`DirectWriteLive` (an action property), `StreamEnds`, `IdleEvicted`.
`QueuedIsKept` (an action property): a notification leaves the queue of its session
only to a stream of that session in its loop, which sends it unless that very stream
is broken. `QueueDelivers`: what is queued is taken as long as a stream of the
session works. Neither asks whether that stream is still registered: the deferred
delete of an older stream takes a newer one's entry in `sseClients`
(`internal/server/handler.go:379-383`), and from then on the queue is all the newer
one has. Two streams can belong to one session or to a session and its
successor in the only slot; one queue place makes the queue full with the first
notification, so a drop needs a notification that finds it full: with one
notification queues do not overflow in this instance, and nothing is claimed
about what is dropped.

**client_bridge.** `Promise` is `LocalClient!Spec` under a refinement mapping: a
request has at most one reply, or the events of one stream, a notification none,
and requests are served in order, whatever retries did. `PostsBounded`: the two
retry loops multiply, to (MaxRetries + 1)^2 posts, and no further.
`ExpiryRecovers`: with retries `Run`, which is what main calls, never gives a
message up for an expired session alone: something else failed too. It does not
speak of `RunWithSSE`, where it is false (see the run `expired_id_kept`).
`ShutdownEnds`: after a cancellation the loop returns and every stream's
goroutine ends, also one that waits for a reader (streams there are in `RunWithSSE` only, which
main does not call). Two lines are the least with an
order and a following message; one retry and two sessions are the least with a
repeated attempt and a session that replaces an expired one.

**auth_server.** `OneCodePerForm`: forms and round trips to the provider turn
into at most one code each, by the CSRF token, and by the provider where two
callbacks find the same pending request. `OneCredential`: unless two requests
overlapped, a login has one credential at a time (its code, one refresh token, or
a request that is about to issue tokens). `Promise` is `GrantService!Spec` under a
refinement mapping: a grant has scopes of its user, the same through any number of
rotations and overlapping requests, and once nothing of it is left nothing comes
back, not even when a request meets a full storage or an entry that expired under
it. `AbandonedIsForgotten`:
pending requests and codes that nobody takes up are removed. One login with two
codes is enough, because logins share only the storages' limits, and a storage of
one code is full with the other code of that login.

**server_lifecycle.** `PostsFinishFirst`: the subprocess is stopped under an open
POST only when the caller's deadline has passed. `ExitIsClean`: after a signal
nothing is left behind when main returns, wherever Start was. `StopEnds`: Stop
ends, and EventMaxRestartsReached ends the bridge. Two POSTs and a stream are
enough for one that ends in time beside one that does not.

**token_path.** `RefusedOnlyIfLate`: the receiver refuses a token only if it was
withdrawn or was under way for the whole margin. `UserTokenKept`: a user's valid
token is replaced by Refresh or another flow only. `RejectedOnlyIfDisturbed`: a
verifier is rejected only after another flow touched it or on a second attempt.
"Refused" is the answer of a receiver that did check the token. With `VerifyJWT` and
`Introspect` both on the receiver has every verdict that a receiver with one of them
has; the theorems of section 4 cover each. The exchange of a code
(`UserTokenKept`, `RejectedOnlyIfDisturbed`) is called by tests only today.

Bounds: `MaxProcs` (a spawn beyond it is not taken, the call may fail instead),
`MaxGen` (no restart beyond it), the finite `Ids`, `Conns` and `Notifs` (each
used once). Deadlock is not checked: programs of calls end, POSTs and streams
are finitely many, and so are logins, lines, flows and tokens (`MaxCodes`,
`MaxTokens`, `MaxForms`, `MaxEvents`, `MaxSessions`, `MaxToken`: the step that
would go beyond is not taken). That nothing waits for ever is what the liveness properties
are for.

Five more runs show where code and documentation disagree (`findings` in
PROJECT.json): `stopped_means_not_running`, `read_loop_latch`,
`ids_of_two_clients`, `notified_twice`, `expired_id_kept`. Each checks one claim of a
comment or document and TLC finds the behaviour that refutes it.

**expired_id_kept.** `ExpiredNotReused`: no message of `Run` is first sent with an id
that the server has answered with 404 or 410. TLC's behaviour: the first Send of a
message fails for another reason, the session expires before the retry, retryMessage
does not look at the 404 (`internal/client/client.go:298-324`), gives the message up
and keeps the id, and the next message is sent with it. In `Run` that next message
then drops the id; in `RunWithSSE`, which never looks
(`internal/client/client.go:395-398`), nothing does: theorem `DeadStay`.

### Fairness

Goroutines that can run do run: weak fairness of every caller inside a call, of
every monitor, handler (once its POST is past the checks), read loop, stream and
of routing. In ProcessManager timers are part of those actions, and a process
that was killed, or whose context was cancelled, dies; a process that was not
need not. In RequestRouter nothing is assumed of subprocess, manager, timeouts
or clients. In SseFanout the reaper has strong fairness: broadcasts take
`sm.mu` for reading again and again, but a writer that waits on a
`sync.RWMutex` keeps new readers out. New sessions, DELETE, new POSTs, expiry and
disconnects are not fair. In ClientBridge the loop and each stream are fair: a
post and a read end, by the HTTP client's timeout if not before; stdin is not
fair, a blocked read ends with the process. In ServerLifecycle the steps of main
after the signal, of Start up to Serve, of Stop, of the goroutines that were told
to end and the exit of a signalled process are fair, and deadlines pass; Serve,
streams and the subprocess may go on for ever. In AuthServer time passes and the
tickers of the cleanup goroutines fire. TokenPath has no liveness property.

### What modelling showed beside the findings

- Failed requests are never answered: when retries are off or used up the client
  logs the error and the local client gets no reply, so LocalClient promises none
  (`internal/client/client.go:161-171`).
- Server.Shutdown waits for open event streams, whose sessions are closed only
  after it, so a shutdown with an open stream takes its whole deadline
  (`internal/server/server.go:337-349`); `docs/reference/cli.md:84-89` has the
  event streams closed first and pending requests waited for last.
- `Refresh` of the OAuth authenticator keeps the token source's own token while
  that is valid, and puts it in place of a user's (`internal/auth/oauth.go:459`).
- Keys that cannot be fetched (`internal/auth/oauth.go:253-282`) and an introspection
  endpoint that does not answer give 401, like a token that is not good ("unchecked"
  in TokenPath): a fresh token is turned away for a failure of the provider.
- The PKCE verifier is cleared before the exchange, so an exchange that failed
  for the network cannot succeed when it is repeated.
- A Stop that came before Start announced itself leaves `running` true
  (`internal/server/server.go:308`), which only the readiness page and another Start read.

## 4. What is proved

The theorems hold for all values of the constants under the named assumptions
of each module (`ManagerAssumption`, `RouterAssumption`, `PoolAssumption`,
`FanoutAssumption`, `ServerAssumption`, `TokenAssumption` and so on: bounds are
positive, `None`, `NL` and `Free` are not members of the sets they are added to;
in RequestRouter any `IdOf` at all).

- **ProcessManagerProofs.** `TypeCorrect`. `NeverSendsAfterClose`: TypeOK is
  strengthened by where monitors exist at all (`SpawnInv`: a monitor has a number
  of a spawned process) and by what Close has done (`CloseInv`/`SendInv`: only
  the first Close passes beyond `closeStop`; once it is past its join every
  monitor is done; `closed` keeps later Starts out, and a Start that is spawning
  holds `mu`). The last part is why the argument needs `mu` and `closed`
  together, and not only the join. `OneProcessAtATime`, `ProcessesAreWatched`,
  `CloseLeavesNothing` and `StopsSeeTheirExit` follow from `WatchInv`: in a manager
  that was started once one monitor is at work at a time, a process lives only
  until its monitor is past its exit, and the current channel holds no result while
  it lives; the first process is never an automatic one (`FirstInv`), so a second
  one is always spawned by a monitor that has nothing alive. `RestartsAreLimited`
  from `CountInv`: restarts made and restarts due together are never more than the
  counter nor than the limit, because the counter is raised before the delay.
  `FailuresAreFinal` (StateFailed is shown only when nothing lives and nothing is about
  to be restarted; no run checks it) and `StoppedIsStopped` are about callers whose programs start
  the manager at most once in all (`OneStart`), as the server does; with a second
  Start both are false. `FailedInv`: when StateFailed is shown, a monitor that is
  still at work has a failed restart behind it and only has to leave. `StoppedIsStopped` adds
  that RestartOnFailure is off (`restarts` is FALSE) and shows that the finding of run `stopped_means_not_running`
  needs restarts.
  `ClosesGoOn` is the part of `CloseTerminates` that needs no fairness: the holder of
  `mu` is between lock and unlock of a spawn, `closedOnce` is held by a Close that is
  not finished, and a monitor that Close joins has a process that was killed or a
  delay that the cancelled context ends. It rests on `CloserInv` (only a call of
  Close is at closeStop) and on `CloseInv`.
- **RequestRouterProofs.** `TypeCorrect`. `ResponsesMatch` and `PendingNeverLeaks` follow from
  `RouteInv`: only requests travel (never notifications), entries of the table
  belong to handlers of their id, and what is matched up has one id at every
  stage (looked up, in the channel, answered). `FramesNeverBreak` follows from
  `FrameInv`: whoever is between lock and newline holds `h.mu`; a message
  without newline is the last one and its writer's next write fails only if the
  process has gone, and stdin with it.
  `KeepsPromise`: every behaviour of RequestRouter is one of PostService. What it
  takes is `PlaceInv`, that a request is in one place at a time (in one element of
  one pipe, or inside, or in the loop's hands, or in one channel), so that taking it
  out of there takes it out of transit, and `ResultInv`, that a response that was
  used is in no place any more. `ResponsesAreUsedOnce` (no two POSTs are answered
  with one response) is then proved of PostService alone and carried over.
  `OwnIdsOwnResponses`: if all ids differ each POST gets its own response, which is
  what the finding of run `ids_of_two_clients` claims for ids of any kind.
  `LostLoopStaysLost`: the read loop of run `read_loop_latch`, once lost, never
  comes back. `WaitersAreNotForgotten` is the part of `AnswerArrives` that needs no
  fairness: the response on its way to a waiting handler whose id is its own is
  taken away by the end of the subprocess or by that handler only. It needs
  `EntryInv`, that the waiting handler's entry in the table is the one the loop will
  find.
- **SessionPoolProofs.** `PoolNeverPanics`, `PoolClosedIffRemoved` of `PoolSpec`
  from `PoolInv`: while a broadcast visits a session, that session is in the map
  and open, because every way of closing takes `sm.mu` for writing.
- **SseFanoutProofs.** `FanoutImplementsPool`: every step of the fan-out is a
  step of the pool or leaves it unchanged, so `NeverPanics` and
  `ClosedSessionsRemoved` need no new argument. `WritersLive` and
  `DirectWritesLive` from `FanInv`: what routeNotification still has to write to
  is registered, and nobody unregisters while it holds the lock. `TypeCorrect`.
  `DuplicatesAreBounded`: the duplicates of run `notified_twice` stop at two, and of
  the streams of one session at most one gets them. `QueueInv` says that a
  notification is broadcast once and is in a session's queue at most once;
  `SentInv`, that while it is still due to a session by queue no stream of the
  session was sent it twice, so that its one way through the queue ends on one stream.
  `QueuesAreKept` (the property `QueuedIsKept`) and `ClosedSessionsDrain` are the parts
  of `QueueDelivers` and `StreamEnds` that need no fairness: what is queued leaves the
  queue only to a stream of that session that is in its loop, and is lost only if that
  one is broken; a closed session stays closed and its queue only gets shorter.
- **ClientBridgeProofs.** `TypeCorrect`: what is counted there are queued lines
  and events against the channels' capacities and both loops' counters against
  `MaxRetries`. `KeepsPromise`: every behaviour of ClientBridge is one
  of LocalClient. Its invariant says that lines wait in the order they were read,
  all of them after the one being served (which is why a line is never served
  twice), that only requests reach `write`, and that events are written for the
  current line only. `StdoutInOrder` follows from LocalClient's own invariant.
  `PostsAreBounded` from `PostsInv`: each attempt of retryMessage has a row of
  `MaxRetries + 1` posts, and the posts made never pass the end of the current
  row. `ExpiryIsRecovered` from `FaultInv`: a message that is being retried after
  nothing but an expiry sends no id, so it cannot meet another one.
  `DroppedStayAway` from `IdInv`: the client takes up only ids of sessions that
  executed a post, and the server opens new sessions under new ids, so an id that was
  answered with 404 or 410 and dropped does not come back. `DeadStay` shows how far the
  finding of run `expired_id_kept` goes in `RunWithSSE`: there every post carries the
  id the client holds, a dead id is never exchanged, and no post is answered.
  `ShutdownProgresses` is the part of `ShutdownEnds` that needs no fairness: every
  step of the loop goes forward in an order of line, attempt, stage of the attempt
  and post (`Forward`), the last three bounded by `TypeCorrect`, so the two nested
  loops of retries never start again for one line (how many lines a cancelled loop
  may still take is left to `select`, which picks at random, and to the lines there
  are); a stream whose context is done has a measure that each of its steps lowers;
  and in `events` the loop waits for a goroutine that there is.
- **ServerLifecycleProofs.** `TypeCorrect`. `PostsFinish` from `ShutInv`: once the
  server is shut no connection opens, so what Shutdown has waited for stays true.
  `ExitsAreClean` from `CleanInv`: each step of Stop that is past leaves something
  that no later step of Start can undo, because the manager is closed before
  `done` and Start refuses a closed manager. `StopsGoOn` is the part of `StopEnds`
  that needs no fairness: the cleanup goroutine that Stop waits for is cancelled, the
  subprocess was signalled or killed, and the caller that runs Stop is inside the
  call, so its deadline comes; `OnceInv` says that each place of Start is passed once,
  so nothing that was told to end is started anew.
- **TokenPathProofs.** `TypeCorrect`. `RefusalsAreLate` from `CallerInv`: a token
  that getToken returned was valid at that moment. `RejectionsAreDisturbed` from
  `FlowInv`: an undisturbed flow that waits for its user finds its own verifier.
  `UserTokensKept` needs the second look under the write lock. They hold for
  receivers with signatures, introspection or both; what a receiver answers when it
  cannot check is no refusal.
- **AuthServerProofs.** `TypeCorrect` from `TInv`: forms are counted as they are
  shown, and a refresh token that a request holds was once issued.
  `CredentialsAreSingle` from `OneInv`: codes and tokens that were not made yet
  are in nobody's hands (`Fresh`), and of a code whose requests never overlapped
  (`Single`) there is the code and nothing that descends from it, or no code and
  at most one live refresh token, and a request that presents that token and has
  gone past its deletion is the only credential left. `ScopesStayNarrow` from
  `NarrowInv`, which says of codes, tokens and requests under way alike that
  their scopes are the user's. `KeepsPromise`: every behaviour of AuthServer is one
  of GrantService. Its invariant is `OneScope`, that whatever is left of a grant
  carries one set of scopes; a step that makes no code adds nothing to what any code
  carries (`NothingAdded`), and one that makes a code makes one that carried nothing,
  because codes that were not made are in nobody's hands (`OneAdded`). It holds with
  overlapping requests too, where `OneCredential` says nothing.
  `FormsYieldOneCode` from `FormInv`: what a form or
  a round trip can still become (its CSRF token, the provider's code that nobody
  has used, a handler past either check) is counted with the codes it became, and
  every step takes out of that count what it puts in.

Only model-checked: the liveness properties (`CloseTerminates`, `RunningSettles`,
`AnswerArrives`, `StreamEnds`, `IdleEvicted`, `QueueDelivers`, `ShutdownEnds`,
`AbandonedIsForgotten`, `StopEnds`), because fairness and ENABLED are beyond the
prover. Of six of them the safety half is proved: `ClosesGoOn`, `StopsGoOn`,
`WaitersAreNotForgotten`, `QueuesAreKept`, `ClosedSessionsDrain` and
`ShutdownProgresses` say that what is waited for cannot be taken away, be stuck or
go round for ever, and leave only that steps which can be taken are taken. Every
invariant and every action property that a passing run checks is also a theorem.

## 5. What is not modelled

- A body with line breaks in it (it would become several lines of stdin), a
  subprocess that does not read its stdin (pipes are unbounded here), and
  requests that the subprocess itself sends (the read loop drops them).
- Stop's close of a live process's stdin, as seen by the handlers.
- Small steps that are joined with their neighbours: HandlePost's look at `Running()`
  and its call of ensureReadLoop, with the session and the body between them (in
  RequestRouter); the ways out of the manager's Stop in which the process still lives
  (in ServerLifecycle, where Close joins it anyway; ProcessManager has them); the second
  parsing and validation of the form's fields in handlePost (in AuthServer, where the
  scopes are filtered again).
- A stream write that blocks: WriteTimeout of the HTTP server ends it, and
  `Break` stands for that, but meanwhile routing stands still.
- `MCPHandler.Shutdown`, which no code calls.
- The counters of the rate limiter: what it refuses changes nothing.
- JSON-RPC and event stream formats, PKCE and token cryptography: functions of
  one input each, which unit tests reach.
- The static bearer authenticator, which holds a set of tokens, and StdioBridge,
  which only tests use.
- Two servers or two clients in one module: server mode and client mode meet in
  ClientBridge's environment, which is the server as its HTTP answers show it.
- Encodings, logging, TLS, CORS, configuration: no state worth checking.

## 6. Plan

Done: ProcessManager, PostService, RequestRouter, SessionPool, SseFanout, LocalClient,
ClientBridge, ServerLifecycle, GrantService, AuthServer, TokenPath. Next:

1. A composition of RequestRouter with ClientBridge in place of its POSTs, so
   that a repeated post meets the table of pending ids.
2. A stdin of bounded size in RequestRouter, for what a subprocess that does not
   read means to the other handlers.
3. The safety halves of `RunningSettles` and `IdleEvicted`.
