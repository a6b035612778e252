--------------------------- MODULE SseFanoutProofs ---------------------------
(* Theorems about the SSE fan-out, for any sessions and connections.       *)
EXTENDS SseFanout, SessionPoolProofs

(* What the direct writes rely on: while sseClientsMu is held for reading  *)
(* no handler gets past Unregister.                                        *)
DirectInv ==
  rpc = "direct" =>
    /\ rnote \in Notifs
    /\ \A k \in rleft : cpc[k] \in {"loop", "leave"}

FanType ==
  /\ sseClients \in [Ids -> Conns \cup {None}]
  /\ cpc \in [Conns -> {"idle", "register", "loop", "leave", "done"}]
  /\ csess \in [Conns -> Ids \cup {None}]
  /\ broken \subseteq Conns
  /\ rpc \in {"idle", "direct"} /\ rleft \subseteq Conns
  /\ rnote \in Notifs \cup {None}
  /\ \A k \in Conns : cpc[k] # "idle" => csess[k] \in Ids

FanInv == FanType /\ WriterLive /\ DirectInv

LEMMA FanInit == Init => FanInv
  BY FanoutAssumption DEF Init, FanInv, FanType, WriterLive, DirectInv

LEMMA FanStep == FanInv /\ [Next]_vars => FanInv'
<1> SUFFICES ASSUME FanInv, [Next]_vars PROVE FanInv'
  OBVIOUS
<1> USE FanoutAssumption DEF FanInv, sseVars
<1>1. ASSUME NEW k \in Conns, NEW s \in Ids, HandleSSE(k, s) PROVE FanInv'
  BY <1>1 DEF HandleSSE, Goto, FanType, WriterLive, DirectInv
<1>2. ASSUME NEW k \in Conns, Register(k) PROVE FanInv'
  <2>1. /\ sseClients' = [sseClients EXCEPT ![csess[k]] = k] /\ csess[k] \in Ids
        /\ cpc' = [cpc EXCEPT ![k] = "loop"] /\ rpc # "direct"
        /\ UNCHANGED <<csess, broken, rpc, rleft, rnote>>
    BY <1>2 DEF Register, Goto, ClientsCanWrite, FanType
  <2>2. FanType' /\ DirectInv'
    BY <2>1 DEF FanType, DirectInv
  <2>3. ASSUME NEW s \in Ids, sseClients'[s] # None
        PROVE  csess[sseClients'[s]] = s /\ cpc'[sseClients'[s]] \in {"loop", "leave"}
    <3>1. CASE s = csess[k]
      BY <2>1, <2>3, <3>1 DEF FanType
    <3>2. CASE s # csess[k]
      <4>1. /\ sseClients'[s] = sseClients[s] /\ sseClients[s] \in Conns
            /\ csess[sseClients[s]] = s /\ cpc[sseClients[s]] \in {"loop", "leave"}
        BY <2>1, <2>3, <3>2 DEF FanType, WriterLive
      <4>2. sseClients[s] # k
        BY <3>2, <4>1
      <4>3. QED
        BY <2>1, <4>1, <4>2 DEF FanType
    <3>3. QED
      BY <3>1, <3>2
  <2>4. QED
    BY <2>1, <2>2, <2>3 DEF WriterLive
<1>3. ASSUME NEW k \in Conns, StreamQueued(k) PROVE FanInv'
  BY <1>3 DEF StreamQueued, Goto, FanType, WriterLive, DirectInv
<1>4. ASSUME NEW k \in Conns, StreamClosed(k) PROVE FanInv'
  BY <1>4 DEF StreamClosed, Goto, FanType, WriterLive, DirectInv
<1>5. ASSUME NEW k \in Conns, StreamLost(k) PROVE FanInv'
  BY <1>5 DEF StreamLost, Goto, FanType, WriterLive, DirectInv
<1>6. ASSUME NEW k \in Conns, Unregister(k) PROVE FanInv'
  <2>1. /\ sseClients' = [sseClients EXCEPT ![csess[k]] = None] /\ csess[k] \in Ids
        /\ cpc' = [cpc EXCEPT ![k] = "done"] /\ rpc # "direct"
        /\ UNCHANGED <<csess, broken, rpc, rleft, rnote>>
    BY <1>6 DEF Unregister, Goto, ClientsCanWrite, FanType
  <2>2. FanType' /\ DirectInv'
    BY <2>1 DEF FanType, DirectInv
  <2>3. ASSUME NEW s \in Ids, sseClients'[s] # None
        PROVE  csess[sseClients'[s]] = s /\ cpc'[sseClients'[s]] \in {"loop", "leave"}
    <3>1. CASE s = csess[k]
      BY <2>1, <2>3, <3>1 DEF FanType
    <3>2. CASE s # csess[k]
      <4>1. /\ sseClients'[s] = sseClients[s] /\ sseClients[s] \in Conns
            /\ csess[sseClients[s]] = s /\ cpc[sseClients[s]] \in {"loop", "leave"}
        BY <2>1, <2>3, <3>2 DEF FanType, WriterLive
      <4>2. sseClients[s] # k
        BY <3>2, <4>1
      <4>3. QED
        BY <2>1, <4>1, <4>2 DEF FanType
    <3>3. QED
      BY <3>1, <3>2
  <2>4. QED
    BY <2>1, <2>2, <2>3 DEF WriterLive
<1>7. ASSUME NEW k \in Conns, Break(k) PROVE FanInv'
  BY <1>7 DEF Break, FanType, WriterLive, DirectInv
<1>8. ASSUME NEW d \in Deletes, CloseStream(d) PROVE FanInv'
  BY <1>8 DEF CloseStream, ClientsCanWrite, FanType, WriterLive, DirectInv
<1>9. ASSUME NEW n \in Notifs, RouteBegin(n) PROVE FanInv'
  BY <1>9 DEF RouteBegin, FanType, WriterLive, DirectInv
<1>10. ASSUME NEW k \in Conns, RouteDirect(k) PROVE FanInv'
  BY <1>10 DEF RouteDirect, FanType, WriterLive, DirectInv
<1>11. ASSUME RouteQueue PROVE FanInv'
  BY <1>11 DEF RouteQueue, FanType, WriterLive, DirectInv
<1>12. ASSUME UNCHANGED sseVars PROVE FanInv'
  BY <1>12 DEF FanType, WriterLive, DirectInv
<1>13. QED
  BY <1>1, <1>2, <1>3, <1>4, <1>5, <1>6, <1>7, <1>8, <1>9, <1>10, <1>11, <1>12
     DEF Next, Stream, Route, vars

LEMMA FanInvariant == Spec => []FanInv
<1>1. QED
  BY FanInit, FanStep, PTL DEF Spec

(* A writer in sseClients belongs to a handler of that session that has    *)
(* not returned.                                                           *)
THEOREM WritersLive == Spec => []WriterLive
<1>1. FanInv => WriterLive
  BY DEF FanInv
<1>2. QED
  BY <1>1, FanInvariant, PTL

(* routeNotification only ever writes to a live writer.                    *)
THEOREM DirectWritesLive == Spec => DirectWriteLive
<1>1. FanInv /\ [Next]_vars => [\A k \in Conns : RouteDirect(k) => cpc[k] \in {"loop", "leave"}]_vars
  BY DEF FanInv, DirectInv, RouteDirect
<1>2. QED
  BY <1>1, FanInvariant, PTL DEF Spec, DirectWriteLive

(* Each step of the fan-out is one of the pool's, or leaves it alone: the  *)
(* streams and the read loop are a consumer and a producer of SessionPool. *)
THEOREM FanoutImplementsPool == Spec => PoolSpec
<1>1. Init => PoolInit
  BY DEF Init
<1>2. FanInv /\ [Next]_vars => [PoolStep]_sessVars
  <2> SUFFICES ASSUME FanInv, [Next]_vars PROVE [PoolStep]_sessVars
    OBVIOUS
  <2>1. ASSUME NEW k \in Conns, StreamQueued(k) PROVE [PoolStep]_sessVars
    <3>1. csess[k] \in Ids /\ Receive(csess[k])
      BY <2>1 DEF StreamQueued, FanInv, FanType
    <3>2. QED
      BY <3>1 DEF PoolStep
  <2>2. ASSUME NEW k \in Conns, Register(k) \/ StreamClosed(k) \/ StreamLost(k) \/ Unregister(k) \/ Break(k)
        PROVE  [PoolStep]_sessVars
    BY <2>2 DEF Register, StreamClosed, StreamLost, Unregister, Break
  <2>3. ASSUME NEW k \in Conns, NEW s \in Ids, HandleSSE(k, s) PROVE [PoolStep]_sessVars
    BY <2>3 DEF HandleSSE
  <2>4. ASSUME NEW d \in Deletes, CloseStream(d) PROVE [PoolStep]_sessVars
    BY <2>4 DEF CloseStream, PoolStep
  <2>5. ASSUME RouteQueue PROVE [PoolStep]_sessVars
    BY <2>5 DEF RouteQueue, PoolStep, FanInv, DirectInv
  <2>6. ASSUME NEW k \in Conns, RouteDirect(k) PROVE [PoolStep]_sessVars
    BY <2>6 DEF RouteDirect
  <2>7. ASSUME NEW n \in Notifs, RouteBegin(n) PROVE [PoolStep]_sessVars
    BY <2>7 DEF RouteBegin
  <2>8. ASSUME PoolNext \/ UNCHANGED vars PROVE [PoolStep]_sessVars
    BY <2>8 DEF PoolStep, vars
  <2>9. QED
    BY <2>1, <2>2, <2>3, <2>4, <2>5, <2>6, <2>7, <2>8 DEF Next, Stream, Route
<1>3. QED
  BY <1>1, <1>2, FanInvariant, PTL DEF Spec, PoolSpec

(* With streams, DELETEs and the read loop as they are in the handler:     *)
(* nothing is sent on the channel of a closed session, ...                 *)
THEOREM NeverPanics == Spec => []NoSendOnClosed
  BY FanoutImplementsPool, PoolNeverPanics, PTL

(* ... and no open session is forgotten, no closed one keeps its slot.     *)
THEOREM ClosedSessionsRemoved == Spec => []ClosedIffRemoved
  BY FanoutImplementsPool, PoolClosedIffRemoved, PTL

-----------------------------------------------------------------------------
GotType == got \in [Conns -> [Notifs -> Nat]]

LEMMA SendType ==
  ASSUME GotType, NEW k \in Conns, NEW n \in Notifs, Send(k, n)
  PROVE  GotType'
<1>1. CASE k \in broken
  BY <1>1 DEF Send, GotType
<1>2. CASE k \notin broken
  <2>1. got' = [got EXCEPT ![k] = [got[k] EXCEPT ![n] = got[k][n] + 1]]
    BY <1>2 DEF Send
  <2>2. [got[k] EXCEPT ![n] = got[k][n] + 1] \in [Notifs -> Nat]
    BY DEF GotType
  <2>3. QED
    BY <2>1, <2>2 DEF GotType
<1>3. QED
  BY <1>1, <1>2

LEMMA GotStep == GotType /\ FanInv /\ PoolInv /\ [Next]_vars => GotType'
<1> SUFFICES ASSUME GotType, FanInv, PoolInv, [Next]_vars PROVE GotType'
  OBVIOUS
<1>1. ASSUME NEW k \in Conns, StreamQueued(k) PROVE GotType'
  <2>1. csess[k] \in Ids /\ buf[csess[k]] # <<>> /\ buf[csess[k]] \in Seq(Notifs)
    BY <1>1 DEF StreamQueued, Receive, FanInv, FanType, PoolInv, PoolTypeOK
  <2>2. Head(buf[csess[k]]) \in Notifs
    BY <2>1
  <2>3. QED
    BY <1>1, <2>2, SendType DEF StreamQueued
<1>2. ASSUME NEW k \in Conns, RouteDirect(k) PROVE GotType'
  <2>1. rnote \in Notifs
    BY <1>2 DEF RouteDirect, FanInv, DirectInv
  <2>2. QED
    BY <1>2, <2>1, SendType DEF RouteDirect
<1>3. UNCHANGED got => GotType'
  BY DEF GotType
<1>4. QED
  BY <1>1, <1>2, <1>3 DEF Next, Stream, Route, HandleSSE, Register, StreamClosed, StreamLost,
     Unregister, Break, CloseStream, RouteBegin, RouteQueue, sseVars, vars

(* Every variable of the fan-out and its pool keeps its type.              *)
THEOREM TypeCorrect == Spec => []TypeOK
<1>1. Init => GotType
  BY DEF Init, GotType
<1>2. Spec => []PoolInv
  BY FanoutImplementsPool, PoolInvariant, PTL
<1>3. Spec => []GotType
  BY <1>1, <1>2, FanInvariant, GotStep, PTL DEF Spec
<1>4. GotType /\ FanInv /\ PoolInv => TypeOK
  BY DEF GotType, FanInv, FanType, PoolInv, TypeOK
<1>5. QED
  BY <1>2, <1>3, <1>4, FanInvariant, PTL

-----------------------------------------------------------------------------
(* How far the two ways of sending a notification overlap.  A session's    *)
(* queue is given each notification once, after the direct writes ...      *)
QueueInv ==
  /\ rpc = "direct" => rnote \notin broadcast
  /\ \A s \in Ids : \A i, j \in 1..Len(buf[s]) : buf[s][i] = buf[s][j] => i = j
  /\ \A s \in Ids : \A i \in 1..Len(buf[s]) : buf[s][i] \in broadcast
  /\ bpc # "idle" => /\ bnote \in broadcast
                     /\ \A s \in bleft : \A i \in 1..Len(buf[s]) : buf[s][i] # bnote
  /\ bpc = "send" => bcur \notin bleft /\ \A i \in 1..Len(buf[bcur]) : buf[bcur][i] # bnote

(* ... and while it is there, or the broadcast has the session ahead, no   *)
(* stream of the session was sent it more than once.                       *)
Due(s, n) ==
  \/ \E i \in 1..Len(buf[s]) : buf[s][i] = n
  \/ bpc # "idle" /\ bnote = n /\ s \in bleft
  \/ bpc = "send" /\ bnote = n /\ s = bcur

DuplicatesBounded ==
  /\ \A k \in Conns, n \in Notifs : got[k][n] <= 2
  /\ \A j, k \in Conns, n \in Notifs : got[j][n] = 2 /\ got[k][n] = 2 /\ csess[j] = csess[k] => j = k

SentInv ==
  /\ \A k \in Conns, n \in Notifs : cpc[k] \in {"idle", "register"} => got[k][n] = 0
  /\ \A k \in Conns, n \in Notifs \ broadcast :
       got[k][n] <= (IF rpc = "direct" /\ rnote = n /\ k \notin rleft THEN 1 ELSE 0)
  /\ \A k \in Conns, n \in Notifs : csess[k] \in Ids /\ Due(csess[k], n) => got[k][n] <= 1
  /\ DuplicatesBounded

FanoutInv == FanInv /\ PoolInv /\ GotType /\ QueueInv /\ SentInv

LEMMA QueueStep == FanInv /\ PoolInv /\ QueueInv /\ [Next]_vars => QueueInv'
<1> SUFFICES ASSUME FanInv, PoolInv, QueueInv, [Next]_vars PROVE QueueInv'
  OBVIOUS
<1> USE DEF poolVars, castVars
<1>0. PoolAssumption /\ buf \in [Ids -> Seq(Notifs)] /\ bleft \subseteq Ids /\ bcur \in Ids \cup {None}
  BY PoolAssumption DEF PoolInv, PoolTypeOK
<1>1. ASSUME UNCHANGED <<buf, castVars>>, rpc' = "direct" => rnote' \notin broadcast PROVE QueueInv'
  BY <1>1 DEF QueueInv
<1>2. ASSUME NEW s \in Ids, Receive(s), UNCHANGED <<rpc, rnote>> PROVE QueueInv'
  <2>1. buf[s] \in Seq(Notifs) /\ buf[s] # <<>> /\ buf' = [buf EXCEPT ![s] = Tail(buf[s])] /\ UNCHANGED castVars
    BY <1>0, <1>2 DEF Receive
  <2>2. /\ Len(buf[s]) \in Nat /\ Len(Tail(buf[s])) = Len(buf[s]) - 1
        /\ \A i \in 1..Len(Tail(buf[s])) : Tail(buf[s])[i] = buf[s][i+1]
    BY <2>1
  <2>3. \A i, j \in 1..Len(Tail(buf[s])) : i + 1 \in 1..Len(buf[s]) /\ (i + 1 = j + 1 => i = j)
    BY <2>2
  <2>4. \A t \in Ids : IF t = s THEN buf'[t] = Tail(buf[s]) ELSE buf'[t] = buf[t]
    BY <1>0, <2>1
  <2>5. \A t \in Ids : \A i, j \in 1..Len(buf'[t]) : buf'[t][i] = buf'[t][j] => i = j
    <3>1. \A i, j \in 1..Len(Tail(buf[s])) : Tail(buf[s])[i] = Tail(buf[s])[j] => i = j
      <4>1. \A i, j \in 1..Len(buf[s]) : buf[s][i] = buf[s][j] => i = j
        BY DEF QueueInv
      <4>2. TAKE i, j \in 1..Len(Tail(buf[s]))
      <4>3. HAVE Tail(buf[s])[i] = Tail(buf[s])[j]
      <4>4. buf[s][i+1] = buf[s][j+1] /\ i + 1 \in 1..Len(buf[s]) /\ j + 1 \in 1..Len(buf[s])
        BY <2>2, <2>3, <4>3
      <4>5. QED
        BY <2>3, <4>1, <4>4
    <3>2. QED
      BY <2>4, <3>1 DEF QueueInv
  <2>6. \A t \in Ids : \A i \in 1..Len(buf'[t]) : \E j \in 1..Len(buf[t]) : buf'[t][i] = buf[t][j]
    BY <2>2, <2>3, <2>4
  <2>7. bpc = "send" => bcur \in Ids
    BY DEF PoolInv, CastInv, PoolTypeOK
  <2>8. QED
    BY <1>0, <1>2, <2>1, <2>5, <2>6, <2>7 DEF QueueInv
<1>3. ASSUME NEW n \in Notifs, RouteBegin(n) PROVE QueueInv'
  BY <1>1, <1>3 DEF RouteBegin, sessVars
<1>4. ASSUME RouteQueue PROVE QueueInv'
  <2>1. /\ rpc = "direct" /\ rpc' = "idle" /\ bpc' = "next" /\ bleft' = sessions /\ bnote' = rnote
        /\ broadcast' = broadcast \cup {rnote} /\ UNCHANGED buf
    BY <1>4 DEF RouteQueue, BroadcastBegin
  <2>2. rnote \notin broadcast /\ sessions \subseteq Ids
    BY <2>1 DEF QueueInv, PoolInv, PoolTypeOK
  <2>3. QED
    BY <2>1, <2>2 DEF QueueInv
<1>5. ASSUME NEW s \in Ids, QueueCheck(s), UNCHANGED <<rpc, rnote>> PROVE QueueInv'
  <2>1. /\ bpc = "next" /\ s \in bleft /\ bleft' = bleft \ {s} /\ UNCHANGED <<buf, bnote, broadcast>>
        /\ UNCHANGED <<bpc, bcur>> \/ (bpc' = "send" /\ bcur' = s)
    BY <1>5 DEF QueueCheck
  <2>2. QED
    BY <1>5, <2>1 DEF QueueInv
<1>6. ASSUME QueueSend, UNCHANGED <<rpc, rnote>> PROVE QueueInv'
  <2>1. /\ bpc = "send" /\ bpc' = "next" /\ UNCHANGED <<bleft, bnote, broadcast>> /\ bcur \in Ids
        /\ bnote \in Notifs
        /\ buf' = buf \/ buf' = [buf EXCEPT ![bcur] = Append(buf[bcur], bnote)]
    BY <1>6 DEF QueueSend, PoolInv, CastInv, PoolTypeOK
  <2>2. CASE buf' = buf
    BY <1>6, <2>1, <2>2 DEF QueueInv
  <2>3. CASE buf' = [buf EXCEPT ![bcur] = Append(buf[bcur], bnote)]
    <3>1. /\ Len(buf[bcur]) \in Nat /\ Len(Append(buf[bcur], bnote)) = Len(buf[bcur]) + 1
          /\ \A i \in 1..Len(buf[bcur]) : Append(buf[bcur], bnote)[i] = buf[bcur][i]
          /\ Append(buf[bcur], bnote)[Len(buf[bcur]) + 1] = bnote
      BY <1>0, <2>1, AppendProperties, LenProperties
    <3>2. \A t \in Ids : IF t = bcur THEN buf'[t] = Append(buf[bcur], bnote) ELSE buf'[t] = buf[t]
      BY <1>0, <2>3
    <3>3. bcur \notin bleft /\ bnote \in broadcast /\ \A i \in 1..Len(buf[bcur]) : buf[bcur][i] # bnote
      BY <2>1 DEF QueueInv
    <3>4. 1..Len(buf[bcur]) + 1 = (1..Len(buf[bcur])) \cup {Len(buf[bcur]) + 1}
      BY <3>1
    <3>5. \A t \in Ids : \A i, j \in 1..Len(buf'[t]) : buf'[t][i] = buf'[t][j] => i = j
      <4>1. SUFFICES ASSUME NEW i \in 1..Len(buf[bcur]) + 1, NEW j \in 1..Len(buf[bcur]) + 1,
                            Append(buf[bcur], bnote)[i] = Append(buf[bcur], bnote)[j]
                     PROVE  i = j
        BY <2>1, <3>1, <3>2 DEF QueueInv
      <4>2. CASE i \in 1..Len(buf[bcur]) /\ j \in 1..Len(buf[bcur])
        BY <2>1, <3>1, <4>1, <4>2 DEF QueueInv
      <4>3. CASE i = Len(buf[bcur]) + 1 \/ j = Len(buf[bcur]) + 1
        BY <3>1, <3>3, <3>4, <4>1, <4>3
      <4>4. QED
        BY <3>4, <4>2, <4>3
    <3>6. \A t \in Ids : \A i \in 1..Len(buf'[t]) : buf'[t][i] \in broadcast
      BY <3>1, <3>2, <3>3, <3>4 DEF QueueInv
    <3>7. \A t \in bleft : buf'[t] = buf[t]
      BY <1>0, <3>2, <3>3
    <3>8. QED
      BY <1>6, <2>1, <3>3, <3>5, <3>6, <3>7 DEF QueueInv
  <2>4. QED
    BY <2>1, <2>2, <2>3
<1>7. ASSUME BroadcastEnd, UNCHANGED <<rpc, rnote>> PROVE QueueInv'
  BY <1>7 DEF BroadcastEnd, QueueInv
<1>8. ASSUME PoolNext, UNCHANGED sseVars PROVE QueueInv'
  <2>1. UNCHANGED <<buf, castVars, rpc, rnote>> => QueueInv'
    BY <1>1 DEF QueueInv
  <2>2. QED
    BY <1>5, <1>6, <1>7, <1>8, <2>1 DEF PoolNext, CreateSession, Touch, PostGet, CloseSession, DeleteGet,
       CloseAllSessions, Reaper, ReaperScan, ReaperEvict, Broadcast, Expire, sseVars
<1>9. ASSUME NEW k \in Conns, StreamQueued(k) PROVE QueueInv'
  BY <1>2, <1>9 DEF StreamQueued, FanInv, FanType
<1>10. ASSUME UNCHANGED <<buf, castVars, rpc, rnote>> PROVE QueueInv'
  BY <1>1, <1>10 DEF QueueInv
<1>11. QED
  BY <1>3, <1>4, <1>8, <1>9, <1>10 DEF Next, Stream, Route, HandleSSE, Register, StreamClosed, StreamLost,
     Unregister, Break, CloseStream, DeleteDone, RouteDirect, sessVars, vars, sseVars

LEMMA SendCounts ==
  ASSUME GotType, NEW k \in Conns, NEW n \in Notifs, Send(k, n)
  PROVE  \A j \in Conns, m \in Notifs :
           got'[j][m] = got[j][m] \/ (j = k /\ m = n /\ got'[j][m] = got[j][m] + 1)
<1>1. CASE k \in broken
  BY <1>1 DEF Send
<1>2. CASE k \notin broken
  <2>1. got' = [got EXCEPT ![k] = [got[k] EXCEPT ![n] = got[k][n] + 1]]
    BY <1>2 DEF Send
  <2>2. QED
    BY <2>1 DEF GotType
<1>3. QED
  BY <1>1, <1>2

LEMMA SentStep == FanoutInv /\ [Next]_vars => SentInv'
<1> SUFFICES ASSUME FanoutInv, [Next]_vars PROVE SentInv'
  OBVIOUS
<1> USE DEF poolVars, castVars
<1>0. /\ buf \in [Ids -> Seq(Notifs)] /\ bleft \subseteq Ids /\ bcur \in Ids \cup {None}
      /\ got \in [Conns -> [Notifs -> Nat]] /\ cpc \in [Conns -> {"idle", "register", "loop", "leave", "done"}]
      /\ csess \in [Conns -> Ids \cup {None}] /\ QueueInv /\ SentInv /\ None \notin Ids
  BY PoolAssumption DEF FanoutInv, PoolInv, PoolTypeOK, GotType, FanInv, FanType
<1>a. \A k \in Conns, n \in Notifs : got[k][n] \in Nat
  BY <1>0
<1>1. ASSUME UNCHANGED <<got, csess, rpc, rnote, rleft, broadcast>>,
             \A k \in Conns : cpc'[k] \in {"idle", "register"} => cpc[k] \in {"idle", "register"},
             \A s \in Ids, n \in Notifs : Due(s, n)' => Due(s, n)
      PROVE  SentInv'
  <2>1. \A k \in Conns, n \in Notifs : csess'[k] \in Ids /\ Due(csess[k], n)' => got'[k][n] <= 1
    BY <1>0, <1>1 DEF SentInv
  <2>2. QED
    BY <1>0, <1>1, <2>1 DEF SentInv, DuplicatesBounded
<1>2. ASSUME UNCHANGED <<got, csess, rpc, rnote, rleft, cpc>>, PoolNext PROVE SentInv'
  <2>1. UNCHANGED <<buf, castVars>> => SentInv'
    BY <1>1, <1>2 DEF Due
  <2>2. ASSUME NEW s \in Ids, QueueCheck(s) PROVE SentInv'
    BY <1>1, <1>2, <2>2 DEF QueueCheck, Due
  <2>3. ASSUME QueueSend PROVE SentInv'
    <3>1. /\ bpc = "send" /\ bpc' = "next" /\ UNCHANGED <<bleft, bnote, broadcast>> /\ bcur \in Ids
          /\ bnote \in Notifs
          /\ buf' = buf \/ buf' = [buf EXCEPT ![bcur] = Append(buf[bcur], bnote)]
      BY <2>3 DEF QueueSend, FanoutInv, PoolInv, CastInv, PoolTypeOK
    <3>2. /\ Len(buf[bcur]) \in Nat /\ Len(Append(buf[bcur], bnote)) = Len(buf[bcur]) + 1
          /\ \A i \in 1..Len(buf[bcur]) : Append(buf[bcur], bnote)[i] = buf[bcur][i]
          /\ Append(buf[bcur], bnote)[Len(buf[bcur]) + 1] = bnote
      BY <1>0, <3>1, AppendProperties, LenProperties
    <3>3. \A s \in Ids : \A i \in 1..Len(buf'[s]) :
            (\E j \in 1..Len(buf[s]) : buf'[s][i] = buf[s][j]) \/ (s = bcur /\ buf'[s][i] = bnote)
      <4>1. \A s \in Ids : buf'[s] = buf[s] \/ (s = bcur /\ buf'[s] = Append(buf[bcur], bnote))
        BY <1>0, <3>1
      <4>2. 1..Len(buf[bcur]) + 1 = (1..Len(buf[bcur])) \cup {Len(buf[bcur]) + 1}
        BY <3>2
      <4>3. QED
        BY <3>2, <4>1, <4>2
    <3>4. \A s \in Ids, n \in Notifs : Due(s, n)' => Due(s, n)
      BY <3>1, <3>3 DEF Due
    <3>5. QED
      BY <1>1, <1>2, <3>1, <3>4
  <2>4. ASSUME BroadcastEnd PROVE SentInv'
    BY <1>1, <1>2, <2>4 DEF BroadcastEnd, Due
  <2>5. QED
    BY <1>2, <2>1, <2>2, <2>3, <2>4 DEF PoolNext, CreateSession, Touch, PostGet, CloseSession, DeleteGet,
       CloseAllSessions, Reaper, ReaperScan, ReaperEvict, Broadcast, Expire
<1>3. ASSUME NEW k \in Conns, NEW s \in Ids, HandleSSE(k, s) PROVE SentInv'
  <2>1. /\ cpc[k] = "idle" /\ csess' = [csess EXCEPT ![k] = s] /\ cpc' = [cpc EXCEPT ![k] = "register"]
        /\ UNCHANGED <<got, rpc, rnote, rleft, buf, castVars>>
    BY <1>3 DEF HandleSSE, Goto, sessVars
  <2>2. \A n \in Notifs : got[k][n] = 0
    BY <1>0, <2>1 DEF SentInv
  <2>3. \A j \in Conns, n \in Notifs : csess'[j] \in Ids /\ Due(csess[j], n)' => got'[j][n] <= 1
    <3>1. TAKE j \in Conns, n \in Notifs
    <3>2. CASE j = k
      BY <2>1, <2>2, <3>2
    <3>3. CASE j # k
      BY <1>0, <2>1, <3>3 DEF SentInv, Due
    <3>4. QED
      BY <3>2, <3>3
  <2>4. \A i, j \in Conns, n \in Notifs : got[i][n] = 2 /\ got[j][n] = 2 /\ csess'[i] = csess'[j] => i = j
    BY <1>0, <2>1, <2>2 DEF SentInv, DuplicatesBounded
  <2>5. \A j \in Conns, n \in Notifs : cpc'[j] \in {"idle", "register"} => got[j][n] = 0
    BY <1>0, <2>1, <2>2 DEF SentInv
  <2>6. QED
    BY <1>0, <2>1, <2>3, <2>4, <2>5 DEF SentInv, DuplicatesBounded
<1>4. ASSUME NEW k \in Conns, StreamQueued(k) PROVE SentInv'
  <2>1. PICK s \in Ids, n \in Notifs :
          /\ s = csess[k] /\ buf[s] \in Seq(Notifs) /\ buf[s] # <<>> /\ n = buf[s][1] /\ 1 \in 1..Len(buf[s])
          /\ cpc[k] = "loop" /\ Receive(s) /\ Send(k, n) /\ UNCHANGED <<sseClients, csess, broken, rpc, rleft, rnote>>
          /\ cpc' = [cpc EXCEPT ![k] = IF k \in broken THEN "leave" ELSE "loop"]
    <3>1. csess[k] \in Ids /\ buf[csess[k]] \in Seq(Notifs) /\ buf[csess[k]] # <<>>
      BY <1>0, <1>4 DEF StreamQueued, Receive, FanoutInv, FanInv, FanType
    <3>2. Head(buf[csess[k]]) = buf[csess[k]][1] /\ 1 \in 1..Len(buf[csess[k]]) /\ buf[csess[k]][1] \in Notifs
      BY <3>1, EmptySeq
    <3>3. QED
      BY <1>4, <3>1, <3>2 DEF StreamQueued, Goto
  <2>2. s \in Ids /\ buf[s] \in Seq(Notifs) /\ buf[s] # <<>> /\ s = csess[k] /\ csess' = csess
    BY <2>1
  <2>3. /\ Len(buf[s]) \in Nat /\ Len(Tail(buf[s])) = Len(buf[s]) - 1 /\ n = buf[s][1] /\ 1 \in 1..Len(buf[s])
        /\ \A i \in 1..Len(Tail(buf[s])) : Tail(buf[s])[i] = buf[s][i+1] /\ i + 1 \in 1..Len(buf[s]) /\ i + 1 # 1
        /\ n \in Notifs
    BY <2>1, EmptySeq
  <2>4. UNCHANGED castVars /\ \A t \in Ids : IF t = s THEN buf'[t] = Tail(buf[s]) ELSE buf'[t] = buf[t]
    BY <1>0, <2>1, <2>2 DEF Receive
  <2>5. n \in broadcast
    BY <2>2, <2>3 DEF FanoutInv, QueueInv
  <2>6. Due(s, n)
    BY <2>3 DEF Due
  <2>7. ~Due(s, n)'
    <3>1. \A i \in 1..Len(buf'[s]) : buf'[s][i] # n
      <4>1. \A i, j \in 1..Len(buf[s]) : buf[s][i] = buf[s][j] => i = j
        BY <2>2 DEF FanoutInv, QueueInv
      <4>2. TAKE i \in 1..Len(buf'[s])
      <4>3. buf'[s][i] = buf[s][i+1] /\ i + 1 \in 1..Len(buf[s]) /\ i + 1 # 1
        BY <2>2, <2>3, <2>4, <4>2
      <4>4. QED
        BY <2>3, <4>1, <4>3
    <3>2. bpc # "idle" /\ bnote = n => s \notin bleft
      BY <2>3 DEF FanoutInv, QueueInv
    <3>3. bpc = "send" /\ bnote = n => s # bcur
      BY <2>3 DEF FanoutInv, QueueInv
    <3>4. QED
      BY <2>4, <3>1, <3>2, <3>3 DEF Due
  <2>8. \A t \in Ids, m \in Notifs : Due(t, m)' => Due(t, m) /\ ~(t = s /\ m = n)
    <3>1. \A t \in Ids : \A i \in 1..Len(buf'[t]) : \E j \in 1..Len(buf[t]) : buf'[t][i] = buf[t][j]
      BY <2>3, <2>4
    <3>2. \A t \in Ids, m \in Notifs : Due(t, m)' => Due(t, m)
      BY <2>4, <3>1 DEF Due
    <3>3. QED
      BY <2>7, <3>2 DEF Due
  <2>9. \A j \in Conns, m \in Notifs :
          got'[j][m] = got[j][m] \/ (j = k /\ m = n /\ got'[j][m] = got[j][m] + 1)
    BY <2>1, <2>3, SendCounts DEF FanoutInv
  <2>10. \A j \in Conns : csess[j] = s => got[j][n] <= 1
    BY <1>0, <2>2, <2>3, <2>6 DEF SentInv
  <2>11. s = csess[k] /\ csess' = csess
    BY <2>1
  <2>12. \A j \in Conns, m \in Notifs : cpc'[j] \in {"idle", "register"} => got'[j][m] = 0
    <3>1. TAKE j \in Conns, m \in Notifs
    <3>2. HAVE cpc'[j] \in {"idle", "register"}
    <3>3. j # k /\ cpc[j] \in {"idle", "register"}
      BY <1>0, <2>1, <3>2
    <3>4. QED
      BY <1>0, <2>9, <3>3 DEF SentInv
  <2>13. \A j \in Conns, m \in Notifs \ broadcast' :
           got'[j][m] <= (IF rpc' = "direct" /\ rnote' = m /\ j \notin rleft' THEN 1 ELSE 0)
    <3>1. broadcast' = broadcast
      BY <2>4
    <3>2. TAKE j \in Conns, m \in Notifs \ broadcast'
    <3>3. got'[j][m] = got[j][m] /\ m \in Notifs \ broadcast
      BY <2>5, <2>9, <3>1, <3>2
    <3>4. UNCHANGED <<rpc, rleft, rnote>>
      BY <2>1
    <3>5. QED
      BY <1>0, <3>2, <3>3, <3>4 DEF SentInv
  <2>14. \A j \in Conns, m \in Notifs : csess'[j] \in Ids /\ Due(csess[j], m)' => got'[j][m] <= 1
    <3>1. TAKE j \in Conns, m \in Notifs
    <3>2. HAVE csess'[j] \in Ids /\ Due(csess[j], m)'
    <3>3. Due(csess[j], m) /\ ~(csess[j] = s /\ m = n)
      BY <2>8, <2>11, <3>2 DEF Due
    <3>4. got'[j][m] = got[j][m]
      BY <2>9, <2>11, <3>3
    <3>5. QED
      BY <1>0, <2>11, <3>2, <3>3, <3>4 DEF SentInv
  <2>15. \A j \in Conns, m \in Notifs : got'[j][m] <= 2
    <3>1. \A j \in Conns, m \in Notifs : got[j][m] <= 2
      BY <1>0 DEF SentInv, DuplicatesBounded
    <3>2. got[k][n] + 1 <= 2
      BY <1>a, <2>3, <2>10, <2>11
    <3>3. QED
      BY <2>9, <3>1, <3>2
  <2>16. \A i, j \in Conns, m \in Notifs : got'[i][m] = 2 /\ got'[j][m] = 2 /\ csess'[i] = csess'[j] => i = j
    <3>1. TAKE i, j \in Conns, m \in Notifs
    <3>2. HAVE got'[i][m] = 2 /\ got'[j][m] = 2 /\ csess'[i] = csess'[j]
    <3>3. CASE got'[i][m] = got[i][m] /\ got'[j][m] = got[j][m]
      BY <1>0, <2>11, <3>2, <3>3 DEF SentInv, DuplicatesBounded
    <3>4. CASE m = n /\ (i = k \/ j = k) /\ i # j
      BY <1>a, <2>9, <2>10, <2>11, <3>2, <3>4
    <3>5. QED
      BY <2>9, <3>3, <3>4
  <2>17. QED
    BY <2>12, <2>13, <2>14, <2>15, <2>16 DEF SentInv, DuplicatesBounded
<1>5. ASSUME NEW k \in Conns, RouteDirect(k) PROVE SentInv'
  <2>1. /\ rpc = "direct" /\ k \in rleft /\ rleft' = rleft \ {k} /\ Send(k, rnote)
        /\ UNCHANGED <<buf, castVars, csess, cpc, rpc, rnote>> /\ rnote \in Notifs \ broadcast
        /\ cpc[k] \in {"loop", "leave"}
    BY <1>5 DEF RouteDirect, sessVars, FanoutInv, FanInv, DirectInv, QueueInv
  <2>2. \A j \in Conns, m \in Notifs :
          got'[j][m] = got[j][m] \/ (j = k /\ m = rnote /\ got'[j][m] = got[j][m] + 1)
    BY <2>1, SendCounts DEF FanoutInv
  <2>3. got[k][rnote] = 0
    BY <1>0, <1>a, <2>1 DEF SentInv
  <2>4. \A s \in Ids, n \in Notifs : Due(s, n)' <=> Due(s, n)
    BY <2>1 DEF Due
  <2>5. \A j \in Conns, m \in Notifs : got'[j][m] = got[j][m] \/ (j = k /\ m = rnote /\ got'[j][m] = 1)
    BY <2>2, <2>3
  <2>6. \A j \in Conns, m \in Notifs : csess'[j] \in Ids /\ Due(csess[j], m)' => got'[j][m] <= 1
    <3>1. \A j \in Conns, m \in Notifs : csess'[j] \in Ids /\ Due(csess[j], m)' => got[j][m] <= 1
      BY <1>0, <2>1 DEF SentInv, Due
    <3>2. QED
      BY <2>5, <3>1
  <2>7. \A j \in Conns, m \in Notifs \ broadcast' :
           got'[j][m] <= (IF rpc' = "direct" /\ rnote' = m /\ j \notin rleft' THEN 1 ELSE 0)
    BY <1>0, <1>a, <2>1, <2>5 DEF SentInv
  <2>8. \A j \in Conns, m \in Notifs : cpc'[j] \in {"idle", "register"} => got'[j][m] = 0
    BY <1>0, <2>1, <2>5 DEF SentInv
  <2>9. DuplicatesBounded'
    <3>1. \A j \in Conns, m \in Notifs : got'[j][m] <= 2 /\ (got'[j][m] = 2 => got[j][m] = 2)
      <4>1. \A j \in Conns, m \in Notifs : got[j][m] <= 2
        BY <1>0 DEF SentInv, DuplicatesBounded
      <4>2. QED
        BY <2>5, <4>1
    <3>2. QED
      BY <1>0, <2>1, <3>1 DEF SentInv, DuplicatesBounded
  <2>10. QED
    BY <2>6, <2>7, <2>8, <2>9 DEF SentInv
<1>6. ASSUME NEW n \in Notifs, RouteBegin(n) PROVE SentInv'
  <2>1. /\ rpc = "idle" /\ rpc' = "direct" /\ UNCHANGED <<got, csess, cpc, buf, castVars>>
    BY <1>6 DEF RouteBegin, sessVars
  <2>2. \A k \in Conns, m \in Notifs \ broadcast : got[k][m] = 0
    BY <1>0, <1>a, <2>1 DEF SentInv
  <2>3. \A k \in Conns, m \in Notifs : csess'[k] \in Ids /\ Due(csess[k], m)' => got'[k][m] <= 1
    BY <1>0, <2>1 DEF SentInv, Due
  <2>4. QED
    BY <1>0, <2>1, <2>2, <2>3 DEF SentInv, DuplicatesBounded
<1>7. ASSUME RouteQueue PROVE SentInv'
  <2>1. /\ rpc = "direct" /\ rpc' = "idle" /\ bpc = "idle" /\ bpc' = "next" /\ bnote' = rnote
        /\ broadcast' = broadcast \cup {rnote} /\ UNCHANGED <<buf, got, csess, cpc>>
        /\ rnote \in Notifs \ broadcast
    BY <1>7 DEF RouteQueue, BroadcastBegin, FanoutInv, FanInv, DirectInv, QueueInv
  <2>2. \A k \in Conns : got[k][rnote] <= 1
    <3>1. \A k \in Conns : got[k][rnote] \in Nat /\ got[k][rnote] <= (IF k \notin rleft THEN 1 ELSE 0)
      BY <1>0, <1>a, <2>1 DEF SentInv
    <3>2. QED
      BY <3>1
  <2>3. \A s \in Ids, n \in Notifs : Due(s, n)' => Due(s, n) \/ n = rnote
    BY <2>1 DEF Due
  <2>4. \A k \in Conns, m \in Notifs : csess'[k] \in Ids /\ Due(csess[k], m)' => got'[k][m] <= 1
    BY <1>0, <2>1, <2>2 DEF SentInv, Due
  <2>5. \A k \in Conns, n \in Notifs \ broadcast' : got'[k][n] <= 0
    BY <1>0, <2>1 DEF SentInv
  <2>6. QED
    BY <1>0, <2>1, <2>4, <2>5 DEF SentInv, DuplicatesBounded
<1>8. ASSUME UNCHANGED <<buf, castVars, got, csess, rpc, rnote, rleft>>,
             \A k \in Conns : cpc'[k] \in {"idle", "register"} => cpc[k] \in {"idle", "register"}
      PROVE  SentInv'
  BY <1>1, <1>8 DEF Due
<1>9. ASSUME NEW k \in Conns, Register(k) \/ StreamClosed(k) \/ StreamLost(k) \/ Unregister(k) \/ Break(k) PROVE SentInv'
  <2>1. UNCHANGED <<buf, castVars, got, csess, rpc, rnote, rleft>>
    BY <1>9 DEF Register, StreamClosed, StreamLost, Unregister, Break, sessVars
  <2>2. \A j \in Conns : cpc'[j] \in {"idle", "register"} => cpc[j] \in {"idle", "register"}
    BY <1>0, <1>9 DEF Register, StreamClosed, StreamLost, Unregister, Break, Goto
  <2>3. QED
    BY <1>8, <2>1, <2>2
<1>10. ASSUME (\E d \in Deletes : CloseStream(d)) \/ UNCHANGED vars PROVE SentInv'
  BY <1>8, <1>10 DEF CloseStream, DeleteDone, vars, sessVars, sseVars
<1>11. QED
  BY <1>2, <1>3, <1>4, <1>5, <1>6, <1>7, <1>9, <1>10 DEF Next, Stream, Route, sseVars

(* A notification is sent on a stream twice at most, directly and by the   *)
(* session's queue, and of a session's streams that happens on one at most *)
(* (handler.go:553-566): how far the finding of run notified_twice goes.   *)
THEOREM DuplicatesAreBounded == Spec => []DuplicatesBounded
<1>1. Init => QueueInv /\ SentInv
  <2> SUFFICES ASSUME Init PROVE QueueInv /\ SentInv
    OBVIOUS
  <2>1. \A s \in Ids : 1..Len(buf[s]) = {}
    BY EmptySeq DEF Init, PoolInit
  <2>2. QED
    BY <2>1 DEF Init, PoolInit, QueueInv, SentInv, DuplicatesBounded, Due
<1>2. Init => GotType
  BY DEF Init, GotType
<1>3. Spec => []PoolInv
  BY FanoutImplementsPool, PoolInvariant, PTL
<1>4. FanInv /\ PoolInv /\ GotType /\ QueueInv /\ SentInv /\ [Next]_vars => GotType' /\ QueueInv' /\ SentInv'
  BY GotStep, QueueStep, SentStep DEF FanoutInv
<1>5. SentInv => DuplicatesBounded
  BY DEF SentInv
<1>6. QED
  BY <1>1, <1>2, <1>3, <1>4, <1>5, FanInvariant, PTL DEF Spec

-----------------------------------------------------------------------------
(* A closed session stays closed, and its queue is only read any more      *)
(* (session.go:145-160): what StreamEnds needs besides fairness.           *)
ClosedDrains ==
  [][\A s \in Ids : closed[s] =>
       closed'[s] /\ (buf'[s] = buf[s] \/ (buf[s] # <<>> /\ buf'[s] = Tail(buf[s])))]_vars

(* What a step does to the queues, and by whom.                            *)
Filled(s) == ~closed[s] /\ buf'[s] = Append(buf[s], bnote)

LEMMA QueueMoves ==
  ASSUME FanInv, PoolInv, [Next]_vars, NEW s \in Ids
  PROVE  \/ buf'[s] = buf[s]
         \/ Filled(s)
         \/ \E k \in Conns : StreamQueued(k) /\ csess[k] = s /\ buf[s] # <<>> /\ buf'[s] = Tail(buf[s])
<1>1. buf \in [Ids -> Seq(Notifs)]
  BY DEF PoolInv, PoolTypeOK
<1>2. CASE UNCHANGED buf
  BY <1>2
<1>3. CASE QueueSend
  BY <1>1, <1>3 DEF QueueSend, Filled
<1>4. ASSUME NEW k \in Conns, StreamQueued(k)
      PROVE  buf'[s] = buf[s] \/ (csess[k] = s /\ buf[s] # <<>> /\ buf'[s] = Tail(buf[s]))
  BY <1>1, <1>4 DEF StreamQueued, Receive
<1>5. CASE PoolNext
  BY <1>2, <1>3, <1>5 DEF PoolNext, CreateSession, Touch, PostGet, CloseSession, DeleteGet, CloseAllSessions,
     Reaper, ReaperScan, ReaperEvict, Broadcast, QueueCheck, BroadcastEnd, Expire, poolVars
<1>6. QED
  BY <1>2, <1>4, <1>5 DEF Next, Stream, Route, HandleSSE, Register, StreamClosed, StreamLost, Unregister, Break,
     CloseStream, DeleteDone, RouteBegin, RouteDirect, RouteQueue, BroadcastBegin, poolVars, sessVars, vars

LEMMA SendArrives ==
  ASSUME GotType, NEW k \in Conns \ broken, NEW n \in Notifs, Send(k, n)
  PROVE  got'[k][n] = got[k][n] + 1
<1>1. got' = [got EXCEPT ![k] = [got[k] EXCEPT ![n] = got[k][n] + 1]]
  BY DEF Send
<1>2. QED
  BY <1>1 DEF GotType

(* Nothing that is queued for a session gets lost but on a broken stream,  *)
(* whatever streams, DELETEs, the reaper and broadcasts do meanwhile.      *)
THEOREM QueuesAreKept == Spec => QueuedIsKept
<1>1. ASSUME FanInv, PoolInv, GotType, [Next]_vars, NEW s \in Ids, NEW n \in Notifs, Queued(s, n), ~Queued(s, n)'
      PROVE  \E k \in Conns : /\ csess[k] = s /\ cpc[k] = "loop"
                              /\ k \in broken \/ got'[k][n] = got[k][n] + 1
  <2>1. buf[s] \in Seq(Notifs)
    BY <1>1 DEF PoolInv, PoolTypeOK
  <2>2. PICK i \in 1..Len(buf[s]) : buf[s][i] = n
    BY <1>1 DEF Queued
  <2>3. \A j \in 1..Len(buf'[s]) : buf'[s][j] # n
    BY <1>1 DEF Queued
  <2>4. Len(buf[s]) \in Nat
    BY <2>1
  <2>5. buf'[s] # buf[s]
    BY <2>2, <2>3
  <2>6. ~Filled(s)
    <3>1. SUFFICES ASSUME buf'[s] = Append(buf[s], bnote) PROVE FALSE
      BY DEF Filled
    <3>2. \A j \in 1..Len(buf[s]) : Append(buf[s], bnote)[j] = buf[s][j] /\ j \in 1..Len(Append(buf[s], bnote))
      BY <2>1, <2>4
    <3>3. QED
      BY <2>2, <2>3, <3>1, <3>2
  <2>7. PICK k \in Conns : StreamQueued(k) /\ csess[k] = s /\ buf[s] # <<>> /\ buf'[s] = Tail(buf[s])
    BY <1>1, <2>5, <2>6, QueueMoves
  <2>8. i = 1
    <3>1. SUFFICES ASSUME i # 1 PROVE FALSE
      OBVIOUS
    <3>2. Len(Tail(buf[s])) = Len(buf[s]) - 1 /\ \A j \in 1..Len(Tail(buf[s])) : Tail(buf[s])[j] = buf[s][j + 1]
      BY <2>1, <2>7
    <3>3. i - 1 \in 1..Len(Tail(buf[s])) /\ (i - 1) + 1 = i
      BY <2>2, <2>4, <3>1, <3>2
    <3>4. Tail(buf[s])[i - 1] = n
      BY <2>2, <3>2, <3>3
    <3>5. QED
      BY <2>3, <2>7, <3>3, <3>4
  <2>9. Head(buf[s]) = n
    BY <2>1, <2>2, <2>8
  <2>10. cpc[k] = "loop" /\ Send(k, n)
    BY <2>7, <2>9 DEF StreamQueued
  <2>11. QED
    BY <1>1, <2>7, <2>10, SendArrives
<1>2. FanInv /\ PoolInv /\ GotType /\ [Next]_vars =>
        [\A s \in Ids, n \in Notifs : Queued(s, n) /\ ~Queued(s, n)' =>
           \E k \in Conns : /\ csess[k] = s /\ cpc[k] = "loop"
                            /\ k \in broken \/ got'[k][n] = got[k][n] + 1]_vars
  BY <1>1
<1>3. Spec => []PoolInv
  BY FanoutImplementsPool, PoolInvariant, PTL
<1>4. Init => GotType
  BY DEF Init, GotType
<1>5. QED
  BY <1>2, <1>3, <1>4, GotStep, FanInvariant, PTL DEF Spec, QueuedIsKept

(* The queue of a session that was closed runs out, and the session is     *)
(* never opened again.                                                     *)
THEOREM ClosedSessionsDrain == Spec => ClosedDrains
<1>1. ASSUME FanInv, PoolInv, [Next]_vars, NEW s \in Ids, closed[s]
      PROVE  closed'[s] /\ (buf'[s] = buf[s] \/ (buf[s] # <<>> /\ buf'[s] = Tail(buf[s])))
  <2>1. closed'[s]
    <3>1. closed \in [Ids -> BOOLEAN]
      BY <1>1 DEF PoolInv, PoolTypeOK
    <3>2. CASE UNCHANGED closed
      BY <1>1, <3>2
    <3>3. ASSUME NEW S, CloseAndDelete(S) PROVE closed'[s]
      BY <1>1, <3>3 DEF CloseAndDelete
    <3>4. CASE PoolNext
      BY <3>2, <3>3, <3>4 DEF PoolNext, CreateSession, Touch, PostGet, CloseSession, DeleteGet, CloseAllSessions,
         Reaper, ReaperScan, ReaperEvict, Broadcast, QueueCheck, QueueSend, BroadcastEnd, Expire, poolVars
    <3>5. QED
      BY <1>1, <3>2, <3>4 DEF Next, Stream, Route, HandleSSE, Register, StreamQueued, Receive, StreamClosed,
         StreamLost, Unregister, Break, CloseStream, DeleteDone, RouteBegin, RouteDirect, RouteQueue,
         BroadcastBegin, poolVars, sessVars, vars
  <2>2. QED
    BY <1>1, <2>1, QueueMoves DEF Filled
<1>2. FanInv /\ PoolInv /\ [Next]_vars =>
        [\A s \in Ids : closed[s] =>
           closed'[s] /\ (buf'[s] = buf[s] \/ (buf[s] # <<>> /\ buf'[s] = Tail(buf[s])))]_vars
  BY <1>1
<1>3. Spec => []PoolInv
  BY FanoutImplementsPool, PoolInvariant, PTL
<1>4. QED
  BY <1>2, <1>3, FanInvariant, PTL DEF Spec, ClosedDrains
=============================================================================
