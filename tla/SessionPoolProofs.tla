-------------------------- MODULE SessionPoolProofs --------------------------
(* Theorems about the pool of sessions, for any ids, limits and handlers.  *)
EXTENDS SessionPool, SequenceTheorems, TLAPS

(* While a broadcast is under way nobody holds sm.mu for writing, so the   *)
(* sessions it still visits stay in the map, and with that open.           *)
CastInv ==
  /\ bpc # "idle" => ~writer /\ bleft \subseteq sessions /\ bnote \in Notifs
  /\ bpc = "send" => bcur \in sessions

(* An id that was not handed out yet is not closed either.                 *)
FreshOpen == \A s \in Ids : closed[s] => s \in issued

PoolInv == PoolTypeOK /\ CastInv /\ FreshOpen /\ ClosedIffRemoved /\ NoSendOnClosed

LEMMA PoolInitInv == PoolInit => PoolInv
<1> SUFFICES ASSUME PoolInit PROVE PoolInv
  OBVIOUS
<1>1. buf \in [Ids -> Seq(Notifs)]
  BY EmptySeq DEF PoolInit
<1>2. PoolTypeOK
  BY <1>1 DEF PoolInit, PoolTypeOK
<1>3. QED
  BY <1>2 DEF PoolInit, PoolInv, CastInv, FreshOpen, ClosedIffRemoved, NoSendOnClosed

(* Closing sessions under sm.mu keeps map and closed flags together.       *)
LEMMA CloseKeeps ==
  ASSUME PoolInv, NEW S \in SUBSET Ids, CloseAndDelete(S \cap sessions), UNCHANGED issued
  PROVE  /\ closed' \in [Ids -> BOOLEAN] /\ idle' \in [Ids -> BOOLEAN] /\ sessions' \subseteq issued'
         /\ (FreshOpen /\ ClosedIffRemoved)'
  BY DEF PoolInv, PoolTypeOK, CloseAndDelete, FreshOpen, ClosedIffRemoved

LEMMA PoolStepInv == PoolInv /\ [PoolStep]_sessVars => PoolInv'
<1> SUFFICES ASSUME PoolInv, [PoolStep]_sessVars PROVE PoolInv'
  OBVIOUS
<1> USE PoolAssumption
    DEF poolVars, reapVars, castVars, postVars, delVars, PoolInv, CastInv, NoSendOnClosed
<1>1. ASSUME NEW p \in Posts, CreateSession(p) PROVE PoolInv'
  <2> DEFINE s == CHOOSE id \in Ids : id \notin issued
  <2>1. s \in Ids /\ s \notin issued
    BY <1>1 DEF CreateSession, PoolTypeOK
  <2>2. /\ bpc = "idle" /\ issued' = issued \cup {s} /\ sessions' = sessions \cup {s}
        /\ UNCHANGED <<closed, idle, buf, reapVars, castVars, postVars, delVars>>
    BY <1>1 DEF CreateSession, CanWrite
  <2> HIDE DEF s
  <2>3. PoolTypeOK'
    BY <2>1, <2>2 DEF PoolTypeOK
  <2>4. QED
    BY <2>1, <2>2, <2>3 DEF PoolTypeOK, FreshOpen, ClosedIffRemoved
<1>2. ASSUME NEW p \in Posts, NEW s \in Ids, PostGet(p, s) PROVE PoolInv'
  BY <1>2 DEF PostGet, PoolTypeOK, FreshOpen, ClosedIffRemoved
<1>3. ASSUME NEW p \in Posts, Touch(p) PROVE PoolInv'
  BY <1>3 DEF Touch, PoolTypeOK, FreshOpen, ClosedIffRemoved
<1>4. ASSUME NEW d \in Deletes, NEW s \in Ids, DeleteGet(d, s) PROVE PoolInv'
  BY <1>4 DEF DeleteGet, PoolTypeOK, FreshOpen, ClosedIffRemoved
<1>5. ASSUME NEW d \in Deletes, CloseSession(d) PROVE PoolInv'
  <2>1. bpc = "idle" /\ UNCHANGED <<issued, buf, reapVars, castVars, postVars, dsess>>
        /\ dpc' \in [Deletes -> {"idle", "close", "closed"}]
    BY <1>5 DEF CloseSession, CanWrite, PoolTypeOK
  <2>2. CASE dsess[d] \in sessions
    <3>1. CloseAndDelete({dsess[d]} \cap sessions) /\ {dsess[d]} \in SUBSET Ids
      BY <1>5, <2>2 DEF CloseSession, CloseAndDelete, PoolTypeOK
    <3>2. QED
      BY <2>1, <3>1, CloseKeeps DEF PoolTypeOK
  <2>3. CASE dsess[d] \notin sessions
    <3>1. UNCHANGED <<closed, idle, sessions>>
      BY <1>5, <2>3 DEF CloseSession
    <3>2. QED
      BY <2>1, <3>1 DEF PoolTypeOK, FreshOpen, ClosedIffRemoved
  <2>4. QED
    BY <2>2, <2>3
<1>6. ASSUME CloseAllSessions PROVE PoolInv'
  <2>1. /\ bpc = "idle" /\ CloseAndDelete(Ids \cap sessions)
        /\ UNCHANGED <<issued, buf, reapVars, castVars, postVars, delVars>>
    BY <1>6 DEF CloseAllSessions, CanWrite, CloseAndDelete, PoolTypeOK
  <2>2. QED
    BY <2>1, CloseKeeps DEF PoolTypeOK
<1>7. ASSUME NEW s \in Ids, Expire(s) PROVE PoolInv'
  BY <1>7 DEF Expire, PoolTypeOK, FreshOpen, ClosedIffRemoved
<1>8. ASSUME ReaperScan PROVE PoolInv'
  <2>1. /\ bpc = "idle" /\ expired' = {s \in sessions : idle[s]} /\ writer' = TRUE
        /\ UNCHANGED <<poolVars, castVars, postVars, delVars>>
    BY <1>8 DEF ReaperScan, CanWrite
  <2>2. QED
    BY <2>1 DEF PoolTypeOK, FreshOpen, ClosedIffRemoved
<1>9. ASSUME ReaperEvict PROVE PoolInv'
  <2>1. /\ bpc = "idle" /\ CloseAndDelete(expired \cap sessions) /\ expired' = {} /\ writer' = FALSE
        /\ UNCHANGED <<issued, buf, castVars, postVars, delVars>>
    BY <1>9 DEF ReaperEvict
  <2>2. QED
    BY <2>1, CloseKeeps DEF PoolTypeOK
<1>10. ASSUME NEW n \in Notifs, BroadcastBegin(n) PROVE PoolInv'
  BY <1>10 DEF BroadcastBegin, CanRead, PoolTypeOK, FreshOpen, ClosedIffRemoved
<1>11. ASSUME NEW s \in Ids, QueueCheck(s) PROVE PoolInv'
  BY <1>11 DEF QueueCheck, PoolTypeOK, FreshOpen, ClosedIffRemoved
<1>12. ASSUME QueueSend PROVE PoolInv'
  <2>1. bcur \in Ids /\ ~closed[bcur] /\ bnote \in Notifs
    BY <1>12 DEF QueueSend, PoolTypeOK, ClosedIffRemoved
  <2>2. panicked' = FALSE
    BY <1>12, <2>1 DEF QueueSend, PoolTypeOK
  <2>3. Append(buf[bcur], bnote) \in Seq(Notifs)
    BY <2>1 DEF PoolTypeOK
  <2>4. buf' \in [Ids -> Seq(Notifs)]
    BY <1>12, <2>1, <2>3 DEF QueueSend, PoolTypeOK
  <2>5. QED
    BY <1>12, <2>2, <2>4 DEF QueueSend, PoolTypeOK, FreshOpen, ClosedIffRemoved
<1>13. ASSUME BroadcastEnd PROVE PoolInv'
  BY <1>13 DEF BroadcastEnd, PoolTypeOK, FreshOpen, ClosedIffRemoved
<1>14. ASSUME NEW s \in Ids, Receive(s) PROVE PoolInv'
  <2>1. buf[s] \in Seq(Notifs) /\ buf[s] # <<>>
    BY <1>14 DEF Receive, PoolTypeOK
  <2>2. Tail(buf[s]) \in Seq(Notifs)
    BY <2>1
  <2>3. buf' \in [Ids -> Seq(Notifs)]
    BY <1>14, <2>2 DEF Receive, PoolTypeOK
  <2>4. QED
    BY <1>14, <2>3 DEF Receive, PoolTypeOK, FreshOpen, ClosedIffRemoved
<1>15. ASSUME NEW d \in Deletes, DeleteDone(d) PROVE PoolInv'
  BY <1>15 DEF DeleteDone, PoolTypeOK, FreshOpen, ClosedIffRemoved
<1>16. ASSUME UNCHANGED sessVars PROVE PoolInv'
  BY <1>16 DEF sessVars, PoolTypeOK, FreshOpen, ClosedIffRemoved
<1>17. QED
  BY <1>1, <1>2, <1>3, <1>4, <1>5, <1>6, <1>7, <1>8, <1>9, <1>10, <1>11, <1>12,
     <1>13, <1>14, <1>15, <1>16 DEF PoolStep, PoolNext, Reaper, Broadcast

LEMMA PoolInvariant == PoolSpec => []PoolInv
<1>1. PoolInv /\ [PoolStep]_sessVars => PoolInv'
  BY PoolStepInv
<1>2. QED
  BY <1>1, PoolInitInv, PTL DEF PoolSpec

(* Whoever produces and consumes: nothing is sent on the channel of a      *)
(* closed session, although QueueNotification checks before it sends.      *)
THEOREM PoolNeverPanics == PoolSpec => []NoSendOnClosed
<1>1. PoolInv => NoSendOnClosed
  BY DEF PoolInv
<1>2. QED
  BY <1>1, PoolInvariant, PTL

(* The map and the closed flags agree about every session handed out.      *)
THEOREM PoolClosedIffRemoved == PoolSpec => []ClosedIffRemoved
<1>1. PoolInv => ClosedIffRemoved
  BY DEF PoolInv
<1>2. QED
  BY <1>1, PoolInvariant, PTL
=============================================================================
