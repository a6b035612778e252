------------------------- MODULE RequestRouterProofs -------------------------
(* Theorems about the request path, for any requests, ids and generations. *)
EXTENDS RequestRouter, SequenceTheorems, TLAPS

(* What routing relies on.  Only requests, never notifications, go through *)
(* the subprocess and into the table ...                                   *)
Travelling ==
  /\ inside \cap notes = {}
  /\ \A i \in 1..Len(stdout) : stdout[i] \notin notes
  /\ \A i \in 1..Len(rbuf) : rbuf[i] \notin notes
  /\ \A r \in Requests : pc[r] \in {"register", "wait"} => r \notin notes

PendingRequests == \A i \in Ids : pending[i] # None => pending[i] \notin notes

(* ... and what is matched up has one id, at every stage of the routing.   *)
Matched(q, r) == q \in Requests \ notes /\ IdOf[q] = IdOf[r]

Routed ==
  /\ rl = "send" => Matched(rmsg, rtarget)
  /\ \A r \in Requests : chan[r] # None => Matched(chan[r], r)
  /\ \A r \in Requests : result[r] \in Requests => Matched(result[r], r)

RouteInv == TypeOK /\ Travelling /\ PendingLive /\ PendingRequests /\ Routed

LEMMA TypeInit == Init => TypeOK
<1> SUFFICES ASSUME Init PROVE TypeOK
  OBVIOUS
<1> USE RouterAssumption DEF Init
<1>1. stdin \in Seq(Requests \cup {NL}) /\ stdout \in Seq(Requests) /\ rbuf \in Seq(Requests)
  OBVIOUS
<1>2. notes \subseteq MayNotify /\ inside \subseteq Requests
  OBVIOUS
<1>3. pc \in [Requests -> PostPcs] /\ result \in [Requests -> Requests \cup Outcomes]
  BY DEF PostPcs, Outcomes
<1>4. pending \in [Ids -> Requests \cup {None}] /\ chan \in [Requests -> Requests \cup {None}]
      /\ wgen \in [Requests -> 0..MaxGen]
  OBVIOUS
<1>5. gen \in 1..MaxGen /\ rgen \in 0..MaxGen /\ rl \in LoopPcs /\ rl # "send"
  BY DEF LoopPcs
<1>6. QED
  BY <1>1, <1>2, <1>3, <1>4, <1>5 DEF TypeOK

(* Sequences: what reading and writing the pipes does to their type.       *)
LEMMA TailType ==
  ASSUME NEW S, NEW q \in Seq(S), q # <<>>
  PROVE  Tail(q) \in Seq(S) /\ Head(q) \in S
         /\ Len(Tail(q)) = Len(q) - 1 /\ \A i \in 1..Len(Tail(q)) : Tail(q)[i] = q[i+1]
  OBVIOUS

LEMMA DropType ==
  ASSUME NEW S, NEW q \in Seq(S), Len(q) >= 2
  PROVE  /\ Tail(Tail(q)) \in Seq(S)
         /\ Len(Tail(Tail(q))) = Len(q) - 2
         /\ \A i \in 1..(Len(q) - 2) : Tail(Tail(q))[i] = q[i+2]
<1>1. q # <<>>
  OBVIOUS
<1>2. /\ Tail(q) \in Seq(S) /\ Len(Tail(q)) = Len(q) - 1
      /\ \A i \in 1..Len(Tail(q)) : Tail(q)[i] = q[i+1]
  BY <1>1, TailType
<1>3. Tail(q) # <<>>
  <2> SUFFICES ASSUME Tail(q) = <<>> PROVE FALSE
    OBVIOUS
  <2>1. Len(Tail(q)) = 0
    BY EmptySeq
  <2>2. QED
    BY <2>1, <1>2
<1>4. QED
  BY <1>2, <1>3, TailType

LEMMA AppendType ==
  ASSUME NEW S, NEW q \in Seq(S), NEW e \in S
  PROVE  Append(q, e) \in Seq(S) /\ Len(Append(q, e)) = Len(q) + 1
         /\ \A i \in 1..Len(q) : Append(q, e)[i] = q[i]
         /\ Append(q, e)[Len(q) + 1] = e
  OBVIOUS

(* A sequence's first element is one of its elements.                      *)
LEMMA HeadType ==
  ASSUME NEW S, NEW q \in Seq(S), q # <<>>
  PROVE  Head(q) = q[1] /\ 1 \in 1..Len(q)
<1>1. Len(q) \in Nat \ {0}
  BY EmptySeq
<1>2. QED
  BY <1>1

(* The line the read loop takes is one that was in a buffer, and the rest  *)
(* of the buffers is what was there.                                       *)
LEMMA LineTaken ==
  ASSUME TypeOK, TakeLine
  PROVE  /\ stdout' \in Seq(Requests) /\ rbuf' \in Seq(Requests) /\ NextLine \in Requests
         /\ \A P \in SUBSET Requests :
              (\A i \in 1..Len(stdout) : stdout[i] \in P) /\ (\A i \in 1..Len(rbuf) : rbuf[i] \in P)
                => /\ NextLine \in P
                   /\ \A i \in 1..Len(stdout') : stdout'[i] \in P
                   /\ \A i \in 1..Len(rbuf') : rbuf'[i] \in P
<1>1. CASE rbuf # <<>> /\ rbuf' = Tail(rbuf) /\ UNCHANGED stdout
  <2>1. rbuf \in Seq(Requests) /\ stdout \in Seq(Requests)
    BY DEF TypeOK
  <2>2. /\ Tail(rbuf) \in Seq(Requests) /\ Head(rbuf) \in Requests
        /\ Len(Tail(rbuf)) = Len(rbuf) - 1 /\ \A i \in 1..Len(Tail(rbuf)) : Tail(rbuf)[i] = rbuf[i+1]
        /\ Head(rbuf) = rbuf[1] /\ 1 \in 1..Len(rbuf)
    BY <1>1, <2>1, TailType, HeadType
  <2>3. NextLine = Head(rbuf)
    BY <1>1 DEF NextLine
  <2>4. QED
    BY <1>1, <2>1, <2>2, <2>3
<1>2. CASE rbuf = <<>> /\ stdout # <<>> /\ stdout' = Tail(stdout) /\ UNCHANGED rbuf
  <2>1. rbuf \in Seq(Requests) /\ stdout \in Seq(Requests)
    BY DEF TypeOK
  <2>2. /\ Tail(stdout) \in Seq(Requests) /\ Head(stdout) \in Requests
        /\ Len(Tail(stdout)) = Len(stdout) - 1
        /\ \A i \in 1..Len(Tail(stdout)) : Tail(stdout)[i] = stdout[i+1]
        /\ Head(stdout) = stdout[1] /\ 1 \in 1..Len(stdout)
    BY <1>2, <2>1, TailType, HeadType
  <2>3. NextLine = Head(stdout)
    BY <1>2 DEF NextLine
  <2>4. QED
    BY <1>2, <2>1, <2>2, <2>3
<1>3. QED
  BY <1>1, <1>2 DEF TakeLine

LEMMA PrefixType ==
  ASSUME NEW S, NEW q \in Seq(S), NEW n \in 0..Len(q)
  PROVE  /\ SubSeq(q, 1, n) \in Seq(S) /\ Len(SubSeq(q, 1, n)) = n
         /\ \A i \in 1..n : SubSeq(q, 1, n)[i] = q[i]
<1>1. \A i \in 1..n : q[i] \in S
  OBVIOUS
<1>2. 1 \in Int /\ n \in Int /\ (1 <= n => n - 1 + 1 = n) /\ (~(1 <= n) => n = 0) /\ n - 1 + 1 = n
  OBVIOUS
<1>3. /\ SubSeq(q, 1, n) \in Seq(S)
      /\ Len(SubSeq(q, 1, n)) = IF 1 <= n THEN n - 1 + 1 ELSE 0
      /\ \A i \in 1..n - 1 + 1 : SubSeq(q, 1, n)[i] = q[1 + i - 1]
  BY <1>1, <1>2, SubSeqProperties
<1>4. QED
  BY <1>2, <1>3

LEMMA TypeStep == TypeOK /\ [Next]_vars => TypeOK'
<1> SUFFICES ASSUME TypeOK, [Next]_vars PROVE TypeOK'
  OBVIOUS
<1> USE RouterAssumption DEF procVars, pipeVars, loopVars, postVars
<1>0. gen \in 0..MaxGen /\ 0 \in 0..MaxGen /\ MaxGen \in Nat
  BY DEF TypeOK
<1>1. ASSUME NEW r \in Requests, HandlePost(r) PROVE TypeOK'
  <2>1. pc' \in [Requests -> PostPcs]
    BY <1>1 DEF TypeOK, HandlePost, Step, PostPcs
  <2>2. result' \in [Requests -> Requests \cup Outcomes]
    BY <1>1 DEF TypeOK, HandlePost, Answer, Outcomes
  <2>3. started' \in BOOLEAN /\ rl' \in LoopPcs /\ (rl' = "send" => rl = "send")
    BY <1>1 DEF TypeOK, HandlePost, ensureReadLoop, LoopPcs
  <2>4. UNCHANGED <<notes, procVars, pipeVars, rgen, rbuf, rmsg, rtarget, hmu, wgen, pending, chan>>
    BY <1>1 DEF HandlePost
  <2>5. QED
    BY <2>1, <2>2, <2>3, <2>4 DEF TypeOK
<1>2. ASSUME NEW r \in Requests, Register(r) PROVE TypeOK'
  BY <1>2 DEF TypeOK, Register, Step, PostPcs
<1>3. ASSUME NEW r \in Requests, WriteLock(r) PROVE TypeOK'
  <2>1. UNCHANGED <<notes, procVars, pipeVars, loopVars, pending, chan>>
    BY <1>3 DEF WriteLock
  <2>2. CASE ~pipes
    <3>1. /\ pc' = [pc EXCEPT ![r] = "cleanup"] /\ result' = [result EXCEPT ![r] = "error"]
          /\ UNCHANGED <<hmu, wgen>>
      BY <1>3, <2>2 DEF WriteLock, Step, Answer
    <3>2. QED
      BY <2>1, <3>1 DEF TypeOK, PostPcs, Outcomes
  <2>3. CASE pipes
    <3>1. /\ pc' = [pc EXCEPT ![r] = "body"] /\ hmu' = r
          /\ wgen' = [wgen EXCEPT ![r] = gen] /\ UNCHANGED result
      BY <1>3, <2>3 DEF WriteLock, Step
    <3>2. QED
      BY <1>0, <2>1, <3>1 DEF TypeOK, PostPcs
  <2>4. QED
    BY <2>2, <2>3
<1>4. ASSUME NEW r \in Requests, WriteBody(r) PROVE TypeOK'
  <2>1. UNCHANGED <<notes, procVars, inside, stdout, loopVars, pending, chan>>
    BY <1>4 DEF WriteBody
  <2>2. CASE WriteFails(r, "body")
    <3>1. /\ pc' = [pc EXCEPT ![r] = "cleanup"] /\ result' = [result EXCEPT ![r] = "error"]
          /\ hmu' = None /\ wgen' = [wgen EXCEPT ![r] = 0] /\ stdin' = stdin
      BY <2>2 DEF WriteFails, Step, Answer
    <3>2. pc' \in [Requests -> PostPcs]
      BY <3>1 DEF TypeOK, PostPcs
    <3>3. result' \in [Requests -> Requests \cup Outcomes]
      BY <3>1 DEF TypeOK, Outcomes
    <3>4. wgen' \in [Requests -> 0..MaxGen]
      BY <1>0, <3>1 DEF TypeOK
    <3>5. QED
      BY <2>1, <3>1, <3>2, <3>3, <3>4 DEF TypeOK
  <2>3. CASE Writable(r)
    <3>1. /\ pc' = [pc EXCEPT ![r] = "newline"] /\ stdin' = Append(stdin, r)
          /\ UNCHANGED <<hmu, wgen, result>>
      BY <1>4, <2>3 DEF WriteBody, WriteFails, Step
    <3>2. stdin' \in Seq(Requests \cup {NL})
      BY <3>1, AppendType DEF TypeOK
    <3>3. pc' \in [Requests -> PostPcs]
      BY <3>1 DEF TypeOK, PostPcs
    <3>4. QED
      BY <2>1, <3>1, <3>2, <3>3 DEF TypeOK
  <2>4. QED
    BY <1>4, <2>2, <2>3 DEF WriteBody
<1>5. ASSUME NEW r \in Requests, WriteNewline(r) PROVE TypeOK'
  <2>1. UNCHANGED <<notes, procVars, inside, stdout, loopVars, pending, chan>>
    BY <1>5 DEF WriteNewline
  <2>2. CASE WriteFails(r, "newline")
    <3>1. /\ pc' = [pc EXCEPT ![r] = "cleanup"] /\ result' = [result EXCEPT ![r] = "error"]
          /\ hmu' = None /\ wgen' = [wgen EXCEPT ![r] = 0] /\ stdin' = stdin
      BY <2>2 DEF WriteFails, Step, Answer
    <3>2. pc' \in [Requests -> PostPcs]
      BY <3>1 DEF TypeOK, PostPcs
    <3>3. result' \in [Requests -> Requests \cup Outcomes]
      BY <3>1 DEF TypeOK, Outcomes
    <3>4. wgen' \in [Requests -> 0..MaxGen]
      BY <1>0, <3>1 DEF TypeOK
    <3>5. QED
      BY <2>1, <3>1, <3>2, <3>3, <3>4 DEF TypeOK
  <2>3. CASE Writable(r)
    <3>1. /\ stdin' = Append(stdin, NL) /\ hmu' = None /\ wgen' = [wgen EXCEPT ![r] = 0]
      BY <1>5, <2>3 DEF WriteNewline, WriteFails
    <3>2. stdin' \in Seq(Requests \cup {NL})
      BY <3>1, AppendType DEF TypeOK
    <3>3. wgen' \in [Requests -> 0..MaxGen]
      BY <1>0, <3>1 DEF TypeOK
    <3>4. CASE r \in notes
      <4>1. /\ pc' = [pc EXCEPT ![r] = "done"] /\ result' = [result EXCEPT ![r] = "accepted"]
        BY <1>5, <2>3, <3>4 DEF WriteNewline, WriteFails, Step, Answer
      <4>2. pc' \in [Requests -> PostPcs]
        BY <4>1 DEF TypeOK, PostPcs
      <4>3. result' \in [Requests -> Requests \cup Outcomes]
        BY <4>1 DEF TypeOK, Outcomes
      <4>4. QED
        BY <2>1, <3>1, <3>2, <3>3, <4>2, <4>3 DEF TypeOK
    <3>5. CASE r \notin notes
      <4>1. pc' = [pc EXCEPT ![r] = "wait"] /\ UNCHANGED result
        BY <1>5, <2>3, <3>5 DEF WriteNewline, WriteFails, Step
      <4>2. pc' \in [Requests -> PostPcs]
        BY <4>1 DEF TypeOK, PostPcs
      <4>3. QED
        BY <2>1, <3>1, <3>2, <3>3, <4>1, <4>2 DEF TypeOK
    <3>6. QED
      BY <3>4, <3>5
  <2>4. QED
    BY <1>5, <2>2, <2>3 DEF WriteNewline
<1>6. ASSUME NEW r \in Requests, ReceiveResponse(r) PROVE TypeOK'
  BY <1>6 DEF TypeOK, ReceiveResponse, Step, Answer, PostPcs
<1>7. ASSUME NEW r \in Requests, GiveUpWaiting(r) PROVE TypeOK'
  BY <1>7 DEF TypeOK, GiveUpWaiting, Step, Answer, PostPcs, Outcomes
<1>8. ASSUME NEW r \in Requests, Cleanup(r) PROVE TypeOK'
  BY <1>8 DEF TypeOK, Cleanup, Step, PostPcs
<1>9. ASSUME LoopBegin PROVE TypeOK'
  BY <1>9 DEF TypeOK, LoopBegin, LoopPcs
<1>10. ASSUME LoopRead PROVE TypeOK'
  <2>1. stdout' \in Seq(Requests) /\ rbuf' \in Seq(Requests) /\ NextLine \in Requests
    BY <1>10, LineTaken DEF LoopRead
  <2>2. QED
    BY <1>10, <2>1 DEF TypeOK, LoopRead, LoopPcs
<1>11. ASSUME LoopSend PROVE TypeOK'
  BY <1>11 DEF TypeOK, LoopSend, LoopPcs
<1>12. ASSUME LoopError PROVE TypeOK'
  BY <1>0, <1>12 DEF TypeOK, LoopError, LoopPcs
<1>13. ASSUME ProcessRead PROVE TypeOK'
  <2>1. stdin \in Seq(Requests \cup {NL}) /\ Len(stdin) >= 2
    BY <1>13 DEF TypeOK, ProcessRead
  <2>2. Tail(Tail(stdin)) \in Seq(Requests \cup {NL})
    BY <2>1, DropType
  <2>3. stdin[1] \in Requests \cup {NL}
    BY <2>1
  <2>4. QED
    BY <1>13, <2>2, <2>3 DEF TypeOK, ProcessRead
<1>14. ASSUME NEW r \in Requests, ProcessAnswer(r) PROVE TypeOK'
  <2>1. Append(stdout, r) \in Seq(Requests)
    BY AppendType DEF TypeOK
  <2>2. QED
    BY <1>14, <2>1 DEF TypeOK, ProcessAnswer
<1>15. ASSUME ProcessExit PROVE TypeOK'
  <2>1. <<>> \in Seq(Requests \cup {NL})
    BY EmptySeq
  <2>2. QED
    BY <1>15, <2>1 DEF TypeOK, ProcessExit
<1>16. ASSUME ManagerClears PROVE TypeOK'
  <2>1. <<>> \in Seq(Requests)
    BY EmptySeq
  <2>2. rbuf' \in Seq(Requests)
    <3>1. CASE \E n \in 0..Len(stdout) : rbuf' = SubSeq(stdout, 1, n)
      BY <3>1, PrefixType DEF TypeOK
    <3>2. CASE UNCHANGED rbuf
      BY <3>2 DEF TypeOK
    <3>3. QED
      BY <1>16, <3>1, <3>2 DEF ManagerClears
  <2>3. QED
    BY <1>16, <2>1, <2>2 DEF TypeOK, ManagerClears
<1>17. ASSUME ManagerRestarts PROVE TypeOK'
  BY <1>17 DEF TypeOK, ManagerRestarts
<1>18. ASSUME ManagerGivesUp PROVE TypeOK'
  BY <1>18 DEF TypeOK, ManagerGivesUp
<1>19. ASSUME UNCHANGED vars PROVE TypeOK'
  BY <1>19 DEF TypeOK, vars
<1>20. QED
  BY <1>1, <1>2, <1>3, <1>4, <1>5, <1>6, <1>7, <1>8, <1>9, <1>10, <1>11, <1>12,
     <1>13, <1>14, <1>15, <1>16, <1>17, <1>18, <1>19
     DEF Next, ReadLoop, Process, Post, Handle

(* TypeOK holds throughout, for any requests, ids and generations.         *)
THEOREM TypeCorrect == Spec => []TypeOK
<1>1. Init => TypeOK
  BY TypeInit
<1>2. TypeOK /\ [Next]_vars => TypeOK'
  BY TypeStep
<1>3. QED
  BY <1>1, <1>2, PTL DEF Spec

(* A handler's step that leaves the table alone leaves its entries live.   *)
LEMMA PendingKept ==
  ASSUME TypeOK, PendingLive, PendingRequests, UNCHANGED <<notes, pending>>,
         NEW r \in Requests, NEW l \in PostPcs, pc' = [pc EXCEPT ![r] = l],
         r \in notes \/ pc[r] \notin Registered \/ l \in Registered
  PROVE  (PendingLive /\ PendingRequests)'
<1> SUFFICES ASSUME NEW i \in Ids, pending[i] # None
             PROVE  /\ IdOf[pending[i]] = i /\ pc'[pending[i]] \in Registered
                    /\ pending[i] \notin notes
  BY DEF PendingLive, PendingRequests
<1>1. /\ pending[i] \in Requests /\ pending[i] \notin notes
      /\ IdOf[pending[i]] = i /\ pc[pending[i]] \in Registered
  BY DEF TypeOK, PendingLive, PendingRequests
<1>2. pc \in [Requests -> PostPcs]
  BY DEF TypeOK
<1>3. CASE pending[i] = r
  BY <1>1, <1>2, <1>3
<1>4. CASE pending[i] # r
  BY <1>1, <1>2, <1>4
<1>5. QED
  BY <1>1, <1>3, <1>4

(* An answer that is no response does not disturb the routing.             *)
LEMMA RoutedKept ==
  ASSUME TypeOK, Routed, UNCHANGED <<notes, rmsg, rtarget, chan>>, rl' = "send" => rl = "send",
         NEW r \in Requests, NEW out \in Outcomes,
         result' = result \/ result' = [result EXCEPT ![r] = out]
  PROVE  Routed'
<1> USE RouterAssumption
<1>1. ASSUME NEW q \in Requests, result'[q] \in Requests PROVE result'[q] = result[q]
  BY <1>1 DEF TypeOK, Outcomes
<1>2. QED
  BY <1>1 DEF Routed, Matched

(* The step of RouteInv: where a part is disturbed at all, by what.        *)
LEMMA RouteStep == RouteInv /\ [Next]_vars => RouteInv'
<1> SUFFICES ASSUME RouteInv, [Next]_vars PROVE RouteInv'
  OBVIOUS
<1> DEFINE Rest == Travelling /\ PendingLive /\ PendingRequests /\ Routed
<1>0. TypeOK /\ TypeOK'
  BY TypeStep DEF RouteInv
<1> USE RouterAssumption DEF procVars, pipeVars, loopVars, postVars
<1>1. ASSUME NEW r \in Requests, HandlePost(r) PROVE Rest'
  <2>1. Travelling'
    BY <1>0, <1>1 DEF RouteInv, TypeOK, Travelling, HandlePost, Step, Answer, ensureReadLoop, Outcomes
  <2>2. (PendingLive /\ PendingRequests)'
    <3>1. \E l \in PostPcs : /\ pc' = [pc EXCEPT ![r] = l]
                             /\ r \in notes \/ pc[r] \notin Registered \/ l \in Registered
      BY <1>1 DEF HandlePost, Step, Answer, ensureReadLoop, PostPcs, Registered
    <3>2. UNCHANGED <<notes, pending>>
      BY <1>1 DEF HandlePost
    <3>3. QED
      BY <1>0, <3>1, <3>2, PendingKept DEF RouteInv
  <2>3. Routed'
    <3>1. \E out \in Outcomes : result' = result \/ result' = [result EXCEPT ![r] = out]
      BY <1>1 DEF HandlePost, Step, Answer, ensureReadLoop, Outcomes
    <3>2. UNCHANGED <<notes, rmsg, rtarget, chan>> /\ (rl' = "send" => rl = "send")
      BY <1>1 DEF HandlePost, Step, Answer, ensureReadLoop
    <3>3. QED
      BY <1>0, <3>1, <3>2, RoutedKept DEF RouteInv
  <2>4. QED
    BY <2>1, <2>2, <2>3
<1>2. ASSUME NEW r \in Requests, Register(r) PROVE Rest'
  <2>1. Travelling'
    BY <1>0, <1>2 DEF RouteInv, TypeOK, Travelling, Register, Step
  <2>2. (PendingLive /\ PendingRequests)'
    <3>1. /\ pc' = [pc EXCEPT ![r] = "lock"] /\ pending' = [pending EXCEPT ![IdOf[r]] = r]
          /\ r \notin notes /\ notes' = notes /\ IdOf[r] \in Ids
      BY <1>2 DEF RouteInv, Travelling, Register, Step
    <3>2. ASSUME NEW i \in Ids, pending'[i] # None
          PROVE  IdOf[pending'[i]] = i /\ pc'[pending'[i]] \in Registered /\ pending'[i] \notin notes'
      <4>1. CASE i = IdOf[r]
        BY <1>0, <3>1, <4>1 DEF TypeOK, Registered
      <4>2. CASE i # IdOf[r]
        <5>1. /\ pending'[i] = pending[i] /\ pending[i] \in Requests /\ pending[i] \notin notes
              /\ IdOf[pending[i]] = i /\ pc[pending[i]] \in Registered
          BY <1>0, <3>1, <3>2, <4>2 DEF RouteInv, TypeOK, PendingLive, PendingRequests
        <5>2. QED
          BY <1>0, <3>1, <4>2, <5>1 DEF TypeOK
      <4>3. QED
        BY <4>1, <4>2
    <3>3. QED
      BY <3>2 DEF PendingLive, PendingRequests
  <2>3. Routed'
    BY <1>0, <1>2 DEF RouteInv, TypeOK, Routed, Matched, Register, Step
  <2>4. QED
    BY <2>1, <2>2, <2>3
<1>3. ASSUME NEW r \in Requests, WriteLock(r) PROVE Rest'
  <2>1. Travelling'
    BY <1>0, <1>3 DEF RouteInv, TypeOK, Travelling, WriteLock, Step, Answer, Outcomes
  <2>2. (PendingLive /\ PendingRequests)'
    <3>1. \E l \in PostPcs : /\ pc' = [pc EXCEPT ![r] = l]
                             /\ r \in notes \/ pc[r] \notin Registered \/ l \in Registered
      BY <1>3 DEF WriteLock, Step, Answer, PostPcs, Registered
    <3>2. UNCHANGED <<notes, pending>>
      BY <1>3 DEF WriteLock
    <3>3. QED
      BY <1>0, <3>1, <3>2, PendingKept DEF RouteInv
  <2>3. Routed'
    <3>1. \E out \in Outcomes : result' = result \/ result' = [result EXCEPT ![r] = out]
      BY <1>3 DEF WriteLock, Step, Answer, Outcomes
    <3>2. UNCHANGED <<notes, rmsg, rtarget, chan>> /\ (rl' = "send" => rl = "send")
      BY <1>3 DEF WriteLock, Step, Answer
    <3>3. QED
      BY <1>0, <3>1, <3>2, RoutedKept DEF RouteInv
  <2>4. QED
    BY <2>1, <2>2, <2>3
<1>4. ASSUME NEW r \in Requests, WriteBody(r) PROVE Rest'
  <2>1. Travelling'
    BY <1>0, <1>4 DEF RouteInv, TypeOK, Travelling, WriteBody, WriteFails, Step, Answer, Outcomes
  <2>2. (PendingLive /\ PendingRequests)'
    <3>1. \E l \in PostPcs : /\ pc' = [pc EXCEPT ![r] = l]
                             /\ r \in notes \/ pc[r] \notin Registered \/ l \in Registered
      BY <1>4 DEF WriteBody, WriteFails, Step, Answer, PostPcs, Registered
    <3>2. UNCHANGED <<notes, pending>>
      BY <1>4 DEF WriteBody
    <3>3. QED
      BY <1>0, <3>1, <3>2, PendingKept DEF RouteInv
  <2>3. Routed'
    <3>1. \E out \in Outcomes : result' = result \/ result' = [result EXCEPT ![r] = out]
      BY <1>4 DEF WriteBody, WriteFails, Step, Answer, Outcomes
    <3>2. UNCHANGED <<notes, rmsg, rtarget, chan>> /\ (rl' = "send" => rl = "send")
      BY <1>4 DEF WriteBody, WriteFails, Step, Answer
    <3>3. QED
      BY <1>0, <3>1, <3>2, RoutedKept DEF RouteInv
  <2>4. QED
    BY <2>1, <2>2, <2>3
<1>5. ASSUME NEW r \in Requests, WriteNewline(r) PROVE Rest'
  <2>1. Travelling'
    BY <1>0, <1>5 DEF RouteInv, TypeOK, Travelling, WriteNewline, WriteFails, Step, Answer, Outcomes
  <2>2. (PendingLive /\ PendingRequests)'
    <3>1. \E l \in PostPcs : /\ pc' = [pc EXCEPT ![r] = l]
                             /\ r \in notes \/ pc[r] \notin Registered \/ l \in Registered
      BY <1>5 DEF WriteNewline, WriteFails, Step, Answer, PostPcs, Registered
    <3>2. UNCHANGED <<notes, pending>>
      BY <1>5 DEF WriteNewline
    <3>3. QED
      BY <1>0, <3>1, <3>2, PendingKept DEF RouteInv
  <2>3. Routed'
    <3>1. \E out \in Outcomes : result' = result \/ result' = [result EXCEPT ![r] = out]
      BY <1>5 DEF WriteNewline, WriteFails, Step, Answer, Outcomes
    <3>2. UNCHANGED <<notes, rmsg, rtarget, chan>> /\ (rl' = "send" => rl = "send")
      BY <1>5 DEF WriteNewline, WriteFails, Step, Answer
    <3>3. QED
      BY <1>0, <3>1, <3>2, RoutedKept DEF RouteInv
  <2>4. QED
    BY <2>1, <2>2, <2>3
<1>6. ASSUME NEW r \in Requests, ReceiveResponse(r) PROVE Rest'
  <2>1. Travelling'
    BY <1>0, <1>6 DEF RouteInv, TypeOK, Travelling, ReceiveResponse, Step, Answer
  <2>2. (PendingLive /\ PendingRequests)'
    BY <1>0, <1>6 DEF RouteInv, TypeOK, PendingLive, PendingRequests, Registered, ReceiveResponse, Step, Answer
  <2>3. Routed'
    BY <1>0, <1>6 DEF RouteInv, TypeOK, Routed, Matched, ReceiveResponse, Step, Answer
  <2>4. QED
    BY <2>1, <2>2, <2>3
<1>7. ASSUME NEW r \in Requests, GiveUpWaiting(r) PROVE Rest'
  <2>1. Travelling'
    BY <1>0, <1>7 DEF RouteInv, TypeOK, Travelling, GiveUpWaiting, Step, Answer, Outcomes
  <2>2. (PendingLive /\ PendingRequests)'
    BY <1>0, <1>7 DEF RouteInv, TypeOK, PendingLive, PendingRequests, Registered, GiveUpWaiting, Step, Answer, Outcomes
  <2>3. Routed'
    BY <1>0, <1>7 DEF RouteInv, TypeOK, Routed, Matched, GiveUpWaiting, Step, Answer, Outcomes
  <2>4. QED
    BY <2>1, <2>2, <2>3
<1>8. ASSUME NEW r \in Requests, Cleanup(r) PROVE Rest'
  <2>1. Travelling'
    BY <1>0, <1>8 DEF RouteInv, TypeOK, Travelling, Cleanup, Step
  <2>2. (PendingLive /\ PendingRequests)'
    BY <1>0, <1>8 DEF RouteInv, TypeOK, PendingLive, PendingRequests, Registered, Cleanup, Step
  <2>3. Routed'
    BY <1>0, <1>8 DEF RouteInv, TypeOK, Routed, Matched, Cleanup, Step
  <2>4. QED
    BY <2>1, <2>2, <2>3
<1>9. ASSUME LoopBegin PROVE Rest'
  <2>1. Travelling'
    BY <1>0, <1>9 DEF RouteInv, TypeOK, Travelling, LoopBegin
  <2>2. (PendingLive /\ PendingRequests)'
    BY <1>0, <1>9 DEF RouteInv, TypeOK, PendingLive, PendingRequests, Registered, LoopBegin
  <2>3. Routed'
    BY <1>0, <1>9 DEF RouteInv, TypeOK, Routed, Matched, LoopBegin
  <2>4. QED
    BY <2>1, <2>2, <2>3
<1>10. ASSUME LoopRead PROVE Rest'
  <2>0. /\ NextLine \in Requests \ notes
        /\ \A i \in 1..Len(stdout') : stdout'[i] \in Requests \ notes
        /\ \A i \in 1..Len(rbuf') : rbuf'[i] \in Requests \ notes
    <3>1. /\ \A i \in 1..Len(stdout) : stdout[i] \in Requests \ notes
          /\ \A i \in 1..Len(rbuf) : rbuf[i] \in Requests \ notes
      <4>1. stdout \in Seq(Requests) /\ rbuf \in Seq(Requests)
        BY <1>0 DEF TypeOK
      <4>2. /\ \A i \in 1..Len(stdout) : stdout[i] \in Requests
            /\ \A i \in 1..Len(rbuf) : rbuf[i] \in Requests
        BY <4>1
      <4>3. QED
        BY <4>2 DEF RouteInv, Travelling
    <3>2. TakeLine /\ Requests \ notes \in SUBSET Requests
      BY <1>10 DEF LoopRead
    <3>3. QED
      BY <1>0, <3>1, <3>2, LineTaken
  <2>1. Travelling'
    BY <1>10, <2>0 DEF RouteInv, Travelling, LoopRead
  <2>2. (PendingLive /\ PendingRequests)'
    BY <1>0, <1>10 DEF RouteInv, TypeOK, PendingLive, PendingRequests, Registered, LoopRead
  <2>3. Routed'
    <3>3. rl' = "send" => Matched(rmsg', rtarget')
      BY <1>0, <1>10, <2>0 DEF RouteInv, TypeOK, PendingLive, Routed, Matched, LoopRead
    <3>4. UNCHANGED <<notes, chan, result>>
      BY <1>10 DEF LoopRead
    <3>5. QED
      BY <3>3, <3>4 DEF RouteInv, Routed, Matched
  <2>4. QED
    BY <2>1, <2>2, <2>3
<1>11. ASSUME LoopSend PROVE Rest'
  <2>1. Travelling'
    BY <1>0, <1>11 DEF RouteInv, TypeOK, Travelling, LoopSend
  <2>2. (PendingLive /\ PendingRequests)'
    BY <1>0, <1>11 DEF RouteInv, TypeOK, PendingLive, PendingRequests, Registered, LoopSend
  <2>3. Routed'
    BY <1>0, <1>11 DEF RouteInv, TypeOK, Routed, Matched, LoopSend
  <2>4. QED
    BY <2>1, <2>2, <2>3
<1>12. ASSUME LoopError PROVE Rest'
  <2>1. Travelling'
    BY <1>0, <1>12 DEF RouteInv, TypeOK, Travelling, LoopError
  <2>2. (PendingLive /\ PendingRequests)'
    BY <1>0, <1>12 DEF RouteInv, TypeOK, PendingLive, PendingRequests, Registered, LoopError
  <2>3. Routed'
    BY <1>0, <1>12 DEF RouteInv, TypeOK, Routed, Matched, LoopError
  <2>4. QED
    BY <2>1, <2>2, <2>3
<1>13. ASSUME ProcessRead PROVE Rest'
  <2>1. Travelling'
    BY <1>0, <1>13 DEF RouteInv, TypeOK, Travelling, ProcessRead
  <2>2. (PendingLive /\ PendingRequests)'
    BY <1>0, <1>13 DEF RouteInv, TypeOK, PendingLive, PendingRequests, Registered, ProcessRead
  <2>3. Routed'
    BY <1>0, <1>13 DEF RouteInv, TypeOK, Routed, Matched, ProcessRead
  <2>4. QED
    BY <2>1, <2>2, <2>3
<1>14. ASSUME NEW r \in Requests, ProcessAnswer(r) PROVE Rest'
  <2>1. Travelling'
    BY <1>0, <1>14 DEF RouteInv, TypeOK, Travelling, ProcessAnswer
  <2>2. (PendingLive /\ PendingRequests)'
    BY <1>0, <1>14 DEF RouteInv, TypeOK, PendingLive, PendingRequests, Registered, ProcessAnswer
  <2>3. Routed'
    BY <1>0, <1>14 DEF RouteInv, TypeOK, Routed, Matched, ProcessAnswer
  <2>4. QED
    BY <2>1, <2>2, <2>3
<1>15. ASSUME ProcessExit PROVE Rest'
  <2>1. Travelling'
    BY <1>0, <1>15 DEF RouteInv, TypeOK, Travelling, ProcessExit
  <2>2. (PendingLive /\ PendingRequests)'
    BY <1>0, <1>15 DEF RouteInv, TypeOK, PendingLive, PendingRequests, Registered, ProcessExit
  <2>3. Routed'
    BY <1>0, <1>15 DEF RouteInv, TypeOK, Routed, Matched, ProcessExit
  <2>4. QED
    BY <2>1, <2>2, <2>3
<1>16. ASSUME ManagerClears PROVE Rest'
  <2>1. Travelling'
    <3>1. \A i \in 1..Len(stdout') : stdout'[i] \notin notes
      BY <1>16, EmptySeq DEF ManagerClears
    <3>2. \A i \in 1..Len(rbuf') : rbuf'[i] \notin notes
      <4>1. CASE UNCHANGED rbuf
        BY <4>1 DEF RouteInv, Travelling
      <4>2. ASSUME NEW n \in 0..Len(stdout), rbuf' = SubSeq(stdout, 1, n)
            PROVE  \A i \in 1..Len(rbuf') : rbuf'[i] \notin notes
        <5>1. stdout \in Seq(Requests)
          BY <1>0 DEF TypeOK
        <5>2. Len(rbuf') = n /\ \A i \in 1..n : rbuf'[i] = stdout[i]
          BY <4>2, <5>1, PrefixType
        <5>3. QED
          BY <5>1, <5>2 DEF RouteInv, Travelling
      <4>3. QED
        BY <1>16, <4>1, <4>2 DEF ManagerClears
    <3>3. UNCHANGED <<inside, notes, pc>>
      BY <1>16 DEF ManagerClears
    <3>4. QED
      BY <3>1, <3>2, <3>3 DEF RouteInv, Travelling
  <2>2. (PendingLive /\ PendingRequests)'
    BY <1>0, <1>16 DEF RouteInv, TypeOK, PendingLive, PendingRequests, Registered, ManagerClears
  <2>3. Routed'
    BY <1>0, <1>16 DEF RouteInv, TypeOK, Routed, Matched, ManagerClears
  <2>4. QED
    BY <2>1, <2>2, <2>3
<1>17. ASSUME ManagerRestarts PROVE Rest'
  <2>1. Travelling'
    BY <1>0, <1>17 DEF RouteInv, TypeOK, Travelling, ManagerRestarts
  <2>2. (PendingLive /\ PendingRequests)'
    BY <1>0, <1>17 DEF RouteInv, TypeOK, PendingLive, PendingRequests, Registered, ManagerRestarts
  <2>3. Routed'
    BY <1>0, <1>17 DEF RouteInv, TypeOK, Routed, Matched, ManagerRestarts
  <2>4. QED
    BY <2>1, <2>2, <2>3
<1>18. ASSUME ManagerGivesUp PROVE Rest'
  <2>1. Travelling'
    BY <1>0, <1>18 DEF RouteInv, TypeOK, Travelling, ManagerGivesUp
  <2>2. (PendingLive /\ PendingRequests)'
    BY <1>0, <1>18 DEF RouteInv, TypeOK, PendingLive, PendingRequests, Registered, ManagerGivesUp
  <2>3. Routed'
    BY <1>0, <1>18 DEF RouteInv, TypeOK, Routed, Matched, ManagerGivesUp
  <2>4. QED
    BY <2>1, <2>2, <2>3
<1>19. ASSUME UNCHANGED vars PROVE Rest'
  BY <1>19 DEF RouteInv, Travelling, PendingLive, PendingRequests, Registered, Routed, Matched, vars
<1>20. Rest'
  BY <1>1, <1>2, <1>3, <1>4, <1>5, <1>6, <1>7, <1>8, <1>9, <1>10, <1>11, <1>12, <1>13, <1>14, <1>15, <1>16, <1>17, <1>18, <1>19
     DEF Next, ReadLoop, Process, Post, Handle
<1>21. QED
  BY <1>0, <1>20 DEF RouteInv

LEMMA RouteInit == Init => RouteInv
<1> SUFFICES ASSUME Init PROVE RouteInv
  OBVIOUS
<1>1. TypeOK
  BY TypeInit
<1>2. Travelling
  BY EmptySeq DEF Init, Travelling
<1>3. PendingLive /\ PendingRequests
  BY DEF Init, PendingLive, PendingRequests
<1>4. Routed
  BY RouterAssumption DEF Init, Routed
<1>5. QED
  BY <1>1, <1>2, <1>3, <1>4 DEF RouteInv

LEMMA RouteInvariant == Spec => []RouteInv
<1>1. RouteInv /\ [Next]_vars => RouteInv'
  BY RouteStep
<1>2. QED
  BY <1>1, RouteInit, PTL DEF Spec

(* No response reaches a POST that does not carry its id, late answers and *)
(* overwritten registrations included; with an id of its own a POST only   *)
(* ever gets its own response.                                             *)
THEOREM ResponsesMatch == Spec => []ResponseMatches
<1>1. RouteInv => ResponseMatches
  <2> SUFFICES ASSUME RouteInv, NEW r \in Requests, result[r] \in Requests
               PROVE  IdOf[result[r]] = IdOf[r] /\ (Unique(r) => result[r] = r)
    BY DEF ResponseMatches
  <2>1. result[r] \in Requests \ notes /\ IdOf[result[r]] = IdOf[r]
    BY DEF RouteInv, Routed, Matched
  <2>2. QED
    BY <2>1 DEF Unique
<1>2. QED
  BY <1>1, RouteInvariant, PTL

(* pendingResponses only ever holds handlers that have not finished.       *)
THEOREM PendingNeverLeaks == Spec => []PendingLive
<1>1. RouteInv => PendingLive
  BY DEF RouteInv
<1>2. QED
  BY <1>1, RouteInvariant, PTL

-----------------------------------------------------------------------------
(* What FramesWhole relies on: who is between WriteLock and the newline    *)
(* holds h.mu; a stdin of an older generation is not written any more; ... *)
Writing == {"body", "newline"}
WriterInv ==
  /\ \A r \in Requests : pc[r] \in Writing <=> hmu = r
  /\ \A r \in Requests : wgen[r] <= gen
  /\ alive => pipes
  /\ ~alive => stdin = <<>>

(* ... and a message without its newline is the last one, and belongs to a *)
(* holder of h.mu whose next write cannot fail without the process's exit. *)
StdinInv ==
  /\ \A i \in 1..Len(stdin) : stdin[i] = NL => i > 1 /\ stdin[i-1] # NL
  /\ \A i \in 1..Len(stdin) : stdin[i] # NL =>
       \/ i < Len(stdin) /\ stdin[i+1] = NL
       \/ i = Len(stdin) /\ hmu = stdin[i] /\ pc[stdin[i]] = "newline" /\ Writable(stdin[i])
  /\ \A r \in Requests : pc[r] = "newline" /\ Writable(r) =>
       Len(stdin) > 0 /\ stdin[Len(stdin)] = r

FrameInv == TypeOK /\ WriterInv /\ StdinInv

LEMMA FrameInit == Init => FrameInv
<1> SUFFICES ASSUME Init PROVE FrameInv
  OBVIOUS
<1>1. TypeOK
  BY TypeInit
<1>2. WriterInv
  BY RouterAssumption DEF Init, WriterInv, Writing
<1>3. StdinInv
  BY EmptySeq DEF Init, StdinInv
<1>4. QED
  BY <1>1, <1>2, <1>3 DEF FrameInv

(* Steps of handlers that do not write, and of the read loop.              *)
LEMMA FrameKept ==
  ASSUME FrameInv, UNCHANGED <<gen, alive, pipes, stdin, hmu, wgen>>,
         \A q \in Requests : pc[q] \in Writing \/ pc'[q] \in Writing => pc'[q] = pc[q]
  PROVE  (WriterInv /\ StdinInv)'
<1>1. WriterInv'
  BY DEF FrameInv, WriterInv
<1>2. \A q \in Requests : pc'[q] = "newline" <=> pc[q] = "newline"
  BY DEF Writing
<1>3. \A q : Writable(q)' <=> Writable(q)
  BY DEF Writable
<1>4. \A i \in 1..Len(stdin) : stdin[i] \in Requests \cup {NL}
  <2>1. stdin \in Seq(Requests \cup {NL})
    BY DEF FrameInv, TypeOK
  <2>2. QED
    BY <2>1
<1>5. StdinInv'
  BY <1>2, <1>3, <1>4 DEF FrameInv, StdinInv
<1>6. QED
  BY <1>1, <1>5

(* A writer that gives up with no writable stdin leaves no half message.   *)
LEMMA GivesUpLock ==
  ASSUME FrameInv, NEW r \in Requests, pc[r] \in Writing, hmu = r, ~Writable(r),
         hmu' = None, wgen' = [wgen EXCEPT ![r] = 0], pc' = [pc EXCEPT ![r] = "cleanup"],
         UNCHANGED <<gen, alive, pipes, stdin>>
  PROVE  (WriterInv /\ StdinInv)'
<1>a. /\ Len(stdin) \in Nat
      /\ \A i \in 1..Len(stdin) : stdin[i] \in Requests \cup {NL}
  <2>1. stdin \in Seq(Requests \cup {NL})
    BY DEF FrameInv, TypeOK
  <2>2. QED
    BY <2>1
<1>b. pc \in [Requests -> PostPcs] /\ wgen \in [Requests -> 0..MaxGen] /\ gen \in 1..MaxGen
      /\ MaxGen \in Nat
  BY RouterAssumption DEF FrameInv, TypeOK
<1>1. WriterInv'
  BY <1>b, RouterAssumption DEF FrameInv, WriterInv, Writing
<1>2. \A q \in Requests : pc'[q] # "newline"
  BY <1>b, <1>1, RouterAssumption DEF WriterInv, Writing
<1>3. \A i \in 1..Len(stdin) : stdin[i] # NL => i < Len(stdin) /\ stdin[i+1] = NL
  BY <1>a DEF FrameInv, StdinInv
<1>4. StdinInv'
  BY <1>a, <1>2, <1>3 DEF FrameInv, StdinInv
<1>5. QED
  BY <1>1, <1>4

LEMMA FrameStep == FrameInv /\ [Next]_vars => FrameInv'
<1> SUFFICES ASSUME FrameInv, [Next]_vars PROVE FrameInv'
  OBVIOUS
<1> DEFINE Rest == WriterInv /\ StdinInv
<1>0. TypeOK /\ TypeOK'
  BY TypeStep DEF FrameInv
<1>a. /\ stdin \in Seq(Requests \cup {NL}) /\ Len(stdin) \in Nat
      /\ \A i \in 1..Len(stdin) : stdin[i] \in Requests \cup {NL}
  <2>1. stdin \in Seq(Requests \cup {NL})
    BY <1>0 DEF TypeOK
  <2>2. QED
    BY <2>1
<1>b. pc \in [Requests -> PostPcs] /\ wgen \in [Requests -> 0..MaxGen] /\ gen \in 1..MaxGen
      /\ hmu \in Requests \cup {None} /\ MaxGen \in Nat
  BY <1>0, RouterAssumption DEF TypeOK
<1> USE RouterAssumption DEF procVars, pipeVars, loopVars, postVars
<1>1. ASSUME NEW r \in Requests, HandlePost(r) PROVE Rest'
  <2>1. UNCHANGED <<gen, alive, pipes, stdin, hmu, wgen>>
    BY <1>1 DEF HandlePost
  <2>2. \A q \in Requests : pc[q] \in Writing \/ pc'[q] \in Writing => pc'[q] = pc[q]
    BY <1>0, <1>1 DEF TypeOK, HandlePost, Step, Writing
  <2>3. QED
    BY <2>1, <2>2, FrameKept
<1>2. ASSUME NEW r \in Requests, Register(r) PROVE Rest'
  <2>1. UNCHANGED <<gen, alive, pipes, stdin, hmu, wgen>>
    BY <1>2 DEF Register
  <2>2. \A q \in Requests : pc[q] \in Writing \/ pc'[q] \in Writing => pc'[q] = pc[q]
    BY <1>0, <1>2 DEF TypeOK, Register, Step, Writing
  <2>3. QED
    BY <2>1, <2>2, FrameKept
<1>3. ASSUME NEW r \in Requests, ReceiveResponse(r) PROVE Rest'
  <2>1. UNCHANGED <<gen, alive, pipes, stdin, hmu, wgen>>
    BY <1>3 DEF ReceiveResponse
  <2>2. \A q \in Requests : pc[q] \in Writing \/ pc'[q] \in Writing => pc'[q] = pc[q]
    BY <1>0, <1>3 DEF TypeOK, ReceiveResponse, Step, Writing
  <2>3. QED
    BY <2>1, <2>2, FrameKept
<1>4. ASSUME NEW r \in Requests, GiveUpWaiting(r) PROVE Rest'
  <2>1. UNCHANGED <<gen, alive, pipes, stdin, hmu, wgen>>
    BY <1>4 DEF GiveUpWaiting
  <2>2. \A q \in Requests : pc[q] \in Writing \/ pc'[q] \in Writing => pc'[q] = pc[q]
    BY <1>0, <1>4 DEF TypeOK, GiveUpWaiting, Step, Writing
  <2>3. QED
    BY <2>1, <2>2, FrameKept
<1>5. ASSUME NEW r \in Requests, Cleanup(r) PROVE Rest'
  <2>1. UNCHANGED <<gen, alive, pipes, stdin, hmu, wgen>>
    BY <1>5 DEF Cleanup
  <2>2. \A q \in Requests : pc[q] \in Writing \/ pc'[q] \in Writing => pc'[q] = pc[q]
    BY <1>0, <1>5 DEF TypeOK, Cleanup, Step, Writing
  <2>3. QED
    BY <2>1, <2>2, FrameKept
<1>6. ASSUME LoopBegin PROVE Rest'
  <2>1. UNCHANGED <<gen, alive, pipes, stdin, hmu, wgen>>
    BY <1>6 DEF LoopBegin
  <2>2. \A q \in Requests : pc[q] \in Writing \/ pc'[q] \in Writing => pc'[q] = pc[q]
    BY <1>0, <1>6 DEF TypeOK, LoopBegin, Writing
  <2>3. QED
    BY <2>1, <2>2, FrameKept
<1>7. ASSUME LoopRead PROVE Rest'
  <2>1. UNCHANGED <<gen, alive, pipes, stdin, hmu, wgen>>
    BY <1>7 DEF LoopRead
  <2>2. \A q \in Requests : pc[q] \in Writing \/ pc'[q] \in Writing => pc'[q] = pc[q]
    BY <1>0, <1>7 DEF TypeOK, LoopRead, Writing
  <2>3. QED
    BY <2>1, <2>2, FrameKept
<1>8. ASSUME LoopSend PROVE Rest'
  <2>1. UNCHANGED <<gen, alive, pipes, stdin, hmu, wgen>>
    BY <1>8 DEF LoopSend
  <2>2. \A q \in Requests : pc[q] \in Writing \/ pc'[q] \in Writing => pc'[q] = pc[q]
    BY <1>0, <1>8 DEF TypeOK, LoopSend, Writing
  <2>3. QED
    BY <2>1, <2>2, FrameKept
<1>9. ASSUME LoopError PROVE Rest'
  <2>1. UNCHANGED <<gen, alive, pipes, stdin, hmu, wgen>>
    BY <1>9 DEF LoopError
  <2>2. \A q \in Requests : pc[q] \in Writing \/ pc'[q] \in Writing => pc'[q] = pc[q]
    BY <1>0, <1>9 DEF TypeOK, LoopError, Writing
  <2>3. QED
    BY <2>1, <2>2, FrameKept
<1>10. ASSUME NEW r \in Requests, ProcessAnswer(r) PROVE Rest'
  <2>1. UNCHANGED <<gen, alive, pipes, stdin, hmu, wgen>>
    BY <1>10 DEF ProcessAnswer
  <2>2. \A q \in Requests : pc[q] \in Writing \/ pc'[q] \in Writing => pc'[q] = pc[q]
    BY <1>0, <1>10 DEF TypeOK, ProcessAnswer, Writing
  <2>3. QED
    BY <2>1, <2>2, FrameKept
<1>11. ASSUME ManagerGivesUp PROVE Rest'
  <2>1. UNCHANGED <<gen, alive, pipes, stdin, hmu, wgen>>
    BY <1>11 DEF ManagerGivesUp
  <2>2. \A q \in Requests : pc[q] \in Writing \/ pc'[q] \in Writing => pc'[q] = pc[q]
    BY <1>0, <1>11 DEF TypeOK, ManagerGivesUp, Writing
  <2>3. QED
    BY <2>1, <2>2, FrameKept
<1>12. ASSUME NEW r \in Requests, WriteLock(r) PROVE Rest'
  <2>1. /\ hmu = None /\ pc[r] = "lock" /\ UNCHANGED <<gen, alive, pipes, stdin>>
    BY <1>12 DEF WriteLock, Step
  <2>2. \A q \in Requests : pc[q] \notin Writing
    BY <2>1 DEF FrameInv, WriterInv
  <2>3. CASE ~pipes
    <3>1. pc' = [pc EXCEPT ![r] = "cleanup"] /\ UNCHANGED <<hmu, wgen>>
      BY <1>12, <2>3 DEF WriteLock, Step
    <3>2. \A q \in Requests : pc'[q] \notin Writing
      BY <1>b, <2>2, <3>1 DEF Writing
    <3>3. QED
      BY <2>1, <2>2, <3>1, <3>2, FrameKept
  <2>4. CASE pipes
    <3>1. pc' = [pc EXCEPT ![r] = "body"] /\ hmu' = r /\ wgen' = [wgen EXCEPT ![r] = gen]
      BY <1>12, <2>4 DEF WriteLock, Step
    <3>2. WriterInv'
      BY <1>b, <2>1, <2>2, <3>1 DEF FrameInv, WriterInv, Writing
    <3>3. \A q \in Requests : pc'[q] # "newline"
      BY <1>b, <2>2, <3>1 DEF Writing
    <3>4. \A i \in 1..Len(stdin) : stdin[i] # NL => i < Len(stdin) /\ stdin[i+1] = NL
      BY <1>a, <2>1 DEF FrameInv, StdinInv
    <3>5. StdinInv'
      BY <1>a, <2>1, <3>3, <3>4 DEF FrameInv, StdinInv
    <3>6. QED
      BY <3>2, <3>5
  <2>5. QED
    BY <1>0, <2>3, <2>4 DEF TypeOK
<1>13. ASSUME NEW r \in Requests, WriteBody(r) PROVE Rest'
  <2>1. pc[r] = "body" /\ hmu = r
    BY <1>13 DEF WriteBody, WriteFails, Step, FrameInv, WriterInv, Writing
  <2>2. CASE WriteFails(r, "body")
    <3>1. /\ ~Writable(r) /\ hmu' = None /\ wgen' = [wgen EXCEPT ![r] = 0]
          /\ pc' = [pc EXCEPT ![r] = "cleanup"] /\ UNCHANGED <<gen, alive, pipes, stdin>>
      BY <1>13, <2>2 DEF WriteBody, WriteFails, Step
    <3>2. QED
      BY <2>1, <3>1, GivesUpLock DEF Writing
  <2>3. CASE Writable(r)
    <3>1. /\ pc' = [pc EXCEPT ![r] = "newline"] /\ stdin' = Append(stdin, r)
          /\ UNCHANGED <<gen, alive, pipes, hmu, wgen>>
      BY <1>13, <2>3 DEF WriteBody, WriteFails, Step
    <3>2. WriterInv'
      BY <1>b, <2>1, <2>3, <3>1 DEF FrameInv, WriterInv, Writing, Writable
    <3>3. /\ Len(stdin') = Len(stdin) + 1 /\ stdin'[Len(stdin) + 1] = r
          /\ \A i \in 1..Len(stdin) : stdin'[i] = stdin[i]
      BY <1>a, <3>1, AppendType
    <3>4. \A i \in 1..Len(stdin) : stdin[i] # NL => i < Len(stdin) /\ stdin[i+1] = NL
      BY <1>a, <2>1 DEF FrameInv, StdinInv
    <3>5. /\ Writable(r)' /\ pc'[r] = "newline" /\ hmu' = r
          /\ \A q \in Requests : pc'[q] = "newline" => q = r
      BY <1>b, <2>1, <2>3, <3>1, <3>2 DEF Writable, WriterInv, Writing
    <3>6. StdinInv'
      <4>0. Len(stdin) \in Nat /\ r # NL /\ \A i \in 1..Len(stdin) : stdin[i] = NL => i > 1 /\ stdin[i-1] # NL
        BY <1>a DEF FrameInv, StdinInv
      <4>1. ASSUME NEW i \in 1..Len(stdin'), stdin'[i] = NL PROVE i > 1 /\ stdin'[i-1] # NL
        <5>1. i \in 1..Len(stdin) /\ stdin[i] = NL
          BY <4>0, <4>1, <3>3
        <5>2. i > 1 /\ stdin[i-1] # NL /\ i - 1 \in 1..Len(stdin)
          BY <4>0, <5>1
        <5>3. QED
          BY <5>2, <3>3
      <4>2. ASSUME NEW i \in 1..Len(stdin'), stdin'[i] # NL
            PROVE  \/ i < Len(stdin') /\ stdin'[i+1] = NL
                   \/ i = Len(stdin') /\ stdin'[i] = r
        <5>1. CASE i = Len(stdin) + 1
          BY <5>1, <3>3
        <5>2. CASE i \in 1..Len(stdin)
          <6>1. i < Len(stdin) /\ stdin[i+1] = NL /\ i + 1 \in 1..Len(stdin)
            BY <4>0, <4>2, <5>2, <3>3, <3>4
          <6>2. QED
            BY <4>0, <6>1, <3>3
        <5>3. QED
          BY <4>0, <5>1, <5>2, <3>3
      <4>3. Len(stdin') > 0 /\ stdin'[Len(stdin')] = r
        BY <4>0, <3>3
      <4>4. QED
        BY <4>1, <4>2, <4>3, <3>5 DEF StdinInv
    <3>7. QED
      BY <3>2, <3>6
  <2>4. QED
    BY <1>13, <2>2, <2>3 DEF WriteBody
<1>14. ASSUME NEW r \in Requests, WriteNewline(r) PROVE Rest'
  <2>1. pc[r] = "newline" /\ hmu = r
    BY <1>14 DEF WriteNewline, WriteFails, Step, FrameInv, WriterInv, Writing
  <2>2. CASE WriteFails(r, "newline")
    <3>1. /\ ~Writable(r) /\ hmu' = None /\ wgen' = [wgen EXCEPT ![r] = 0]
          /\ pc' = [pc EXCEPT ![r] = "cleanup"] /\ UNCHANGED <<gen, alive, pipes, stdin>>
      BY <1>14, <2>2 DEF WriteNewline, WriteFails, Step
    <3>2. QED
      BY <2>1, <3>1, GivesUpLock DEF Writing
  <2>3. CASE Writable(r)
    <3>1. /\ stdin' = Append(stdin, NL) /\ hmu' = None /\ wgen' = [wgen EXCEPT ![r] = 0]
          /\ UNCHANGED <<gen, alive, pipes>>
          /\ pc' = [pc EXCEPT ![r] = IF r \in notes THEN "done" ELSE "wait"]
      BY <1>14, <2>3 DEF WriteNewline, WriteFails, Step
    <3>2. WriterInv'
      BY <1>b, <2>1, <2>3, <3>1 DEF FrameInv, WriterInv, Writing, Writable
    <3>3. /\ Len(stdin') = Len(stdin) + 1 /\ stdin'[Len(stdin) + 1] = NL
          /\ \A i \in 1..Len(stdin) : stdin'[i] = stdin[i]
      BY <1>a, <3>1, AppendType
    <3>4. /\ Len(stdin) > 0 /\ stdin[Len(stdin)] # NL
          /\ \A i \in 1..Len(stdin) : stdin[i] # NL => i = Len(stdin) \/ stdin[i+1] = NL
      BY <1>a, <2>1, <2>3 DEF FrameInv, StdinInv
    <3>5. \A q \in Requests : pc'[q] # "newline"
      BY <1>b, <2>1, <3>1, <3>2 DEF WriterInv, Writing
    <3>6. StdinInv'
      <4>0. Len(stdin) \in Nat /\ \A i \in 1..Len(stdin) : stdin[i] = NL => i > 1 /\ stdin[i-1] # NL
        BY <1>a DEF FrameInv, StdinInv
      <4>1. ASSUME NEW i \in 1..Len(stdin'), stdin'[i] = NL PROVE i > 1 /\ stdin'[i-1] # NL
        <5>1. CASE i = Len(stdin) + 1
          BY <4>0, <5>1, <3>3, <3>4
        <5>2. CASE i \in 1..Len(stdin)
          <6>1. i > 1 /\ stdin[i-1] # NL /\ i - 1 \in 1..Len(stdin)
            BY <4>0, <4>1, <5>2, <3>3
          <6>2. QED
            BY <6>1, <3>3
        <5>3. QED
          BY <4>0, <5>1, <5>2, <3>3
      <4>2. ASSUME NEW i \in 1..Len(stdin'), stdin'[i] # NL
            PROVE  i < Len(stdin') /\ stdin'[i+1] = NL
        <5>1. i \in 1..Len(stdin) /\ stdin[i] # NL
          BY <4>0, <4>2, <3>3
        <5>2. CASE i = Len(stdin)
          BY <4>0, <5>2, <3>3
        <5>3. CASE stdin[i+1] = NL /\ i # Len(stdin)
          <6>1. i + 1 \in 1..Len(stdin)
            BY <4>0, <5>1, <5>3
          <6>2. QED
            BY <4>0, <5>1, <5>3, <6>1, <3>3
        <5>4. QED
          BY <5>1, <5>2, <5>3, <3>4
      <4>3. QED
        BY <4>1, <4>2, <3>5 DEF StdinInv
    <3>7. QED
      BY <3>2, <3>6
  <2>4. QED
    BY <1>14, <2>2, <2>3 DEF WriteNewline
<1>15. ASSUME ProcessRead PROVE Rest'
  <2>1. /\ Len(stdin) >= 2 /\ stdin[2] = NL /\ stdin' = Tail(Tail(stdin)) /\ alive
        /\ UNCHANGED <<gen, alive, pipes, hmu, pc, wgen>>
    BY <1>15 DEF ProcessRead
  <2>2. WriterInv'
    BY <2>1 DEF FrameInv, WriterInv
  <2>3. /\ Len(stdin') = Len(stdin) - 2
        /\ \A i \in 1..(Len(stdin) - 2) : stdin'[i] = stdin[i+2]
    BY <1>a, <2>1, DropType
  <2>4. \A q : Writable(q)' <=> Writable(q)
    BY <2>1 DEF Writable
  <2>5. \A i \in 1..Len(stdin') : stdin'[i] = NL => i > 1 /\ stdin'[i-1] # NL
    BY <1>a, <2>1, <2>3 DEF FrameInv, StdinInv
  <2>6. \A i \in 1..Len(stdin') : stdin'[i] # NL =>
          \/ i < Len(stdin') /\ stdin'[i+1] = NL
          \/ i = Len(stdin') /\ hmu = stdin'[i] /\ pc[stdin'[i]] = "newline" /\ Writable(stdin'[i])
    BY <1>a, <2>1, <2>3 DEF FrameInv, StdinInv
  <2>7. \A r \in Requests : pc[r] = "newline" /\ Writable(r) =>
          Len(stdin') > 0 /\ stdin'[Len(stdin')] = r
    BY <1>a, <2>1, <2>3 DEF FrameInv, StdinInv
  <2>8. QED
    BY <2>1, <2>2, <2>4, <2>5, <2>6, <2>7 DEF StdinInv
<1>16. ASSUME ProcessExit PROVE Rest'
  <2>1. alive' = FALSE /\ stdin' = <<>> /\ UNCHANGED <<gen, pipes, hmu, pc, wgen>>
    BY <1>16 DEF ProcessExit
  <2>2. QED
    BY <2>1, EmptySeq DEF FrameInv, WriterInv, StdinInv, Writable
<1>17. ASSUME ManagerClears PROVE Rest'
  <2>1. /\ alive = FALSE /\ pipes' = FALSE /\ UNCHANGED <<gen, alive, stdin, hmu, pc, wgen>>
    BY <1>0, <1>17 DEF ManagerClears, TypeOK
  <2>2. stdin' = <<>>
    BY <2>1 DEF FrameInv, WriterInv
  <2>3. QED
    BY <2>1, <2>2, EmptySeq DEF FrameInv, WriterInv, StdinInv, Writable
<1>18. ASSUME ManagerRestarts PROVE Rest'
  <2>1. /\ pipes = FALSE /\ gen' = gen + 1 /\ alive' = TRUE /\ pipes' = TRUE
        /\ UNCHANGED <<stdin, hmu, pc, wgen>>
    BY <1>0, <1>18 DEF ManagerRestarts, TypeOK
  <2>2. stdin' = <<>>
    BY <1>0, <2>1 DEF FrameInv, WriterInv, TypeOK
  <2>3. \A r \in Requests : wgen[r] \in Int /\ wgen[r] <= gen /\ ~Writable(r)'
    BY <1>b, <2>1 DEF FrameInv, WriterInv, Writable
  <2>4. WriterInv'
    BY <1>b, <2>1, <2>3 DEF FrameInv, WriterInv
  <2>5. StdinInv'
    BY <2>2, <2>3, EmptySeq DEF StdinInv
  <2>6. QED
    BY <2>4, <2>5
<1>19. ASSUME UNCHANGED vars PROVE Rest'
  BY <1>19, FrameKept DEF vars
<1>20. Rest'
  BY <1>1, <1>2, <1>3, <1>4, <1>5, <1>6, <1>7, <1>8, <1>9, <1>10, <1>11, <1>12,
     <1>13, <1>14, <1>15, <1>16, <1>17, <1>18, <1>19
     DEF Next, ReadLoop, Process, Post, Handle
<1>21. QED
  BY <1>0, <1>20 DEF FrameInv

(* Concurrent handlers and failed writes never break the framing of the    *)
(* subprocess's stdin: each message is followed by its own newline.        *)
THEOREM FramesNeverBreak == Spec => []FramesWhole
<1>1. FrameInv => FramesWhole
  BY DEF FrameInv, TypeOK, StdinInv, FramesWhole
<1>2. FrameInv /\ [Next]_vars => FrameInv'
  BY FrameStep
<1>3. QED
  BY <1>1, <1>2, FrameInit, PTL DEF Spec

(* With ids of their own the clients are always answered with their own    *)
(* responses: what ResponseIsOwn claims for all fails only where two       *)
(* requests share an id (handler.go:511-547).                              *)
THEOREM OwnIdsOwnResponses ==
  ASSUME \A r, q \in Requests : IdOf[r] = IdOf[q] => r = q
  PROVE  Spec => []ResponseIsOwn
<1>1. ResponseMatches => ResponseIsOwn
  BY DEF ResponseMatches, ResponseIsOwn
<1>2. QED
  BY <1>1, ResponsesMatch, PTL

-----------------------------------------------------------------------------
(* The read loop that found no stdout never comes back: the flag it left   *)
(* set keeps every later POST from starting one, whatever the process      *)
(* manager does (handler.go:457-467, 473-481).                             *)
LatchStays == [][rl = "gone" => rl' = "gone" /\ started']_vars

LatchInv == rl \in LoopPcs /\ started \in BOOLEAN /\ (rl # "off" => started)

LEMMA LatchStep == LatchInv /\ [Next]_vars => LatchInv' /\ (rl = "gone" => rl' = "gone" /\ started')
<1> SUFFICES ASSUME LatchInv, [Next]_vars PROVE LatchInv' /\ (rl = "gone" => rl' = "gone" /\ started')
  OBVIOUS
<1>1. CASE UNCHANGED <<rl, started>>
  BY <1>1 DEF LatchInv
<1>2. CASE ReadLoop
  BY <1>2 DEF ReadLoop, LoopBegin, LoopRead, LoopSend, LoopError, LatchInv, LoopPcs
<1>3. CASE Process
  BY <1>1, <1>3 DEF Process, ProcessRead, ProcessExit, ManagerClears, ManagerRestarts, ManagerGivesUp, ProcessAnswer, loopVars
<1>4. ASSUME NEW r \in Requests, Post(r) PROVE LatchInv' /\ (rl = "gone" => rl' = "gone" /\ started')
  <2>1. CASE HandlePost(r)
    BY <2>1 DEF HandlePost, ensureReadLoop, LatchInv, LoopPcs
  <2>2. CASE Handle(r) \/ GiveUpWaiting(r)
    BY <1>1, <2>2 DEF Handle, Register, WriteLock, WriteBody, WriteNewline, ReceiveResponse, Cleanup, GiveUpWaiting,
                      WriteFails, loopVars
  <2>3. QED
    BY <1>4, <2>1, <2>2 DEF Post
<1>5. QED
  BY <1>1, <1>2, <1>3, <1>4 DEF Next, vars, loopVars

(* Once lost, the read loop is lost for good: no response of any later     *)
(* generation of the subprocess is routed (handler.go:457-467, 473-481).   *)
THEOREM LostLoopStaysLost == Spec => LatchStays
<1>1. Init => LatchInv
  BY DEF Init, LatchInv, LoopPcs
<1>2. QED
  BY <1>1, LatchStep, PTL DEF Spec, LatchStays

-----------------------------------------------------------------------------
(* Why a response answers one POST at most.  A request is in one place at  *)
(* a time: on stdin, in the subprocess, on stdout, in the reader's buffer, *)
(* in the read loop's hands, or in the channel of one handler, where it    *)
(* stays.  Only a message that was not yet written is nowhere.             *)
Written == Elems(stdin) \ {NL}
Moving == IF rl = "send" THEN {rmsg} ELSE {}
Held == {chan[r] : r \in Requests} \ {None}

Distinct(s) == \A i, j \in 1..Len(s) : s[i] = s[j] /\ s[i] # NL => i = j

Apart ==
  /\ Written \cap (inside \cup Elems(stdout) \cup Elems(rbuf) \cup Moving \cup Held) = {}
  /\ inside \cap (Elems(stdout) \cup Elems(rbuf) \cup Moving \cup Held) = {}
  /\ Elems(stdout) \cap (Elems(rbuf) \cup Moving \cup Held) = {}
  /\ Elems(rbuf) \cap (Moving \cup Held) = {}
  /\ Moving \cap Held = {}

Alone ==
  /\ Distinct(stdin) /\ Distinct(stdout) /\ Distinct(rbuf)
  /\ \A r, q \in Requests : chan[r] = chan[q] /\ chan[r] # None => r = q

Unsent == Fresh \cap (Written \cup inside \cup Elems(stdout) \cup Elems(rbuf) \cup Moving \cup Held) = {}

PlaceInv == Apart /\ Alone /\ Unsent

(* A POST is answered when its handler leaves the wait, and with what its  *)
(* channel holds if it is a response.  That of a notification holds none.  *)
Open == {"idle", "register", "lock", "body", "newline", "wait"}
ResultInv ==
  /\ \A r \in Requests : pc[r] \in Open => result[r] = "none"
  /\ \A r \in Requests : result[r] \in Requests => result[r] = chan[r]
  /\ rl = "send" => rtarget \notin notes
  /\ \A r \in notes : chan[r] = None

LEMMA ElemsAppend ==
  ASSUME NEW S, NEW q \in Seq(S), NEW e \in S
  PROVE  /\ Elems(Append(q, e)) = Elems(q) \cup {e}
         /\ Distinct(q) /\ (e = NL \/ e \notin Elems(q)) => Distinct(Append(q, e))
<1>1. /\ Len(q) \in Nat /\ Len(Append(q, e)) = Len(q) + 1 /\ Append(q, e)[Len(q) + 1] = e
      /\ \A i \in 1..Len(q) : Append(q, e)[i] = q[i]
  BY AppendType, LenProperties
<1>2. 1..Len(q) + 1 = (1..Len(q)) \cup {Len(q) + 1}
  BY <1>1
<1>3. Elems(Append(q, e)) = Elems(q) \cup {e}
  BY <1>1, <1>2 DEF Elems
<1>4. ASSUME Distinct(q), e = NL \/ e \notin Elems(q), NEW i \in 1..Len(q) + 1, NEW j \in 1..Len(q) + 1,
             Append(q, e)[i] = Append(q, e)[j], Append(q, e)[i] # NL
      PROVE  i = j
  <2>1. CASE i \in 1..Len(q) /\ j \in 1..Len(q)
    BY <1>1, <1>4, <2>1 DEF Distinct
  <2>2. CASE i = Len(q) + 1 /\ j \in 1..Len(q)
    BY <1>1, <1>4, <2>2 DEF Elems
  <2>3. CASE i \in 1..Len(q) /\ j = Len(q) + 1
    BY <1>1, <1>4, <2>3 DEF Elems
  <2>4. QED
    BY <1>2, <1>4, <2>1, <2>2, <2>3
<1>5. QED
  BY <1>1, <1>3, <1>4 DEF Distinct

LEMMA ElemsTail ==
  ASSUME NEW S, NEW q \in Seq(S), q # <<>>
  PROVE  /\ Elems(q) = {Head(q)} \cup Elems(Tail(q)) /\ Head(q) = q[1]
         /\ Distinct(q) => Distinct(Tail(q)) /\ (Head(q) # NL => Head(q) \notin Elems(Tail(q)))
<1>1. /\ Len(q) \in Nat /\ Len(Tail(q)) = Len(q) - 1 /\ \A i \in 1..Len(Tail(q)) : Tail(q)[i] = q[i+1]
      /\ Head(q) = q[1] /\ 1 \in 1..Len(q)
  BY TailType, HeadType, LenProperties
<1>2. /\ \A i \in 1..Len(Tail(q)) : i + 1 \in 1..Len(q) /\ i + 1 # 1
      /\ \A i \in 1..Len(q) : i # 1 => i - 1 \in 1..Len(Tail(q)) /\ i - 1 + 1 = i
      /\ \A i, j \in 1..Len(Tail(q)) : i + 1 = j + 1 => i = j
  BY <1>1
<1>3. Elems(q) \subseteq {Head(q)} \cup Elems(Tail(q))
  <2> SUFFICES ASSUME NEW i \in 1..Len(q), i # 1 PROVE q[i] \in Elems(Tail(q))
    BY <1>1 DEF Elems
  <2>1. i - 1 \in 1..Len(Tail(q)) /\ Tail(q)[i - 1] = q[i]
    BY <1>1, <1>2
  <2>2. QED
    BY <2>1 DEF Elems
<1>4. {Head(q)} \cup Elems(Tail(q)) \subseteq Elems(q)
  BY <1>1, <1>2 DEF Elems
<1>5. Distinct(q) => Distinct(Tail(q))
  BY <1>1, <1>2 DEF Distinct
<1>6. Distinct(q) /\ Head(q) # NL => Head(q) \notin Elems(Tail(q))
  BY <1>1, <1>2 DEF Distinct, Elems
<1>7. QED
  BY <1>1, <1>3, <1>4, <1>5, <1>6

LEMMA ElemsPrefix ==
  ASSUME NEW S, NEW q \in Seq(S), NEW n \in 0..Len(q)
  PROVE  Elems(SubSeq(q, 1, n)) \subseteq Elems(q) /\ (Distinct(q) => Distinct(SubSeq(q, 1, n)))
<1>1. Len(SubSeq(q, 1, n)) = n /\ \A i \in 1..n : SubSeq(q, 1, n)[i] = q[i]
  BY PrefixType
<1>2. 1..n \subseteq 1..Len(q)
  BY LenProperties
<1>3. QED
  BY <1>1, <1>2 DEF Elems, Distinct

LEMMA ElemsEmpty == Elems(<<>>) = {} /\ Distinct(<<>>)
<1>1. 1..Len(<<>>) = {}
  BY EmptySeq
<1>2. QED
  BY <1>1 DEF Elems, Distinct

(* Steps by which nothing gets anywhere it was not.                        *)
LEMMA PlacesShrink ==
  ASSUME PlaceInv, Alone', Fresh' \subseteq Fresh,
         Written' \subseteq Written, inside' \subseteq inside, Elems(stdout)' \subseteq Elems(stdout),
         Elems(rbuf)' \subseteq Elems(rbuf), Moving' \subseteq Moving, Held' \subseteq Held
  PROVE  PlaceInv'
<1>1. Apart'
  BY DEF PlaceInv, Apart
<1>2. Unsent'
  BY DEF PlaceInv, Unsent
<1>3. QED
  BY <1>1, <1>2 DEF PlaceInv

(* What reads and writes no place leaves them as they are.                 *)
LEMMA SamePlaces ==
  ASSUME UNCHANGED <<stdin, stdout, rbuf, rmsg, chan>>, rl' = "send" <=> rl = "send"
  PROVE  /\ UNCHANGED <<Written, Elems(stdout), Elems(rbuf), Moving, Held>>
         /\ Alone' <=> Alone
  BY DEF Written, Moving, Held, Elems, Alone, Distinct

(* The line that the read loop takes leaves its buffer.                    *)
LEMMA LinePlace ==
  ASSUME TypeOK, PlaceInv, TakeLine
  PROVE  /\ NextLine \in Elems(stdout) \cup Elems(rbuf) /\ NextLine \notin Elems(stdout)' \cup Elems(rbuf)'
         /\ Elems(stdout)' \subseteq Elems(stdout) /\ Elems(rbuf)' \subseteq Elems(rbuf)
         /\ Distinct(stdout)' /\ Distinct(rbuf)'
<1>1. /\ rbuf \in Seq(Requests) /\ stdout \in Seq(Requests) /\ NL \notin Requests
      /\ Distinct(stdout) /\ Distinct(rbuf) /\ Elems(stdout) \cap Elems(rbuf) = {}
  BY RouterAssumption DEF TypeOK, PlaceInv, Apart, Alone
<1>2. CASE rbuf # <<>> /\ rbuf' = Tail(rbuf) /\ UNCHANGED stdout
  <2>1. /\ Elems(rbuf) = {Head(rbuf)} \cup Elems(rbuf)' /\ Distinct(rbuf)' /\ Head(rbuf) \notin Elems(rbuf)'
        /\ Elems(stdout)' = Elems(stdout) /\ Distinct(stdout)'
    <3>1. Head(rbuf) # NL
      BY <1>1, <1>2, TailType
    <3>2. QED
      BY <1>1, <1>2, <3>1, ElemsTail
  <2>2. NextLine = Head(rbuf)
    BY <1>2 DEF NextLine
  <2>3. QED
    BY <1>1, <2>1, <2>2
<1>3. CASE rbuf = <<>> /\ stdout # <<>> /\ stdout' = Tail(stdout) /\ UNCHANGED rbuf
  <2>1. /\ Elems(stdout) = {Head(stdout)} \cup Elems(stdout)' /\ Distinct(stdout)' /\ Head(stdout) \notin Elems(stdout)'
        /\ Elems(rbuf)' = Elems(rbuf) /\ Distinct(rbuf)'
    <3>1. Head(stdout) # NL
      BY <1>1, <1>3, TailType
    <3>2. QED
      BY <1>1, <1>3, <3>1, ElemsTail
  <2>2. NextLine = Head(stdout)
    BY <1>3 DEF NextLine
  <2>3. QED
    BY <1>1, <2>1, <2>2
<1>4. QED
  BY <1>2, <1>3 DEF TakeLine

(* What PostService sees of the places.                                    *)
LEMMA Transit ==
  /\ InTransit = (Written \ notes) \cup inside \cup Elems(stdout) \cup Elems(rbuf) \cup Moving \cup Received
  /\ InTransit' = (Written' \ notes') \cup inside' \cup Elems(stdout)' \cup Elems(rbuf)' \cup Moving' \cup Received'
  /\ Received \subseteq Held
  BY DEF InTransit, Written, Moving, Received, Held

(* A handler's step that answers nothing and writes nothing.               *)
LEMMA Advances ==
  ASSUME TypeOK, PlaceInv, ResultInv, NEW r \in Requests, NEW to, pc' = [pc EXCEPT ![r] = to],
         (to \in {"idle", "register", "lock", "body"}) <=> (pc[r] \in {"idle", "register", "lock", "body"}),
         to \in Open => pc[r] \in Open,
         UNCHANGED <<notes, stdin, inside, stdout, rbuf, rmsg, rtarget, chan, result>>, rl' = "send" <=> rl = "send"
  PROVE  PlaceInv' /\ ResultInv' /\ Service!Lose
<1>1. UNCHANGED <<Written, Elems(stdout), Elems(rbuf), Moving, Held>> /\ Alone'
  BY SamePlaces DEF PlaceInv
<1>2. Fresh' = Fresh /\ Received' = Received
  BY DEF TypeOK, Fresh, Received
<1>3. PlaceInv'
  BY <1>1, <1>2, PlacesShrink
<1>4. ResultInv'
  BY DEF TypeOK, ResultInv
<1>5. InTransit' \subseteq InTransit
  BY <1>1, <1>2, Transit
<1>6. QED
  BY <1>2, <1>3, <1>4, <1>5 DEF Service!Lose

(* ... that answers an error.                                              *)
LEMMA Refuses ==
  ASSUME TypeOK, PlaceInv, ResultInv, NEW r \in Requests, NEW to \in {"cleanup", "done"},
         pc[r] \in Open, pc' = [pc EXCEPT ![r] = to], Answer(r, "error"),
         UNCHANGED <<notes, stdin, inside, stdout, rbuf, rmsg, rtarget, chan>>, rl' = "send" <=> rl = "send"
  PROVE  PlaceInv' /\ ResultInv' /\ Service!Refuse(r)
<1>1. UNCHANGED <<Written, Elems(stdout), Elems(rbuf), Moving, Held>> /\ Alone'
  BY SamePlaces DEF PlaceInv
<1>2. Fresh' = Fresh \ {r}
  BY DEF TypeOK, Fresh
<1>3. result[r] = "none" /\ result' = [result EXCEPT ![r] = "error"]
  BY DEF ResultInv, Answer
<1>4. Received' \subseteq Received
  BY <1>3 DEF TypeOK, Received
<1>5. PlaceInv'
  BY <1>1, <1>2, PlacesShrink
<1>6. ResultInv'
  BY <1>3, RouterAssumption DEF TypeOK, ResultInv, Open
<1>7. InTransit' \subseteq InTransit
  BY <1>1, <1>4, Transit
<1>8. QED
  BY <1>2, <1>3, <1>5, <1>6, <1>7 DEF Service!Refuse, Service!Answer

(* Each step of a handler is one that PostService allows.                  *)
LEMMA HandlerStep ==
  ASSUME RouteInv, LatchInv, PlaceInv, ResultInv, NEW r \in Requests, Post(r)
  PROVE  PlaceInv' /\ ResultInv' /\ [Service!Next]_Service!service
<1>0. TypeOK /\ Travelling /\ Routed
  BY DEF RouteInv
<1> USE DEF procVars, pipeVars, loopVars, postVars
<1> DEFINE Goal == PlaceInv' /\ ResultInv' /\ (Service!Lose \/ Service!Refuse(r) \/ Service!Send(r)
                                                \/ Service!Accept(r) \/ (chan[r] \in Requests /\ Service!Respond(r, chan[r])))
<1> SUFFICES Goal
  BY DEF Service!Next
<1>1. CASE HandlePost(r)
  <2>1. /\ pc[r] = "idle" /\ UNCHANGED <<notes, stdin, inside, stdout, rbuf, rmsg, rtarget, chan>>
        /\ rl' = "send" <=> rl = "send"
    BY <1>1 DEF HandlePost, Step, ensureReadLoop, LatchInv
  <2>2. CASE pc' = [pc EXCEPT ![r] = "done"] /\ Answer(r, "error")
    BY <1>0, <2>1, <2>2, Refuses DEF Open
  <2>3. CASE pc' = [pc EXCEPT ![r] = "register"] /\ UNCHANGED result
    BY <1>0, <2>1, <2>3, Advances DEF Open
  <2>4. CASE pc' = [pc EXCEPT ![r] = "lock"] /\ UNCHANGED result
    BY <1>0, <2>1, <2>4, Advances DEF Open
  <2>5. QED
    BY <1>1, <2>2, <2>3, <2>4 DEF HandlePost, Step
<1>2. CASE Register(r)
  BY <1>0, <1>2, Advances DEF Register, Step, Open
<1>3. CASE WriteLock(r)
  <2>1. pc[r] = "lock" /\ UNCHANGED <<notes, stdin, inside, stdout, rbuf, rl, rmsg, rtarget, chan>>
    BY <1>3 DEF WriteLock, Step
  <2>2. CASE pc' = [pc EXCEPT ![r] = "cleanup"] /\ Answer(r, "error")
    BY <1>0, <2>1, <2>2, Refuses DEF Open
  <2>3. CASE pc' = [pc EXCEPT ![r] = "body"] /\ UNCHANGED result
    BY <1>0, <2>1, <2>3, Advances DEF Open
  <2>4. QED
    BY <1>3, <2>2, <2>3 DEF WriteLock, Step
<1>4. CASE WriteBody(r)
  <2>1. pc[r] = "body" /\ UNCHANGED <<notes, inside, stdout, rbuf, rl, rmsg, rtarget, chan>>
    BY <1>4 DEF WriteBody, WriteFails, Step
  <2>2. CASE WriteFails(r, "body")
    BY <1>0, <2>1, <2>2, Refuses DEF WriteFails, Step, Open
  <2>3. CASE pc' = [pc EXCEPT ![r] = "newline"] /\ stdin' = Append(stdin, r) /\ UNCHANGED result
    <3>1. /\ r \in Fresh /\ Fresh' = Fresh \ {r} /\ r # NL /\ result[r] = "none"
      BY <1>0, <2>1, <2>3, RouterAssumption DEF TypeOK, Fresh, ResultInv, Open
    <3>2. /\ r \notin Written \cup inside \cup Elems(stdout) \cup Elems(rbuf) \cup Moving \cup Held
      BY <3>1 DEF PlaceInv, Unsent
    <3>3. stdin \in Seq(Requests \cup {NL}) /\ r \in Requests \cup {NL}
      BY <1>0 DEF TypeOK
    <3>4. Elems(stdin') = Elems(stdin) \cup {r} /\ Distinct(stdin')
      BY <2>3, <3>1, <3>2, <3>3, ElemsAppend DEF PlaceInv, Alone, Written
    <3>5. Written' = Written \cup {r}
      BY <3>1, <3>4 DEF Written, Elems
    <3>6. UNCHANGED <<inside, Elems(stdout), Elems(rbuf), Moving, Held, Received>>
      BY <2>1, <2>3 DEF Elems, Moving, Held, Received
    <3>7. Apart'
      BY <3>2, <3>5, <3>6 DEF PlaceInv, Apart
    <3>8. Alone'
      BY <2>1, <3>4 DEF PlaceInv, Alone, Distinct
    <3>9. Unsent'
      BY <3>1, <3>5, <3>6 DEF PlaceInv, Unsent
    <3>10. ResultInv'
      BY <1>0, <2>1, <2>3 DEF TypeOK, ResultInv, Open
    <3>11. InTransit' = InTransit \cup ({r} \ notes)
      BY <2>1, <3>5, <3>6, Transit
    <3>12. Service!Send(r)
      BY <2>1, <2>3, <3>1, <3>11 DEF Service!Send
    <3>13. QED
      BY <3>7, <3>8, <3>9, <3>10, <3>12 DEF PlaceInv
  <2>4. QED
    BY <1>4, <2>2, <2>3 DEF WriteBody, Step
<1>5. CASE WriteNewline(r)
  <2>1. pc[r] = "newline" /\ UNCHANGED <<notes, inside, stdout, rbuf, rl, rmsg, rtarget, chan>>
    BY <1>5 DEF WriteNewline, WriteFails, Step
  <2>2. CASE WriteFails(r, "newline")
    BY <1>0, <2>1, <2>2, Refuses DEF WriteFails, Step, Open
  <2>3. CASE stdin' = Append(stdin, NL) /\ ~WriteFails(r, "newline")
    <3>1. /\ pc' = [pc EXCEPT ![r] = IF r \in notes THEN "done" ELSE "wait"]
          /\ IF r \in notes THEN Answer(r, "accepted") ELSE UNCHANGED result
      BY <1>5, <2>3 DEF WriteNewline, Step
    <3>2. /\ Fresh' = Fresh /\ r \notin Fresh /\ result[r] = "none"
      BY <1>0, <2>1, <3>1 DEF TypeOK, Fresh, ResultInv, Open
    <3>3. stdin \in Seq(Requests \cup {NL}) /\ NL \in Requests \cup {NL}
      BY <1>0 DEF TypeOK
    <3>4. Elems(stdin') = Elems(stdin) \cup {NL} /\ Distinct(stdin')
      BY <2>3, <3>3, ElemsAppend DEF PlaceInv, Alone
    <3>5. Written' = Written
      BY <3>4 DEF Written, Elems
    <3>6. UNCHANGED <<inside, Elems(stdout), Elems(rbuf), Moving, Held>>
      BY <2>1, <2>3 DEF Elems, Moving, Held
    <3>7. Alone'
      BY <2>1, <3>4 DEF PlaceInv, Alone, Distinct
    <3>8. PlaceInv'
      BY <3>2, <3>5, <3>6, <3>7, PlacesShrink
    <3>9. ResultInv'
      <4>1. \A q \in Requests : pc'[q] \in Open => pc[q] \in Open /\ (q # r \/ r \notin notes)
        BY <1>0, <2>1, <3>1 DEF TypeOK, Open
      <4>2. CASE r \in notes
        <5>1. \A q \in Requests : IF q = r THEN result'[q] = "accepted" ELSE result'[q] = result[q]
          BY <1>0, <3>1, <4>2 DEF TypeOK, Answer
        <5>2. "accepted" \notin Requests
          BY RouterAssumption
        <5>3. QED
          BY <2>1, <4>1, <4>2, <5>1, <5>2 DEF ResultInv
      <4>3. CASE r \notin notes
        BY <2>1, <3>1, <4>1, <4>3 DEF ResultInv
      <4>4. QED
        BY <4>2, <4>3
    <3>10. CASE r \in notes
      <4>1. Received' = Received
        <5>1. chan[r] = None
          BY <3>10 DEF ResultInv
        <5>2. QED
          BY <1>0, <2>1, <3>1, <3>10, <5>1 DEF TypeOK, Received, Answer
      <4>2. InTransit' = InTransit
        BY <2>1, <3>5, <3>6, <4>1, Transit
      <4>3. Service!Accept(r)
        BY <2>1, <3>1, <3>2, <3>10, <4>2 DEF Service!Accept, Service!Answer, Answer
      <4>4. QED
        BY <3>8, <3>9, <4>3
    <3>11. CASE r \notin notes
      <4>1. Received' = Received
        BY <2>1, <3>1, <3>11 DEF Received
      <4>2. InTransit' \subseteq InTransit
        BY <2>1, <3>5, <3>6, <4>1, Transit
      <4>3. Service!Lose
        BY <2>1, <3>1, <3>2, <3>11, <4>2 DEF Service!Lose
      <4>4. QED
        BY <3>8, <3>9, <4>3
    <3>12. QED
      BY <3>10, <3>11
  <2>4. QED
    BY <1>5, <2>2, <2>3 DEF WriteNewline
<1>6. CASE ReceiveResponse(r)
  <2>1. /\ chan[r] # None /\ pc[r] = "wait" /\ pc' = [pc EXCEPT ![r] = "cleanup"]
        /\ result' = [result EXCEPT ![r] = chan[r]]
        /\ UNCHANGED <<notes, stdin, inside, stdout, rbuf, rl, rmsg, rtarget, chan>>
    BY <1>6 DEF ReceiveResponse, Step, Answer
  <2>2. /\ r \notin notes /\ r \notin Fresh /\ Fresh' = Fresh /\ result[r] = "none"
    BY <1>0, <2>1 DEF TypeOK, Travelling, Fresh, ResultInv, Open
  <2>3. chan[r] \in Requests \ notes /\ IdOf[chan[r]] = IdOf[r] /\ chan[r] # "none"
    BY <1>0, <2>1, RouterAssumption DEF Routed, Matched
  <2>4. UNCHANGED <<Written, inside, Elems(stdout), Elems(rbuf), Moving, Held>> /\ Alone'
    BY <2>1, SamePlaces DEF PlaceInv
  <2>5. PlaceInv'
    BY <2>2, <2>4, PlacesShrink
  <2>6. ResultInv'
    BY <1>0, <2>1 DEF TypeOK, ResultInv, Open
  <2>7. Received' = Received \ {chan[r]} /\ chan[r] \in Received
    <3>1. \A q \in Requests : chan[q] = chan[r] => q = r
      BY <2>1 DEF PlaceInv, Alone
    <3>2. \A q \in Requests : result'[q] = "none" <=> (q # r /\ result[q] = "none")
      BY <1>0, <2>1, <2>3 DEF TypeOK
    <3>3. QED
      BY <2>1, <2>2, <3>1, <3>2 DEF Received
  <2>8. chan[r] \notin Written \cup inside \cup Elems(stdout) \cup Elems(rbuf) \cup Moving
    BY <2>1 DEF PlaceInv, Apart, Held
  <2>9. InTransit' = InTransit \ {chan[r]} /\ chan[r] \in InTransit
    BY <2>1, <2>4, <2>7, <2>8, Transit
  <2>10. Service!Respond(r, chan[r])
    BY <2>1, <2>2, <2>3, <2>9 DEF Service!Respond, Service!Answer
  <2>11. QED
    BY <2>3, <2>5, <2>6, <2>10
<1>7. CASE Cleanup(r)
  BY <1>0, <1>7, Advances DEF Cleanup, Step, Open
<1>8. CASE GiveUpWaiting(r)
  BY <1>0, <1>8, Refuses DEF GiveUpWaiting, Step, Open
<1>9. QED
  BY <1>1, <1>2, <1>3, <1>4, <1>5, <1>6, <1>7, <1>8 DEF Post, Handle

(* Each step of the read loop moves a response on or drops it.             *)
LEMMA LoopStep ==
  ASSUME RouteInv, PlaceInv, ResultInv, ReadLoop
  PROVE  PlaceInv' /\ ResultInv' /\ Service!Lose
<1>0. TypeOK /\ Travelling /\ PendingRequests /\ Routed
  BY DEF RouteInv
<1>1. UNCHANGED <<notes, pc, result, stdin, inside, Fresh, Written>>
  BY DEF ReadLoop, LoopBegin, LoopRead, LoopSend, LoopError, pipeVars, postVars, Fresh, Written, Elems
<1>2. CASE LoopBegin \/ LoopError
  <2>1. UNCHANGED <<stdout, rbuf, rmsg, rtarget, chan>> /\ rl # "send" /\ rl' # "send"
    BY <1>2 DEF LoopBegin, LoopError, pipeVars
  <2>2. UNCHANGED <<Elems(stdout), Elems(rbuf), Moving, Held>> /\ Alone' /\ Received' = Received
    BY <1>1, <2>1, SamePlaces DEF PlaceInv, Received
  <2>3. PlaceInv'
    BY <1>1, <2>2, PlacesShrink
  <2>4. ResultInv'
    BY <1>1, <2>1 DEF ResultInv
  <2>5. InTransit' \subseteq InTransit
    BY <1>1, <2>2, Transit
  <2>6. QED
    BY <1>1, <2>3, <2>4, <2>5 DEF Service!Lose
<1>3. CASE LoopRead
  <2>1. /\ TakeLine /\ rl = "reading" /\ chan' = chan
        /\ \/ UNCHANGED <<rl, rmsg, rtarget>>
           \/ /\ rl' = "send" /\ rmsg' = NextLine /\ rtarget' = pending[IdOf[NextLine]]
              /\ pending[IdOf[NextLine]] # None
    BY <1>3 DEF LoopRead
  <2>2. /\ NextLine \in Elems(stdout) \cup Elems(rbuf) /\ NextLine \notin Elems(stdout)' \cup Elems(rbuf)'
        /\ Elems(stdout)' \subseteq Elems(stdout) /\ Elems(rbuf)' \subseteq Elems(rbuf)
        /\ Distinct(stdout)' /\ Distinct(rbuf)'
    BY <1>0, <2>1, LinePlace
  <2>3. Moving = {} /\ Moving' \subseteq {NextLine} /\ Held' = Held /\ Received' = Received
    BY <1>1, <2>1 DEF Moving, Held, Received
  <2>4. Alone'
    BY <1>1, <2>1, <2>2 DEF PlaceInv, Alone, Distinct
  <2>5. Apart' /\ Unsent'
    BY <1>1, <2>2, <2>3 DEF PlaceInv, Apart, Unsent
  <2>6. ResultInv'
    <3>1. rl' = "send" => rtarget' \notin notes
      <4>1. NextLine \in Requests
        BY <1>0, <2>1, LineTaken
      <4>2. IdOf[NextLine] \in Ids
        BY <4>1, RouterAssumption
      <4>3. QED
        BY <1>0, <2>1, <4>2 DEF PendingRequests
    <3>2. QED
      BY <1>1, <2>1, <3>1 DEF ResultInv
  <2>7. InTransit' \subseteq InTransit
    BY <1>1, <2>2, <2>3, Transit
  <2>8. QED
    BY <1>1, <2>4, <2>5, <2>6, <2>7 DEF PlaceInv, Service!Lose
<1>4. CASE LoopSend
  <2>1. /\ rl = "send" /\ rl' = "reading" /\ UNCHANGED <<stdout, rbuf>>
        /\ chan' = IF chan[rtarget] = None THEN [chan EXCEPT ![rtarget] = rmsg] ELSE chan
    BY <1>4 DEF LoopSend, pipeVars
  <2>2. /\ rtarget \in Requests \ notes /\ rmsg \in Requests /\ rmsg # None
    BY <1>0, <2>1 DEF TypeOK, ResultInv, Routed, Matched
  <2>3. /\ UNCHANGED <<Elems(stdout), Elems(rbuf), Distinct(stdin), Distinct(stdout), Distinct(rbuf)>>
        /\ Moving = {rmsg} /\ Moving' = {} /\ rmsg \notin Held
    BY <1>1, <2>1 DEF Elems, Distinct, Moving, PlaceInv, Apart
  <2>4. CASE chan[rtarget] # None
    <3>1. UNCHANGED <<chan, Held, Received>>
      BY <1>1, <2>1, <2>4 DEF Held, Received
    <3>2. Alone'
      BY <2>3, <3>1 DEF PlaceInv, Alone
    <3>3. PlaceInv'
      BY <1>1, <2>3, <3>1, <3>2, PlacesShrink
    <3>4. ResultInv'
      BY <1>1, <2>1, <3>1 DEF ResultInv
    <3>5. InTransit' \subseteq InTransit
      BY <1>1, <2>3, <3>1, Transit
    <3>6. QED
      BY <1>1, <3>3, <3>4, <3>5 DEF Service!Lose
  <2>5. CASE chan[rtarget] = None
    <3>1. \A q \in Requests : chan'[q] = IF q = rtarget THEN rmsg ELSE chan[q]
      BY <1>0, <2>1, <2>5 DEF TypeOK
    <3>2. Held' = Held \cup {rmsg}
      BY <2>2, <2>5, <3>1 DEF Held
    <3>3. Received' \subseteq Received \cup {rmsg}
      BY <1>1, <3>1 DEF Received
    <3>4. \A q \in Requests : chan[q] # rmsg
      BY <2>2, <2>3 DEF Held
    <3>5. Alone'
      BY <2>3, <3>1, <3>4 DEF PlaceInv, Alone
    <3>6. Apart' /\ Unsent'
      BY <1>1, <2>3, <3>2 DEF PlaceInv, Apart, Unsent
    <3>7. ResultInv'
      <4>1. result[rtarget] \notin Requests
        BY <2>2, <2>5, RouterAssumption DEF ResultInv
      <4>2. \A q \in notes : chan'[q] = None
        BY <1>0, <2>2, <3>1, RouterAssumption DEF TypeOK, ResultInv
      <4>3. QED
        BY <1>1, <2>1, <3>1, <4>1, <4>2 DEF ResultInv
    <3>8. InTransit' \subseteq InTransit
      BY <1>1, <2>3, <3>3, Transit
    <3>9. QED
      BY <1>1, <3>5, <3>6, <3>7, <3>8 DEF PlaceInv, Service!Lose
  <2>6. QED
    BY <2>4, <2>5
<1>5. QED
  BY <1>2, <1>3, <1>4 DEF ReadLoop

(* Each step of the subprocess and its manager too.                        *)
LEMMA ProcessStep ==
  ASSUME RouteInv, PlaceInv, ResultInv, Process
  PROVE  PlaceInv' /\ ResultInv' /\ Service!Lose
<1>0. TypeOK
  BY DEF RouteInv
<1> USE DEF pipeVars, loopVars, postVars
<1>1. UNCHANGED <<notes, pc, result, rl, rmsg, rtarget, chan, Fresh, Moving, Held, Received>>
  BY DEF Process, ProcessRead, ProcessExit, ManagerClears, ManagerRestarts, ManagerGivesUp, ProcessAnswer,
         Fresh, Moving, Held, Received
<1>2. ResultInv'
  BY <1>1 DEF ResultInv
<1>3. stdin \in Seq(Requests \cup {NL}) /\ stdout \in Seq(Requests) /\ NL \notin Requests
  BY <1>0, RouterAssumption DEF TypeOK
<1>4. SUFFICES PlaceInv' /\ InTransit' \subseteq InTransit
  BY <1>1, <1>2 DEF Service!Lose
<1>5. CASE ProcessRead
  <2>1. /\ Len(stdin) >= 2 /\ stdin[2] = NL /\ stdin' = Tail(Tail(stdin))
        /\ inside' = inside \cup ({stdin[1]} \ (notes \cup {NL})) /\ UNCHANGED <<stdout, rbuf>>
    BY <1>5 DEF ProcessRead
  <2>2. /\ stdin # <<>> /\ Elems(stdin) = {stdin[1]} \cup Elems(Tail(stdin)) /\ Distinct(Tail(stdin))
        /\ stdin[1] # NL => stdin[1] \notin Elems(Tail(stdin))
    BY <1>3, <2>1, EmptySeq, ElemsTail DEF PlaceInv, Alone
  <2>3. /\ Tail(stdin) \in Seq(Requests \cup {NL}) /\ Tail(stdin) # <<>>
    <3>1. Tail(stdin) \in Seq(Requests \cup {NL}) /\ Len(Tail(stdin)) = Len(stdin) - 1 /\ Len(stdin) \in Nat
      BY <1>3, <2>2, TailType, LenProperties
    <3>2. Len(Tail(stdin)) # 0
      BY <2>1, <3>1
    <3>3. QED
      BY <3>1, <3>2, EmptySeq
  <2>4. Elems(Tail(stdin)) = {Head(Tail(stdin))} \cup Elems(stdin)' /\ Distinct(stdin)'
    BY <2>1, <2>2, <2>3, ElemsTail
  <2>5. Elems(stdin)' \subseteq Elems(stdin) /\ stdin[1] \in Elems(stdin)
        /\ (stdin[1] # NL => stdin[1] \notin Elems(stdin)')
    BY <2>2, <2>4
  <2>6. /\ Written' \subseteq Written /\ (stdin[1] # NL => stdin[1] \in Written /\ stdin[1] \notin Written')
        /\ inside' \subseteq inside \cup ({stdin[1]} \ (notes \cup {NL}))
        /\ UNCHANGED <<Elems(stdout), Elems(rbuf), Distinct(stdout), Distinct(rbuf)>>
    BY <2>1, <2>5 DEF Written, Elems, Distinct
  <2>7. Alone'
    BY <1>1, <2>4, <2>6 DEF PlaceInv, Alone
  <2>8. Apart' /\ Unsent'
    BY <1>1, <2>6 DEF PlaceInv, Apart, Unsent
  <2>9. InTransit' \subseteq InTransit
    BY <1>1, <2>6, Transit
  <2>10. QED
    BY <2>7, <2>8, <2>9 DEF PlaceInv
<1>6. ASSUME NEW r \in Requests, ProcessAnswer(r) PROVE PlaceInv' /\ InTransit' \subseteq InTransit
  <2>1. r \in inside /\ inside' = inside \ {r} /\ stdout' = Append(stdout, r) /\ UNCHANGED <<stdin, rbuf>>
    BY <1>6 DEF ProcessAnswer
  <2>2. r \notin Elems(stdout)
    BY <2>1 DEF PlaceInv, Apart
  <2>3. Elems(stdout)' = Elems(stdout) \cup {r} /\ Distinct(stdout)'
    BY <1>3, <2>1, <2>2, ElemsAppend DEF PlaceInv, Alone
  <2>4. UNCHANGED <<Written, Elems(rbuf), Distinct(stdin), Distinct(rbuf)>>
    BY <2>1 DEF Written, Elems, Distinct
  <2>5. Alone'
    BY <1>1, <2>3, <2>4 DEF PlaceInv, Alone
  <2>6. Apart' /\ Unsent'
    BY <1>1, <2>1, <2>3, <2>4 DEF PlaceInv, Apart, Unsent
  <2>7. InTransit' \subseteq InTransit
    BY <1>1, <2>1, <2>3, <2>4, Transit
  <2>8. QED
    BY <2>5, <2>6, <2>7 DEF PlaceInv
<1>7. CASE ProcessExit
  <2>1. stdin' = <<>> /\ inside' = {} /\ UNCHANGED <<stdout, rbuf>>
    BY <1>7 DEF ProcessExit
  <2>2. /\ Written' = {} /\ Distinct(stdin)'
        /\ UNCHANGED <<Elems(stdout), Elems(rbuf), Distinct(stdout), Distinct(rbuf)>>
    BY <2>1, ElemsEmpty DEF Written, Elems, Distinct
  <2>3. Alone'
    BY <1>1, <2>2 DEF PlaceInv, Alone
  <2>4. PlaceInv'
    BY <1>1, <2>1, <2>2, <2>3, PlacesShrink
  <2>5. InTransit' \subseteq InTransit
    BY <1>1, <2>1, <2>2, Transit
  <2>6. QED
    BY <2>4, <2>5
<1>8. CASE ManagerClears
  <2>1. stdout' = <<>> /\ UNCHANGED <<stdin, inside>>
    BY <1>8 DEF ManagerClears
  <2>2. Elems(stdout)' = {} /\ Distinct(stdout)' /\ UNCHANGED <<Written, Distinct(stdin)>>
    BY <2>1, ElemsEmpty DEF Written, Elems, Distinct
  <2>3. Elems(rbuf)' \subseteq Elems(stdout) \cup Elems(rbuf) /\ Distinct(rbuf)'
    <3>1. CASE \E n \in 0..Len(stdout) : rbuf' = SubSeq(stdout, 1, n)
      BY <1>3, <3>1, ElemsPrefix DEF PlaceInv, Alone
    <3>2. CASE UNCHANGED rbuf
      BY <3>2 DEF Elems, Distinct, PlaceInv, Alone
    <3>3. QED
      BY <1>8, <3>1, <3>2 DEF ManagerClears
  <2>4. Alone'
    BY <1>1, <2>2, <2>3 DEF PlaceInv, Alone
  <2>5. Apart' /\ Unsent'
    BY <1>1, <2>1, <2>2, <2>3 DEF PlaceInv, Apart, Unsent
  <2>6. InTransit' \subseteq InTransit
    BY <1>1, <2>1, <2>2, <2>3, Transit
  <2>7. QED
    BY <2>4, <2>5, <2>6 DEF PlaceInv
<1>9. CASE ManagerRestarts \/ ManagerGivesUp
  <2>1. UNCHANGED <<stdin, inside, stdout, rbuf>>
    BY <1>9 DEF ManagerRestarts, ManagerGivesUp
  <2>2. UNCHANGED <<Written, Elems(stdout), Elems(rbuf)>> /\ Alone'
    BY <1>1, <2>1, SamePlaces DEF PlaceInv
  <2>3. PlaceInv'
    BY <1>1, <2>1, <2>2, PlacesShrink
  <2>4. InTransit' \subseteq InTransit
    BY <1>1, <2>1, <2>2, Transit
  <2>5. QED
    BY <2>3, <2>4
<1>10. QED
  BY <1>5, <1>6, <1>7, <1>8, <1>9 DEF Process

(* The handler keeps what PostService promises its clients: whatever       *)
(* requests share an id, time out or go under with the subprocess, a       *)
(* response answers one POST at most, which has its id and whose message   *)
(* the subprocess was given (handler.go:89-304, 507-547).                  *)
PostInv == RouteInv /\ LatchInv /\ PlaceInv /\ ResultInv

LEMMA PostInit == Init => PostInv
<1> SUFFICES ASSUME Init PROVE PostInv
  OBVIOUS
<1>1. RouteInv
  BY RouteInit
<1>2. LatchInv
  BY DEF Init, LatchInv, LoopPcs
<1>3. /\ Written = {} /\ inside = {} /\ Elems(stdout) = {} /\ Elems(rbuf) = {} /\ Moving = {} /\ Held = {}
      /\ Distinct(stdin) /\ Distinct(stdout) /\ Distinct(rbuf)
  BY ElemsEmpty DEF Init, Written, Moving, Held
<1>4. PlaceInv
  BY <1>3 DEF Init, PlaceInv, Apart, Alone, Unsent
<1>5. ResultInv
  BY RouterAssumption DEF Init, ResultInv
<1>6. QED
  BY <1>1, <1>2, <1>4, <1>5 DEF PostInv

LEMMA ServiceStep == PostInv /\ [Next]_vars => PostInv' /\ [Service!Next]_Service!service
<1> SUFFICES ASSUME PostInv, [Next]_vars PROVE PostInv' /\ [Service!Next]_Service!service
  OBVIOUS
<1> USE DEF PostInv
<1>1. RouteInv' /\ LatchInv'
  BY RouteStep, LatchStep
<1>2. CASE ReadLoop \/ Process
  BY <1>1, <1>2, LoopStep, ProcessStep DEF Service!Next
<1>3. ASSUME NEW r \in Requests, Post(r) PROVE PostInv' /\ [Service!Next]_Service!service
  BY <1>1, <1>3, HandlerStep
<1>4. CASE UNCHANGED vars
  <2>1. /\ UNCHANGED <<notes, stdin, inside, stdout, rbuf, rl, rmsg, rtarget, chan, pc, result>>
    BY <1>4 DEF vars, pipeVars, loopVars, postVars
  <2>2. /\ UNCHANGED <<Written, Elems(stdout), Elems(rbuf), Moving, Held, Fresh, Received>> /\ Alone'
    BY <2>1, SamePlaces DEF PlaceInv, Fresh, Received
  <2>3. PlaceInv'
    BY <2>1, <2>2, PlacesShrink
  <2>4. ResultInv'
    BY <2>1 DEF ResultInv
  <2>5. InTransit' = InTransit
    BY <2>1, <2>2, Transit
  <2>6. QED
    BY <1>1, <2>1, <2>2, <2>3, <2>4, <2>5 DEF Service!service
<1>5. QED
  BY <1>2, <1>3, <1>4 DEF Next

THEOREM KeepsPromise == Spec => Promise
<1>1. Init => Service!Init
  <2> SUFFICES ASSUME Init PROVE Service!Init
    OBVIOUS
  <2>1. InTransit = {}
    BY ElemsEmpty DEF Init, InTransit, Received
  <2>2. Fresh = Requests
    BY DEF Init, Fresh
  <2>3. notes \in SUBSET Requests
    BY RouterAssumption DEF Init
  <2>4. QED
    BY <2>1, <2>2, <2>3 DEF Init, Service!Init
<1>2. QED
  BY <1>1, PostInit, ServiceStep, PTL DEF Spec, Promise, Service!Spec

(* No two POSTs are answered with one response, though all that routes it  *)
(* is an id that several may share (handler.go:507-547): from Promise      *)
(* alone, since the response that answers a POST travels no more.          *)
AnsweredOnce == \A r, q \in Requests : result[r] \in Requests /\ result[r] = result[q] => r = q

UsedInv ==
  /\ AnsweredOnce
  /\ notes \subseteq Requests
  /\ result \in [Requests -> Requests \cup Outcomes]
  /\ \A r \in Requests : result[r] \in Requests => result[r] \notin Fresh \cup InTransit
  /\ Fresh \cap InTransit = {}

LEMMA UsedStep == UsedInv /\ [Service!Next]_Service!service => UsedInv'
<1> SUFFICES ASSUME UsedInv, [Service!Next]_Service!service PROVE UsedInv'
  OBVIOUS
<1>1. CASE Service!Lose
  BY <1>1 DEF Service!Lose, UsedInv, AnsweredOnce
<1>2. ASSUME NEW r \in Requests, Service!Send(r) PROVE UsedInv'
  BY <1>2 DEF Service!Send, UsedInv, AnsweredOnce
<1>3. ASSUME NEW r \in Requests, NEW res \in {"accepted", "error"}, Service!Answer(r, res),
             Fresh' \subseteq Fresh, InTransit' \subseteq InTransit, notes' = notes
      PROVE  UsedInv'
  <2>1. \A q \in Requests : IF q = r THEN result'[q] = res ELSE result'[q] = result[q]
    BY <1>3 DEF Service!Answer, UsedInv
  <2>2. res \in Outcomes /\ res \notin Requests
    BY RouterAssumption DEF Outcomes
  <2>3. result' \in [Requests -> Requests \cup Outcomes]
    BY <1>3, <2>2 DEF Service!Answer, UsedInv
  <2>4. QED
    BY <1>3, <2>1, <2>2, <2>3 DEF UsedInv, AnsweredOnce
<1>4. ASSUME NEW r \in Requests, NEW q \in Requests, Service!Respond(r, q) PROVE UsedInv'
  <2>1. /\ q \in InTransit /\ InTransit' = InTransit \ {q} /\ UNCHANGED <<notes, Fresh>>
        /\ result' = [result EXCEPT ![r] = q]
    BY <1>4 DEF Service!Respond, Service!Answer
  <2>2. \A p \in Requests : IF p = r THEN result'[p] = q ELSE result'[p] = result[p] /\ result[p] # q
    BY <2>1 DEF UsedInv
  <2>3. QED
    BY <2>1, <2>2 DEF UsedInv, AnsweredOnce
<1>5. CASE UNCHANGED Service!service
  BY <1>5 DEF Service!service, UsedInv, AnsweredOnce
<1>6. QED
  BY <1>1, <1>2, <1>3, <1>4, <1>5 DEF Service!Next, Service!Accept, Service!Refuse

THEOREM ResponsesAreUsedOnce == Spec => []AnsweredOnce
<1>1. Service!Init => UsedInv
  BY RouterAssumption DEF Service!Init, UsedInv, AnsweredOnce, Outcomes
<1>2. UsedInv => AnsweredOnce
  BY DEF UsedInv
<1>3. QED
  BY <1>1, <1>2, UsedStep, KeepsPromise, PTL DEF Promise, Service!Spec

-----------------------------------------------------------------------------
(* No answer is dropped on its way to a handler that waits for it, as far  *)
(* as its id is its own: what can go wrong is that the process ends, its   *)
(* pipes are cleared, or the handler gives up (handler.go:210-219,         *)
(* 507-547).  This is what AnswerArrives needs beside fairness.            *)
NoAnswerDropped ==
  [][\A r \in Requests : Unique(r) /\ pc[r] = "wait" /\ r \in InTransit /\ r \notin InTransit' =>
       result'[r] = r \/ ProcessExit \/ ManagerClears \/ GiveUpWaiting(r)]_vars

(* The handler of such a request is found under its id until it is done.   *)
EntryInv == \A r \in Requests \ notes : Unique(r) /\ pc[r] \in Registered => pending[IdOf[r]] = r

LEMMA EntryStep == RouteInv /\ EntryInv /\ [Next]_vars => EntryInv'
<1> SUFFICES ASSUME RouteInv, EntryInv, [Next]_vars PROVE EntryInv'
  OBVIOUS
<1>0. /\ pc \in [Requests -> PostPcs] /\ pending \in [Ids -> Requests \cup {None}] /\ notes \subseteq Requests
      /\ IdOf \in [Requests -> Ids] /\ \A r \in Requests : pc[r] = "register" => r \notin notes
  BY RouterAssumption DEF RouteInv, TypeOK, Travelling
<1> USE DEF procVars, pipeVars, loopVars, postVars
<1>1. ASSUME UNCHANGED <<notes, pending>>, \A r \in Requests \ notes : pc'[r] \in Registered => pc[r] \in Registered
      PROVE  EntryInv'
  BY <1>1 DEF EntryInv, Unique
<1>2. ASSUME NEW q \in Requests, Register(q) PROVE EntryInv'
  <2>1. /\ pc[q] = "register" /\ pc' = [pc EXCEPT ![q] = "lock"] /\ notes' = notes /\ q \notin notes
        /\ pending' = [pending EXCEPT ![IdOf[q]] = q]
    BY <1>0, <1>2 DEF Register, Step
  <2>2. ASSUME NEW r \in Requests \ notes, Unique(r), pc'[r] \in Registered PROVE pending'[IdOf[r]] = r
    <3>1. CASE r = q
      BY <1>0, <2>1, <3>1
    <3>2. CASE r # q
      <4>1. IdOf[q] # IdOf[r] /\ pc[r] \in Registered
        BY <1>0, <2>1, <2>2, <3>2 DEF Unique
      <4>2. pending[IdOf[r]] = r
        BY <2>2, <4>1 DEF EntryInv
      <4>3. QED
        BY <1>0, <2>1, <4>1, <4>2
    <3>3. QED
      BY <3>1, <3>2
  <2>3. QED
    BY <2>1, <2>2 DEF EntryInv, Unique
<1>3. ASSUME NEW q \in Requests, Cleanup(q) PROVE EntryInv'
  <2>1. /\ pc' = [pc EXCEPT ![q] = "done"] /\ notes' = notes
        /\ pending' = IF q \in notes THEN pending ELSE [pending EXCEPT ![IdOf[q]] = None]
    BY <1>3 DEF Cleanup, Step
  <2>2. ASSUME NEW r \in Requests \ notes, Unique(r), pc'[r] \in Registered PROVE pending'[IdOf[r]] = r
    <3>1. r # q /\ pc[r] \in Registered
      BY <1>0, <2>1, <2>2 DEF Registered
    <3>2. pending[IdOf[r]] = r /\ (q \notin notes => IdOf[q] # IdOf[r])
      BY <2>2, <3>1 DEF EntryInv, Unique
    <3>3. QED
      BY <1>0, <2>1, <3>2
  <2>3. QED
    BY <2>1, <2>2 DEF EntryInv, Unique
<1>4. ASSUME NEW q \in Requests, HandlePost(q) PROVE EntryInv'
  <2>1. UNCHANGED <<notes, pending>> /\ \E l \in {"done", "register", "lock"} :
          pc' = [pc EXCEPT ![q] = l] /\ (l = "lock" => q \in notes)
    BY <1>4 DEF HandlePost, Step
  <2>2. QED
    BY <1>0, <1>1, <2>1 DEF Registered
<1>5. ASSUME NEW q \in Requests,
             WriteLock(q) \/ WriteBody(q) \/ WriteNewline(q) \/ ReceiveResponse(q) \/ GiveUpWaiting(q)
      PROVE  EntryInv'
  <2>1. UNCHANGED <<notes, pending>> /\ pc[q] \in Registered /\ \E l \in PostPcs : pc' = [pc EXCEPT ![q] = l]
    BY <1>5 DEF WriteLock, WriteBody, WriteNewline, ReceiveResponse, GiveUpWaiting, WriteFails, Step, Registered, PostPcs
  <2>2. QED
    BY <1>0, <1>1, <2>1
<1>6. CASE ReadLoop \/ Process \/ UNCHANGED vars
  <2>1. UNCHANGED <<notes, pending, pc>>
    BY <1>6 DEF ReadLoop, LoopBegin, LoopRead, LoopSend, LoopError, Process, ProcessRead, ProcessExit, ManagerClears,
                ManagerRestarts, ManagerGivesUp, ProcessAnswer, vars
  <2>2. QED
    BY <1>1, <2>1
<1>7. QED
  BY <1>2, <1>3, <1>4, <1>5, <1>6 DEF Next, Post, Handle

LEMMA AnswerKept ==
  ASSUME PostInv, EntryInv, [Next]_vars, NEW r \in Requests, Unique(r), pc[r] = "wait", r \in InTransit
  PROVE  r \in InTransit' \/ result'[r] = r \/ ProcessExit \/ ManagerClears \/ GiveUpWaiting(r)
<1>0. /\ TypeOK /\ Travelling /\ Routed /\ PlaceInv /\ ResultInv /\ r \notin notes /\ result[r] = "none"
      /\ notes \subseteq Requests
  BY RouterAssumption DEF PostInv, RouteInv, Travelling, TypeOK, ResultInv, Open
<1> USE DEF procVars, pipeVars, loopVars, postVars
<1>1. r \in Written \cup inside \cup Elems(stdout) \cup Elems(rbuf) \cup Moving \/ chan[r] = r
  <2>1. ASSUME NEW q \in Requests, chan[q] = r PROVE q = r
    <3>1. q \notin notes /\ IdOf[q] = IdOf[r]
      BY <1>0, <2>1, RouterAssumption DEF Routed, Matched, ResultInv
    <3>2. QED
      BY <3>1 DEF Unique
  <2>2. QED
    BY <2>1, Transit DEF Received
<1>2. ASSUME notes' = notes, r \in Written' \cup inside' \cup Elems(stdout)' \cup Elems(rbuf)' \cup Moving'
      PROVE  r \in InTransit'
  BY <1>0, <1>2, Transit
<1>3. ASSUME chan'[r] = r, result'[r] = "none" PROVE r \in InTransit'
  BY <1>3, RouterAssumption DEF InTransit, Received
<1>4. ASSUME NEW q \in Requests, Post(q) PROVE r \in InTransit' \/ result'[r] = r \/ GiveUpWaiting(r)
  <2>1. /\ UNCHANGED <<notes, inside, stdout, rbuf, rmsg, chan>> /\ (rl = "send" => rl' = "send")
        /\ stdin' = stdin \/ \E e \in Requests \cup {NL} : stdin' = Append(stdin, e)
    BY <1>4 DEF PostInv, LatchInv, Post, Handle, HandlePost, ensureReadLoop, Register, WriteLock, WriteBody, WriteNewline,
                WriteFails, ReceiveResponse, Cleanup, GiveUpWaiting
  <2>2. Written \subseteq Written'
    <3>1. CASE stdin' = stdin
      BY <3>1 DEF Written, Elems
    <3>2. ASSUME NEW e \in Requests \cup {NL}, stdin' = Append(stdin, e) PROVE Written \subseteq Written'
      <4>1. stdin \in Seq(Requests \cup {NL})
        BY <1>0 DEF TypeOK
      <4>2. Elems(Append(stdin, e)) = Elems(stdin) \cup {e}
        BY <4>1, ElemsAppend
      <4>3. Elems(stdin)' = Elems(Append(stdin, e))
        BY <3>2 DEF Elems
      <4>4. QED
        BY <4>2, <4>3 DEF Written
    <3>3. QED
      BY <2>1, <3>1, <3>2
  <2>3. UNCHANGED <<Elems(stdout), Elems(rbuf)>> /\ Moving \subseteq Moving'
    BY <2>1 DEF Elems, Moving
  <2>4. CASE q = r
    <3>1. ReceiveResponse(r) \/ GiveUpWaiting(r)
      BY <1>4, <2>4 DEF Post, Handle, HandlePost, Register, WriteLock, WriteBody, WriteNewline, WriteFails, Cleanup, Step
    <3>2. CASE ReceiveResponse(r) /\ chan[r] = r
      BY <1>0, <3>2 DEF ReceiveResponse, Answer, TypeOK
    <3>3. QED
      BY <1>1, <1>2, <2>1, <2>2, <2>3, <3>1, <3>2
  <2>5. CASE q # r
    <3>1. result'[r] = result[r]
      <4>1. result' = result \/ \E res : Answer(q, res)
        BY <1>4 DEF Post, Handle, HandlePost, Register, WriteLock, WriteBody, WriteNewline, WriteFails,
                    ReceiveResponse, Cleanup, GiveUpWaiting
      <4>2. QED
        BY <1>0, <2>5, <4>1 DEF Answer, TypeOK
    <3>2. QED
      BY <1>0, <1>1, <1>2, <1>3, <2>1, <2>2, <2>3, <3>1
  <2>6. QED
    BY <2>4, <2>5
<1>5. CASE LoopRead
  <2>1. /\ TakeLine /\ UNCHANGED <<notes, stdin, inside, chan, result>> /\ rl = "reading"
        /\ IF pending[IdOf[NextLine]] = None THEN UNCHANGED <<rl, rmsg, rtarget>>
           ELSE rl' = "send" /\ rmsg' = NextLine
    BY <1>5 DEF LoopRead
  <2>2. r \in Elems(stdout)' \cup Elems(rbuf)' \/ r = NextLine \/ r \notin Elems(stdout) \cup Elems(rbuf)
    <3>1. rbuf \in Seq(Requests) /\ stdout \in Seq(Requests)
      BY <1>0 DEF TypeOK
    <3>2. CASE rbuf # <<>> /\ rbuf' = Tail(rbuf) /\ UNCHANGED stdout
      <4>1. Elems(rbuf) = {Head(rbuf)} \cup Elems(rbuf)' /\ Elems(stdout)' = Elems(stdout) /\ NextLine = Head(rbuf)
        BY <3>1, <3>2, ElemsTail DEF NextLine
      <4>2. QED
        BY <4>1
    <3>3. CASE rbuf = <<>> /\ stdout # <<>> /\ stdout' = Tail(stdout) /\ UNCHANGED rbuf
      <4>1. Elems(stdout) = {Head(stdout)} \cup Elems(stdout)' /\ Elems(rbuf)' = Elems(rbuf) /\ NextLine = Head(stdout)
        BY <3>1, <3>3, ElemsTail DEF NextLine
      <4>2. QED
        BY <4>1
    <3>4. QED
      BY <2>1, <3>2, <3>3 DEF TakeLine
  <2>3. r = NextLine => r \in Moving'
    <3>1. pending[IdOf[r]] = r /\ r # None
      BY <1>0, RouterAssumption DEF EntryInv, Registered
    <3>2. QED
      BY <2>1, <3>1 DEF Moving
  <2>4. Written' = Written /\ Moving = {}
    BY <2>1 DEF Written, Elems, Moving
  <2>5. QED
    BY <1>0, <1>1, <1>2, <1>3, <2>1, <2>2, <2>3, <2>4
<1>6. CASE LoopSend
  <2>1. /\ rl = "send" /\ UNCHANGED <<notes, stdin, inside, stdout, rbuf, result>>
        /\ chan' = IF chan[rtarget] = None THEN [chan EXCEPT ![rtarget] = rmsg] ELSE chan
    BY <1>6 DEF LoopSend
  <2>2. UNCHANGED <<Written, Elems(stdout), Elems(rbuf)>> /\ Moving = {rmsg}
    BY <2>1 DEF Written, Elems, Moving
  <2>3. CASE r = rmsg
    <3>1. rtarget \in Requests \ notes /\ IdOf[rtarget] = IdOf[r]
      BY <1>0, <2>1, <2>3 DEF TypeOK, ResultInv, Routed, Matched
    <3>2. rtarget = r
      BY <3>1 DEF Unique
    <3>3. chan[r] = None
      <4>1. r \notin Held
        BY <1>0, <2>2, <2>3 DEF PlaceInv, Apart
      <4>2. chan[r] # None => chan[r] \in Requests \ notes /\ IdOf[chan[r]] = IdOf[r]
        BY <1>0 DEF Routed, Matched
      <4>3. chan[r] # None => chan[r] = r
        BY <4>2 DEF Unique
      <4>4. QED
        BY <4>1, <4>3 DEF Held
    <3>4. chan'[r] = r
      BY <1>0, <2>1, <2>3, <3>2, <3>3 DEF TypeOK
    <3>5. QED
      BY <1>0, <1>3, <2>1, <3>4
  <2>4. CASE r # rmsg
    <3>1. chan[r] = r => chan'[r] = r
      BY <1>0, <2>1, RouterAssumption DEF TypeOK
    <3>2. QED
      BY <1>0, <1>1, <1>2, <1>3, <2>1, <2>2, <2>4, <3>1
  <2>5. QED
    BY <2>3, <2>4
<1>7. CASE LoopBegin \/ LoopError \/ ManagerRestarts \/ ManagerGivesUp \/ UNCHANGED vars
  <2>1. UNCHANGED <<notes, stdin, inside, stdout, rbuf, rmsg, chan, result>> /\ (rl = "send" => rl' = "send")
    BY <1>7 DEF LoopBegin, LoopError, ManagerRestarts, ManagerGivesUp, vars
  <2>2. UNCHANGED <<Written, Elems(stdout), Elems(rbuf)>> /\ Moving \subseteq Moving'
    BY <2>1 DEF Written, Elems, Moving
  <2>3. QED
    BY <1>0, <1>1, <1>2, <1>3, <2>1, <2>2
<1>8. CASE ProcessRead
  <2>1. /\ Len(stdin) >= 2 /\ stdin[2] = NL /\ stdin' = Tail(Tail(stdin))
        /\ inside' = inside \cup ({stdin[1]} \ (notes \cup {NL}))
        /\ UNCHANGED <<notes, stdout, rbuf, rl, rmsg, chan, result>>
    BY <1>8 DEF ProcessRead
  <2>2. r \in Written => r \in Written' \cup inside'
    <3>1. SUFFICES ASSUME r \in Written, r # stdin[1] PROVE r \in Written'
      BY <1>0, <2>1, RouterAssumption
    <3>2. stdin \in Seq(Requests \cup {NL}) /\ r # NL
      BY <1>0, <3>1 DEF TypeOK, Written
    <3>3. /\ Len(stdin) \in Nat /\ Len(stdin') = Len(stdin) - 2
          /\ \A i \in 1..(Len(stdin) - 2) : stdin'[i] = stdin[i+2]
      BY <2>1, <3>2, DropType, LenProperties
    <3>4. PICK i \in 1..Len(stdin) : stdin[i] = r
      BY <3>1 DEF Written, Elems
    <3>5. i # 1 /\ i # 2
      BY <2>1, <3>1, <3>2, <3>4
    <3>6. i - 2 \in 1..Len(stdin') /\ stdin'[i-2] = r
      BY <3>3, <3>4, <3>5
    <3>7. QED
      BY <3>2, <3>6 DEF Written, Elems
  <2>3. UNCHANGED <<Elems(stdout), Elems(rbuf), Moving>>
    BY <2>1 DEF Elems, Moving
  <2>4. QED
    BY <1>0, <1>1, <1>2, <1>3, <2>1, <2>2, <2>3
<1>9. ASSUME NEW q \in Requests, ProcessAnswer(q) PROVE r \in InTransit'
  <2>1. /\ inside' = inside \ {q} /\ stdout' = Append(stdout, q)
        /\ UNCHANGED <<notes, stdin, rbuf, rl, rmsg, chan, result>> /\ stdout \in Seq(Requests)
    BY <1>0, <1>9 DEF ProcessAnswer, TypeOK
  <2>2. Elems(stdout)' = Elems(stdout) \cup {q}
    <3>1. Elems(Append(stdout, q)) = Elems(stdout) \cup {q}
      BY <2>1, ElemsAppend
    <3>2. QED
      BY <2>1, <3>1 DEF Elems
  <2>3. UNCHANGED <<Written, Elems(rbuf), Moving>>
    BY <2>1 DEF Written, Elems, Moving
  <2>4. QED
    BY <1>0, <1>1, <1>2, <1>3, <2>1, <2>2, <2>3
<1>10. QED
  BY <1>4, <1>5, <1>6, <1>7, <1>8, <1>9 DEF Next, ReadLoop, Process

(* Only the end of its process or its own handler keeps a response from a  *)
(* handler that waits for it (handler.go:210-219, 507-547).                *)
THEOREM WaitersAreNotForgotten == Spec => NoAnswerDropped
<1>1. Init => EntryInv
  BY DEF Init, EntryInv, Registered
<1>2. PostInv /\ EntryInv /\ [Next]_vars => PostInv' /\ EntryInv'
  BY ServiceStep, EntryStep DEF PostInv
<1>3. PostInv /\ EntryInv /\ [Next]_vars =>
        [\A r \in Requests : Unique(r) /\ pc[r] = "wait" /\ r \in InTransit /\ r \notin InTransit' =>
           result'[r] = r \/ ProcessExit \/ ManagerClears \/ GiveUpWaiting(r)]_vars
  BY AnswerKept
<1>4. QED
  BY <1>1, <1>2, <1>3, PostInit, PTL DEF Spec, NoAnswerDropped

=============================================================================
