-------------------------- MODULE ClientBridgeProofs --------------------------
(***************************************************************************)
(* The bridge implements the promise LocalClient makes to the local client,*)
(* for any number of lines, retries, events and sessions and any capacity  *)
(* of the channels; and what follows from that promise for stdout.         *)
(***************************************************************************)
EXTENDS ClientBridge, SequenceTheorems, TLAPS

Kinds == {"request", "notification", "blank"}

(* What makes TakeMessage serve a later line than the one before: the      *)
(* channel holds lines that are not blank, in order, all after cur.        *)
BInv ==
  /\ kinds \in [Lines -> Kinds] /\ mode \in {"plain", "sse"}
  /\ got \in 0..N /\ cur \in 0..N /\ messages \in Seq(Lines)
  /\ \A i \in 1..Len(messages) : /\ cur < messages[i] /\ messages[i] <= got
                                 /\ kinds[messages[i]] # "blank"
                                 /\ reader = "send" => messages[i] < got
  /\ \A i, j \in 1..Len(messages) : i < j => messages[i] < messages[j]
  /\ cur <= got
  /\ reader = "send" => cur < got /\ got \in Lines /\ kinds[got] # "blank"
  /\ Busy => cur \in Lines
  /\ run = "write" => mode = "plain" /\ kinds[cur] = "request"
  /\ run = "events" => mode = "sse"

(* The variables of BInv that no step but the reader's and the taking of a *)
(* message changes.                                                        *)
still == <<kinds, mode, reader, got, messages, cur>>

-----------------------------------------------------------------------------
LEMMA BInvInit == Init => BInv
  BY BridgeAssumption, EmptySeq DEF Init, BInv, Kinds, Busy, Lines, BridgeAssumption

(* A step that leaves the reader, the channel and cur alone keeps BInv if  *)
(* it enters write and events only where they belong, and busy if busy.    *)
LEMMA BInvStill ==
  ASSUME BInv, UNCHANGED still, Busy' => Busy,
         run' = "write" => run = "write" \/ (mode = "plain" /\ kinds[cur] = "request"),
         run' = "events" => run = "events" \/ mode = "sse"
  PROVE  BInv'
  BY DEF BInv, still, Busy

(* The failure of a send never leads to write or events.                   *)
LEMMA SendFailsRun ==
  ASSUME NEW err \in Errors, SendFails(err)
  PROVE  run' \in {"stopped", "select", "backoff"}
  BY DEF SendFails, handleSendError, RetryFrom, GiveUp

LEMMA PostRun ==
  ASSUME Post
  PROVE  /\ run = "do" /\ UNCHANGED <<still, out>>
         /\ run' \in {"stopped", "select", "backoff", "pause", "write", "events"}
         /\ run' = "write" => mode = "plain" /\ kinds[cur] = "request"
         /\ run' = "events" => mode = "sse"
<1>1. run = "do" /\ UNCHANGED <<still, out>>
  BY DEF Post, still, config, stdinVars
<1>2. CASE Answered
  BY <1>1, <1>2 DEF Answered
<1>3. CASE Expired
  BY <1>1, <1>3, SendFailsRun DEF Expired, Errors
<1>4. CASE Lost
  BY <1>1, <1>4, SendFailsRun DEF Lost, Errors
<1>5. CASE Refused
  BY <1>1, <1>5, SendFailsRun DEF Refused, Errors
<1>6. QED  BY <1>2, <1>3, <1>4, <1>5 DEF Post

LEMMA StartSendRun ==
  ASSUME StartSend
  PROVE  /\ run = "send" /\ UNCHANGED <<still, out>>
         /\ run' \in {"do", "stopped", "select", "backoff"}
<1>1. run = "send" /\ UNCHANGED <<still, out>>
  BY DEF StartSend, still, config, stdinVars
<1>2. CASE SendFails("other")  BY <1>1, <1>2, SendFailsRun DEF Errors
<1>3. QED  BY <1>1, <1>2 DEF StartSend

LEMMA PauseRun ==
  ASSUME Pause
  PROVE  /\ run = "pause" /\ UNCHANGED <<still, out>>
         /\ run' \in {"do", "stopped", "select", "backoff"}
<1>1. run = "pause" /\ UNCHANGED <<still, out>>
  BY DEF Pause, still, config, stdinVars
<1>2. CASE SendFails("cancelled")  BY <1>1, <1>2, SendFailsRun DEF Errors
<1>3. QED  BY <1>1, <1>2 DEF Pause

LEMMA BackoffRun ==
  ASSUME Backoff
  PROVE  run = "backoff" /\ UNCHANGED <<still, out>> /\ run' \in {"send", "stopped"}
  BY DEF Backoff, GiveUp, still, config, stdinVars

LEMMA WriteReplyRun ==
  ASSUME WriteReply
  PROVE  /\ run = "write" /\ UNCHANGED still /\ run' = "select"
         /\ out' = out \/ out' = Append(out, cur)
  BY DEF WriteReply, WriteMessage, GiveUp, still, config, stdinVars

LEMMA NextEventRun ==
  ASSUME NextEvent
  PROVE  /\ run = "events" /\ UNCHANGED still /\ run' \in {"events", "select"}
         /\ \/ out' = out
            \/ out' = Append(out, cur) /\ kinds[cur] = "request" /\ run' = "events"
  BY DEF NextEvent, WriteMessage, GiveUp, still, config, stdinVars

(* The steps of everything else that moves.                                *)
Others == SetSessionID \/ Cancel \/ Close \/ ServerForgets \/ \E m \in Lines : Stream(m)

LEMMA OthersRun ==
  ASSUME Others
  PROVE  UNCHANGED <<still, run, out>>
<1>1. CASE SetSessionID  BY <1>1 DEF SetSessionID, still, config, stdinVars
<1>2. CASE Cancel  BY <1>2 DEF Cancel, still, config, stdinVars
<1>3. CASE Close  BY <1>3 DEF Close, still, config, stdinVars
<1>4. CASE ServerForgets  BY <1>4 DEF ServerForgets, still, config, stdinVars
<1>5. CASE \E m \in Lines : Stream(m)
  BY <1>5 DEF Stream, StreamRead, StreamSend, still, config, stdinVars
<1>6. QED  BY <1>1, <1>2, <1>3, <1>4, <1>5 DEF Others

-----------------------------------------------------------------------------
(* The reader's steps and the taking of a message.                         *)

LEMMA ReaderSendInv ==
  ASSUME BridgeAssumption, BInv, ReaderSend
  PROVE  BInv'
<1>1. UNCHANGED <<kinds, mode, got, cur, run>> /\ reader = "send" /\ reader' # "send"
  BY DEF ReaderSend, config
<1>2. CASE messages' = messages
  BY <1>1, <1>2 DEF BInv, Busy
<1>3. CASE messages' = Append(messages, got)
  <2>1. messages \in Seq(Lines) /\ got \in Lines /\ cur < got /\ kinds[got] # "blank"
    BY <1>1 DEF BInv
  <2>2. /\ messages' \in Seq(Lines) /\ Len(messages') = Len(messages) + 1
        /\ messages'[Len(messages) + 1] = got
        /\ \A i \in 1..Len(messages) : messages'[i] = messages[i]
    BY <1>3, <2>1, AppendProperties
  <2>3. Len(messages) \in Nat
    BY <2>1, LenProperties
  <2>4. \A i \in 1..Len(messages) : /\ cur < messages[i] /\ messages[i] < got
                                    /\ kinds[messages[i]] # "blank"
    BY <1>1 DEF BInv
  <2>5. \A i \in 1..Len(messages) : messages[i] \in Int
    BY <2>1, ElementOfSeq DEF Lines
  <2>10. got \in Int
    BY <2>1 DEF Lines
  <2>6. \A i \in 1..Len(messages') : /\ cur < messages'[i] /\ messages'[i] <= got
                                     /\ kinds[messages'[i]] # "blank"
    <3>1. TAKE i \in 1..Len(messages')
    <3>2. CASE i = Len(messages) + 1
      BY <2>1, <2>2, <3>2 DEF Lines
    <3>3. CASE i \in 1..Len(messages)
      <4>1. messages'[i] = messages[i]
        BY <2>2, <3>3
      <4>2. cur < messages[i] /\ messages[i] < got /\ kinds[messages[i]] # "blank"
        BY <2>4, <3>3
      <4>3. messages[i] <= got
        BY <2>5, <2>10, <3>3, <4>2
      <4>4. QED  BY <4>1, <4>2, <4>3
    <3>4. QED  BY <2>2, <2>3, <3>2, <3>3
  <2>7. \A i, j \in 1..Len(messages') : i < j => messages'[i] < messages'[j]
    <3>1. SUFFICES ASSUME NEW i \in 1..Len(messages'), NEW j \in 1..Len(messages'), i < j
                   PROVE  messages'[i] < messages'[j]
      OBVIOUS
    <3>2. i \in 1..Len(messages)
      BY <2>2, <2>3, <3>1
    <3>3. CASE j = Len(messages) + 1
      BY <2>2, <2>4, <3>2, <3>3
    <3>4. CASE j \in 1..Len(messages)
      BY <2>2, <3>1, <3>2, <3>4 DEF BInv
    <3>5. QED  BY <2>2, <2>3, <3>3, <3>4
  <2>8. QED  BY <1>1, <2>1, <2>2, <2>6, <2>7 DEF BInv, Busy
<1>4. QED  BY <1>2, <1>3 DEF ReaderSend

LEMMA ReaderReadInv ==
  ASSUME BridgeAssumption, BInv, ReaderRead
  PROVE  BInv'
<1>1. UNCHANGED <<kinds, mode, messages, cur, run>> /\ reader = "read"
  BY DEF ReaderRead, config
<1>2. CASE got' = got /\ reader' = "off"
  BY <1>1, <1>2 DEF BInv, Busy
<1>3. CASE got < N /\ got' = got + 1 /\ reader' = IF kinds[got + 1] = "blank" THEN "check" ELSE "send"
  <2>1. N \in Nat /\ got \in 0..N /\ cur \in 0..N /\ cur <= got /\ messages \in Seq(Lines)
    BY DEF BInv, BridgeAssumption
  <2>2. got' \in Lines /\ got' \in 0..N /\ cur < got' /\ cur <= got'
    BY <1>3, <2>1 DEF Lines
  <2>3. \A i \in 1..Len(messages) : messages[i] \in Int
    BY <2>1, ElementOfSeq DEF Lines
  <2>4. \A i \in 1..Len(messages) : messages[i] < got' /\ messages[i] <= got'
    BY <1>3, <2>1, <2>3 DEF BInv
  <2>5. reader' = "send" => kinds[got'] # "blank"
    BY <1>3
  <2>6. QED  BY <1>1, <2>2, <2>4, <2>5 DEF BInv, Busy
<1>4. QED  BY <1>2, <1>3 DEF ReaderRead

LEMMA TakeMessageInv ==
  ASSUME BridgeAssumption, BInv, TakeMessage
  PROVE  /\ BInv'
         /\ ~Busy /\ Busy' /\ cur < cur' /\ cur' \in Lines /\ kinds[cur'] # "blank"
         /\ UNCHANGED <<kinds, mode, out>>
<1>1. /\ UNCHANGED <<kinds, mode, got, reader, out>> /\ run = "select" /\ run' = "send"
      /\ messages # <<>> /\ cur' = Head(messages) /\ messages' = Tail(messages)
  BY DEF TakeMessage, config
<1>2. messages \in Seq(Lines)
  BY DEF BInv
<1>3. /\ Head(messages) = messages[1] /\ messages' \in Seq(Lines)
      /\ Len(messages) \in Nat /\ Len(messages) > 0 /\ Len(messages') = Len(messages) - 1
      /\ \A i \in 1..Len(messages') : messages'[i] = messages[i + 1]
  BY <1>1, <1>2, HeadTailProperties, LenProperties, EmptySeq
<1>4. cur' \in Lines
  BY <1>1, <1>2, <1>3, ElementOfSeq
<1>5. cur < cur' /\ kinds[cur'] # "blank" /\ cur' <= got /\ (reader = "send" => cur' < got)
  BY <1>1, <1>3 DEF BInv
<1>6. \A i \in 1..Len(messages') : i + 1 \in 1..Len(messages)
  BY <1>3
<1>7. \A i \in 1..Len(messages') : /\ cur' < messages'[i] /\ messages'[i] <= got
                                   /\ kinds[messages'[i]] # "blank"
                                   /\ reader = "send" => messages'[i] < got
  <2>1. TAKE i \in 1..Len(messages')
  <2>2. i + 1 \in 1..Len(messages) /\ messages'[i] = messages[i + 1] /\ 1 \in 1..Len(messages) /\ 1 < i + 1
    BY <1>3, <1>6
  <2>3. messages[1] < messages[i + 1]
    BY <2>2 DEF BInv
  <2>4. QED  BY <1>1, <1>3, <2>2, <2>3 DEF BInv
<1>8. \A i, j \in 1..Len(messages') : i < j => messages'[i] < messages'[j]
  <2>1. SUFFICES ASSUME NEW i \in 1..Len(messages'), NEW j \in 1..Len(messages'), i < j
                 PROVE  messages'[i] < messages'[j]
    OBVIOUS
  <2>2. i + 1 \in 1..Len(messages) /\ j + 1 \in 1..Len(messages) /\ i + 1 < j + 1
    BY <1>6, <2>1
  <2>3. messages[i + 1] < messages[j + 1]
    BY <2>2 DEF BInv
  <2>4. QED  BY <1>3, <2>3
<1>9. cur' \in 0..N
  BY <1>4 DEF Lines, BridgeAssumption
<1>10. BInv'
  BY <1>1, <1>3, <1>4, <1>5, <1>7, <1>8, <1>9 DEF BInv, Busy
<1>11. QED  BY <1>1, <1>4, <1>5, <1>10 DEF Busy

(* The steps that leave run, cur and stdout alone.                         *)
LEMMA ReaderInv ==
  ASSUME BridgeAssumption, BInv, Reader \/ RunStart \/ RunEnds
  PROVE  BInv' /\ UNCHANGED <<kinds, mode, cur, out>> /\ (Busy' <=> Busy)
<1>1. CASE ReaderCheck
  BY <1>1 DEF ReaderCheck, BInv, Busy, config
<1>2. CASE ReaderRead
  BY <1>2, ReaderReadInv DEF ReaderRead, Busy, config
<1>3. CASE ReaderSend
  BY <1>3, ReaderSendInv DEF ReaderSend, Busy, config
<1>4. CASE RunStart
  BY <1>4 DEF RunStart, BInv, Busy, config
<1>5. CASE RunEnds
  <2>1. UNCHANGED <<still, out>> /\ run = "select" /\ run' = "stopped"
    BY <1>5 DEF RunEnds, still, config, stdinVars
  <2>2. ~Busy /\ ~Busy'
    BY <2>1 DEF Busy
  <2>3. QED  BY <2>1, <2>2, BInvStill DEF still
<1>6. QED  BY <1>1, <1>2, <1>3, <1>4, <1>5 DEF Reader

-----------------------------------------------------------------------------
(* BInv is inductive, and each step is a step of LocalClient or changes    *)
(* nothing that LocalClient sees.                                          *)
LEMMA StepInv ==
  ASSUME BridgeAssumption, BInv, [Next]_vars
  PROVE  BInv' /\ [Client!Next]_Client!promise
<1> DEFINE Quiet == UNCHANGED <<kinds, mode, cur, out>> /\ (Busy' <=> Busy)
           Ends == UNCHANGED <<kinds, mode, cur, out>> /\ Busy /\ ~Busy'
<1>1. ASSUME Quiet PROVE [Client!Next]_Client!promise
  BY <1>1 DEF Client!promise
<1>2. ASSUME Ends PROVE [Client!Next]_Client!promise
  <2>1. cur # 0
    BY <1>2 DEF BInv, Lines
  <2>2. Client!Finish
    BY <1>2, <2>1 DEF Client!Finish
  <2>3. QED  BY <2>2 DEF Client!Next
<1> HIDE DEF Quiet, Ends
<1>3. ASSUME UNCHANGED <<still, out>>, run' \in {"stopped", "select", "backoff", "send", "do",
                                                 "pause", "write", "events"},
             run \in {"send", "do", "pause", "backoff"},
             run' = "write" => mode = "plain" /\ kinds[cur] = "request",
             run' = "events" => mode = "sse"
      PROVE  BInv' /\ [Client!Next]_Client!promise
  <2>1. Busy
    BY <1>3 DEF Busy
  <2>2. BInv'
    BY <1>3, <2>1, BInvStill
  <2>3. Quiet \/ Ends
    BY <1>3, <2>1 DEF still, Quiet, Ends
  <2>4. QED  BY <1>1, <1>2, <2>2, <2>3
<1>4. CASE Reader \/ RunStart \/ RunEnds
  BY <1>1, <1>4, ReaderInv DEF Quiet
<1>5. CASE TakeMessage
  <2>1. /\ BInv' /\ ~Busy /\ Busy' /\ cur < cur' /\ cur' \in Lines /\ kinds[cur'] # "blank"
        /\ UNCHANGED <<kinds, mode, out>>
    BY <1>5, TakeMessageInv
  <2>2. Client!Serve(cur')
    BY <2>1, BridgeAssumption DEF Client!Serve, BInv, Lines, BridgeAssumption
  <2>3. QED  BY <2>1, <2>2 DEF Client!Next, Client!Lines, Lines
<1>6. CASE StartSend  BY <1>3, <1>6, StartSendRun
<1>7. CASE Post  BY <1>3, <1>7, PostRun
<1>8. CASE Pause  BY <1>3, <1>8, PauseRun
<1>9. CASE Backoff  BY <1>3, <1>9, BackoffRun
<1>10. CASE WriteReply
  <2>1. /\ UNCHANGED still /\ run = "write" /\ run' = "select"
        /\ out' = out \/ out' = Append(out, cur)
    BY <1>10, WriteReplyRun
  <2>2. Busy /\ ~Busy'
    BY <2>1 DEF Busy
  <2>3. BInv'
    BY <2>1, <2>2, BInvStill
  <2>4. CASE out' = out
    <3>1. Ends  BY <2>1, <2>2, <2>4 DEF Ends, still
    <3>2. QED  BY <1>2, <2>3, <3>1
  <2>5. CASE out' = Append(out, cur)
    <3>1. mode = "plain" /\ kinds[cur] = "request" /\ cur # 0
      BY <2>1, <2>2 DEF BInv, Lines
    <3>2. Client!Reply
      BY <2>1, <2>2, <2>5, <3>1 DEF Client!Reply, still
    <3>3. QED  BY <2>3, <3>2 DEF Client!Next
  <2>6. QED  BY <2>1, <2>4, <2>5
<1>11. CASE NextEvent
  <2>1. /\ run = "events" /\ UNCHANGED still /\ run' \in {"events", "select"}
        /\ \/ out' = out
           \/ out' = Append(out, cur) /\ kinds[cur] = "request" /\ run' = "events"
    BY <1>11, NextEventRun
  <2>2. Busy /\ (Busy' <=> run' = "events")
    BY <2>1 DEF Busy
  <2>3. BInv'
    BY <2>1, <2>2, BInvStill
  <2>4. CASE out' = out
    <3>1. Ends \/ Quiet  BY <2>1, <2>2, <2>4 DEF Ends, Quiet, still
    <3>2. QED  BY <1>1, <1>2, <2>3, <3>1
  <2>5. CASE out' = Append(out, cur) /\ kinds[cur] = "request" /\ run' = "events"
    <3>1. mode # "plain" /\ cur # 0
      BY <2>1, <2>2 DEF BInv, Lines
    <3>2. Client!Reply
      BY <2>1, <2>2, <2>5, <3>1 DEF Client!Reply, still
    <3>3. QED  BY <2>3, <3>2 DEF Client!Next
  <2>6. QED  BY <2>1, <2>4, <2>5
<1>12. CASE Others
  <2>1. UNCHANGED <<still, run, out>>
    BY <1>12, OthersRun
  <2>2. Quiet
    BY <2>1 DEF Quiet, Busy, still
  <2>3. BInv'
    BY <2>1, <2>2, BInvStill DEF Quiet
  <2>4. QED  BY <1>1, <2>2, <2>3
<1>13. CASE UNCHANGED vars
  <2>1. UNCHANGED <<still, run, out>>
    BY <1>13 DEF vars, still, config, stdinVars
  <2>2. Quiet
    BY <2>1 DEF Quiet, Busy, still
  <2>3. BInv'
    BY <2>1, <2>2, BInvStill DEF Quiet
  <2>4. QED  BY <1>1, <2>2, <2>3
<1>14. QED
  BY <1>4, <1>5, <1>6, <1>7, <1>8, <1>9, <1>10, <1>11, <1>12, <1>13 DEF Next, Run, Others

(* Replies come in the order of the requests, none to a notification, and  *)
(* one to a request: the bridge implements LocalClient (client.go:132-334, *)
(* 384-425).                                                               *)
THEOREM KeepsPromise == Spec => Promise
<1>1. Init => Client!Init
  BY DEF Init, Client!Init, Client!Lines, Lines, Busy
<1>2. BridgeAssumption
  BY BridgeAssumption
<1>3. BInv /\ [Next]_vars => BInv'
  BY <1>2, StepInv
<1>4. BInv /\ [Next]_vars => [Client!Next]_Client!promise
  BY <1>2, StepInv
<1>5. QED  BY <1>1, <1>3, <1>4, BInvInit, PTL DEF Spec, Promise, Client!Spec

-----------------------------------------------------------------------------
(* What the promise means for stdout: what it replies to are requests, in  *)
(* their order, and in plain mode no two messages reply to the same one.   *)
RepliesInOrder ==
  /\ \A i \in 1..Len(out) : kinds[out[i]] = "request"
  /\ \A i, j \in 1..Len(out) : i < j => IF mode = "plain" THEN out[i] < out[j] ELSE out[i] <= out[j]

(* The line that is owed, as LocalClient sees it.                          *)
Owed == IF Busy THEN cur ELSE 0

OrderInv ==
  /\ kinds \in [Lines -> Kinds] /\ out \in Seq(Lines) /\ cur \in 0..N
  /\ Owed # 0 => cur \in Lines
  /\ \A i \in 1..Len(out) : out[i] <= cur /\ (mode = "plain" /\ Owed # 0 => out[i] < cur)
  /\ RepliesInOrder

LEMMA OrderStep ==
  ASSUME BridgeAssumption, OrderInv, [Client!Next]_Client!promise
  PROVE  OrderInv'
<1>1. N \in Nat /\ out \in Seq(Lines) /\ cur \in 0..N /\ Len(out) \in Nat
  BY LenProperties DEF OrderInv, BridgeAssumption
<1>2. \A i \in 1..Len(out) : out[i] \in Lines /\ out[i] \in Int
  BY <1>1, ElementOfSeq DEF Lines
<1>3. ASSUME NEW m \in Client!Lines, Client!Serve(m) PROVE OrderInv'
  <2>1. /\ Owed = 0 /\ m > cur /\ cur' = m /\ Owed' = m /\ UNCHANGED <<kinds, mode, out>>
        /\ m \in Lines /\ m \in 0..N
    BY <1>1, <1>3 DEF Client!Serve, Client!Lines, Lines, Owed
  <2>2. \A i \in 1..Len(out) : out[i] <= cur' /\ out[i] < cur'
    BY <1>1, <1>2, <2>1 DEF OrderInv
  <2>3. QED  BY <2>1, <2>2 DEF OrderInv, RepliesInOrder
<1>4. CASE Client!Finish
  <2>1. Owed' = 0 /\ UNCHANGED <<kinds, mode, cur, out>>
    BY <1>4 DEF Client!Finish, Owed
  <2>2. QED  BY <2>1 DEF OrderInv, RepliesInOrder
<1>5. CASE Client!Reply
  <2>1. /\ Owed # 0 /\ kinds[Owed] = "request" /\ out' = Append(out, Owed)
        /\ Owed' = (IF mode = "plain" THEN 0 ELSE Owed)
        /\ UNCHANGED <<kinds, mode, cur>>
    BY <1>5 DEF Client!Reply, Owed
  <2>2. Owed = cur /\ cur \in Lines
    BY <2>1 DEF Owed, OrderInv
  <2>3. /\ out' \in Seq(Lines) /\ Len(out') = Len(out) + 1 /\ out'[Len(out) + 1] = cur
        /\ \A i \in 1..Len(out) : out'[i] = out[i]
    BY <1>1, <2>1, <2>2, AppendProperties
  <2>4. \A i \in 1..Len(out') : /\ kinds[out'[i]] = "request" /\ out'[i] <= cur
    <3>1. TAKE i \in 1..Len(out')
    <3>2. CASE i = Len(out) + 1  BY <1>1, <2>1, <2>2, <2>3, <3>2
    <3>3. CASE i \in 1..Len(out)  BY <2>3, <3>3 DEF OrderInv, RepliesInOrder
    <3>4. QED  BY <1>1, <2>3, <3>2, <3>3
  <2>5. \A i, j \in 1..Len(out') : i < j => IF mode = "plain" THEN out'[i] < out'[j]
                                                              ELSE out'[i] <= out'[j]
    <3>1. SUFFICES ASSUME NEW i \in 1..Len(out'), NEW j \in 1..Len(out'), i < j
                   PROVE  IF mode = "plain" THEN out'[i] < out'[j] ELSE out'[i] <= out'[j]
      OBVIOUS
    <3>2. i \in 1..Len(out)  BY <1>1, <2>3, <3>1
    <3>3. CASE j = Len(out) + 1
      BY <2>1, <2>3, <3>2, <3>3 DEF OrderInv
    <3>4. CASE j \in 1..Len(out)
      BY <2>3, <3>1, <3>2, <3>4 DEF OrderInv, RepliesInOrder
    <3>5. QED  BY <1>1, <2>3, <3>3, <3>4
  <2>6. mode = "plain" => Owed' = 0
    BY <2>1
  <2>7. Owed' # 0 => cur' \in Lines
    BY <2>1, <2>2
  <2>8. RepliesInOrder'
    BY <2>1, <2>4, <2>5 DEF RepliesInOrder
  <2>9. QED  BY <2>1, <2>3, <2>4, <2>6, <2>7, <2>8 DEF OrderInv
<1>6. CASE UNCHANGED Client!promise
  <2>1. UNCHANGED <<kinds, mode, cur, out, Owed>>
    BY <1>6 DEF Client!promise, Owed
  <2>2. QED  BY <2>1 DEF OrderInv, RepliesInOrder
<1>7. QED  BY <1>3, <1>4, <1>5, <1>6 DEF Client!Next

(* A message on stdout replies to a request the local client wrote, in the *)
(* order it wrote them, and to none twice in plain mode, however often     *)
(* retries sent it (client.go:182-249, 384-425).                           *)
THEOREM StdoutInOrder == Spec => []RepliesInOrder
<1>1. Client!Init => OrderInv
  <2>1. SUFFICES ASSUME Client!Init PROVE OrderInv
    OBVIOUS
  <2>2. cur = 0 /\ out = <<>> /\ Owed = 0 /\ kinds \in [Lines -> Kinds]
    BY <2>1 DEF Client!Init, Client!Lines, Lines, Kinds, Owed
  <2>3. Len(out) = 0 /\ out \in Seq(Lines) /\ 1..Len(out) = {}
    BY <2>2, EmptySeq
  <2>4. QED  BY <2>2, <2>3, BridgeAssumption DEF OrderInv, RepliesInOrder, BridgeAssumption
<1>2. OrderInv /\ [Client!Next]_Client!promise => OrderInv'
  BY BridgeAssumption, OrderStep
<1>3. OrderInv => RepliesInOrder
  BY DEF OrderInv
<1>4. Promise => []RepliesInOrder
  BY <1>1, <1>2, <1>3, PTL DEF Promise, Client!Spec
<1>5. QED  BY <1>4, KeepsPromise, PTL
-----------------------------------------------------------------------------
(* Why the posts of a message are bounded.  Each attempt of retryMessage   *)
(* has a row of MaxRetries + 1 posts by doWithRetry: when attempt n sends, *)
(* n rows have been used up at most.                                       *)
Retrying == retries /\ mode = "plain"
Row(n) == n * (MaxRetries + 1)

SendType ==
  /\ mode \in {"plain", "sse"} /\ retries \in BOOLEAN /\ run \in RunPcs
  /\ attempt \in 0..MaxRetries /\ tries \in 0..MaxRetries + 1
  /\ sends \in Nat /\ faults \in Nat /\ gaveUp \in BOOLEAN

Once == attempt = 0 /\ run \notin {"pause", "backoff"} /\ sends <= 1 /\ (run \in {"send", "do"} => sends = 0)

Rows ==
  /\ sends <= Row(MaxRetries + 1)
  /\ run \in {"send", "backoff"} => sends <= Row(attempt)
  /\ run = "do" => sends < Row(attempt) + tries
  /\ run = "pause" => sends <= Row(attempt) + tries

PostsInv ==
  /\ SendType
  /\ run \in {"do", "pause"} => tries # 0
  /\ run = "pause" => tries <= MaxRetries
  /\ IF Retrying THEN Rows ELSE Once

LEMMA RowStep ==
  ASSUME NEW n \in Nat, n <= MaxRetries
  PROVE  /\ Row(n) \in Nat /\ Row(n + 1) \in Nat /\ Row(0) = 0
         /\ Row(n + 1) = Row(n) + MaxRetries + 1
         /\ Row(n + 1) <= Row(MaxRetries + 1)
<1>1. MaxRetries \in Nat
  BY BridgeAssumption DEF BridgeAssumption
<1>2. Row(n) \in Nat /\ Row(n + 1) \in Nat /\ Row(0) = 0 /\ Row(n + 1) = Row(n) + MaxRetries + 1
  BY <1>1 DEF Row
<1>3. Row(n + 1) <= Row(MaxRetries + 1)
  <2>1. \A a, b, m \in Nat : a <= b => a * m <= b * m
    OBVIOUS
  <2>2. QED
    BY <1>1, <2>1 DEF Row
<1>4. QED
  BY <1>2, <1>3

(* A send that fails uses up no more than its attempt's row.               *)
LEMMA FailPosts ==
  ASSUME PostsInv, NEW err \in Errors, SendFails(err), UNCHANGED <<mode, retries>>,
         tries' \in 0..MaxRetries + 1, sends' \in Nat,
         IF Retrying THEN sends' <= Row(attempt + 1) ELSE sends' <= 1
  PROVE  PostsInv'
<1>1. MaxRetries \in Nat /\ attempt \in Nat /\ attempt <= MaxRetries /\ sends' \in Nat
  BY BridgeAssumption DEF BridgeAssumption, PostsInv, SendType
<1>2. faults' \in Nat /\ UNCHANGED Retrying
  BY DEF SendFails, PostsInv, SendType, Retrying
<1>3. CASE GiveUp(err = "deadline") /\ UNCHANGED attempt
  <2>1. run' \in {"stopped", "select"} /\ gaveUp' = TRUE
    BY <1>3 DEF GiveUp
  <2>2. SendType' /\ run' \notin {"send", "do", "pause", "backoff"}
    BY <1>2, <1>3, <2>1 DEF PostsInv, SendType, RunPcs
  <2>3. IF Retrying THEN sends' <= Row(MaxRetries + 1) ELSE sends' <= 1
    BY <1>1, RowStep
  <2>4. QED
    BY <1>2, <1>3, <2>2, <2>3 DEF PostsInv, Rows, Once
<1>4. ASSUME Retrying, NEW s, RetryFrom(attempt + 1, s) PROVE PostsInv'
  <2>1. CASE attempt + 1 <= MaxRetries
    <3>1. run' = "backoff" /\ attempt' = attempt + 1 /\ UNCHANGED gaveUp
      BY <1>4, <2>1 DEF RetryFrom
    <3>2. SendType' /\ sends' <= Row(attempt') /\ sends' <= Row(MaxRetries + 1)
      BY <1>1, <1>2, <1>4, <2>1, <3>1, RowStep DEF PostsInv, SendType, RunPcs
    <3>3. QED
      BY <1>2, <1>4, <3>1, <3>2 DEF PostsInv, Rows
  <2>2. CASE attempt + 1 > MaxRetries
    <3>1. run' = "select" /\ gaveUp' = TRUE /\ UNCHANGED attempt
      BY <1>1, <1>4, <2>2 DEF RetryFrom, GiveUp
    <3>2. SendType' /\ sends' <= Row(MaxRetries + 1)
      BY <1>1, <1>2, <1>4, <3>1, RowStep DEF PostsInv, SendType, RunPcs
    <3>3. QED
      BY <1>2, <1>4, <3>1, <3>2 DEF PostsInv, Rows
  <2>3. QED
    BY <1>1, <2>1, <2>2
<1>5. Retrying \/ attempt = 0
  BY DEF PostsInv, Once
<1>6. QED
  BY <1>3, <1>4, <1>5 DEF SendFails, handleSendError, Retrying, PostsInv, SendType

LEMMA PostPosts == ASSUME PostsInv, Post PROVE PostsInv'
<1>1. /\ MaxRetries \in Nat /\ attempt \in Nat /\ attempt <= MaxRetries /\ tries \in 0..MaxRetries + 1
      /\ run = "do" /\ tries # 0 /\ sends \in Nat /\ sends' = sends + 1 /\ UNCHANGED <<mode, retries>>
  BY BridgeAssumption DEF BridgeAssumption, PostsInv, SendType, Post, config
<1>2. /\ sends' \in Nat
      /\ IF Retrying THEN sends' <= Row(attempt) + tries /\ sends' <= Row(attempt + 1) ELSE sends' <= 1
  BY <1>1, RowStep DEF PostsInv, Rows, Once
<1>3. CASE Answered
  <2>1. run' \in {"write", "select", "events"} /\ UNCHANGED <<attempt, tries, faults, gaveUp>>
    BY <1>3 DEF Answered
  <2>2. SendType' /\ UNCHANGED Retrying
    BY <1>1, <1>2, <2>1 DEF PostsInv, SendType, RunPcs, Retrying
  <2>3. Retrying => sends' <= Row(MaxRetries + 1)
    BY <1>1, <1>2, RowStep
  <2>4. QED
    BY <1>2, <2>1, <2>2, <2>3 DEF PostsInv, Rows, Once
<1>4. ASSUME NEW err \in Errors, SendFails(err), UNCHANGED tries PROVE PostsInv'
  BY <1>1, <1>2, <1>4, FailPosts
<1>5. CASE run' = "pause" /\ Retrying /\ tries <= MaxRetries /\ faults' = faults + 1
           /\ UNCHANGED <<attempt, gaveUp, tries>>
  <2>1. SendType' /\ UNCHANGED Retrying
    BY <1>1, <1>2, <1>5 DEF PostsInv, SendType, RunPcs, Retrying
  <2>2. sends' <= Row(MaxRetries + 1)
    BY <1>1, <1>2, <1>5, RowStep
  <2>3. QED
    BY <1>1, <1>2, <1>5, <2>1, <2>2 DEF PostsInv, Rows
<1>6. QED
  BY <1>3, <1>4, <1>5 DEF Post, Expired, Lost, Refused, Errors, Retrying

LEMMA PostsStep == PostsInv /\ [Next]_vars => PostsInv'
<1> SUFFICES ASSUME PostsInv, [Next]_vars PROVE PostsInv'
  OBVIOUS
<1>1. /\ MaxRetries \in Nat /\ attempt \in Nat /\ attempt <= MaxRetries /\ tries \in 0..MaxRetries + 1
      /\ sends \in Nat
  BY BridgeAssumption DEF BridgeAssumption, PostsInv, SendType
<1> DEFINE counters == <<mode, retries, attempt, tries, sends, faults>>
<1>2. ASSUME UNCHANGED counters, run' = run \/ run' \in {"select", "stopped"}, gaveUp' \in BOOLEAN
      PROVE  PostsInv'
  BY <1>2 DEF PostsInv, SendType, Rows, Once, Retrying, RunPcs
<1>3. CASE Reader \/ RunStart \/ RunEnds \/ Others \/ UNCHANGED vars
  <2>1. UNCHANGED counters /\ UNCHANGED gaveUp /\ (run' = run \/ run' \in {"select", "stopped"})
    BY <1>3 DEF Reader, ReaderCheck, ReaderRead, ReaderSend, RunStart, RunEnds, Others, SetSessionID, Cancel,
                Close, ServerForgets, Stream, StreamRead, StreamSend, vars, config, postVars
  <2>2. QED
    BY <1>2, <2>1 DEF PostsInv, SendType
<1>4. CASE TakeMessage
  <2>1. /\ UNCHANGED <<mode, retries>> /\ run' = "send" /\ attempt' = 0 /\ tries' = 0
        /\ sends' = 0 /\ faults' = 0 /\ gaveUp' = FALSE
    BY <1>4 DEF TakeMessage, config
  <2>2. SendType' /\ UNCHANGED Retrying
    <3>1. attempt' \in 0..MaxRetries /\ tries' \in 0..MaxRetries + 1 /\ sends' \in Nat /\ faults' \in Nat
      BY <1>1, <2>1
    <3>2. run' \in RunPcs /\ gaveUp' \in BOOLEAN
      BY <2>1 DEF RunPcs
    <3>3. UNCHANGED Retrying
      BY <2>1 DEF Retrying
    <3>4. QED
      BY <2>1, <3>1, <3>2, <3>3 DEF PostsInv, SendType
  <2>3. Row(0) = 0 /\ Row(MaxRetries + 1) \in Nat
    BY <1>1, RowStep
  <2>4. QED
    BY <2>1, <2>2, <2>3 DEF PostsInv, Rows, Once
<1>5. CASE StartSend
  <2>1. CASE run' = "do" /\ tries' = 1 /\ UNCHANGED <<mode, retries, attempt, faults, gaveUp, sends>> /\ run = "send"
    <3>1. SendType' /\ UNCHANGED Retrying
      BY <1>1, <2>1 DEF PostsInv, SendType, RunPcs, Retrying
    <3>2. Row(attempt) \in Nat
      BY <1>1, RowStep
    <3>3. QED
      BY <1>1, <2>1, <3>1, <3>2 DEF PostsInv, Rows, Once
  <2>2. CASE SendFails("other") /\ UNCHANGED <<mode, retries, tries, sends>> /\ run = "send"
    <3>1. IF Retrying THEN sends' <= Row(attempt + 1) ELSE sends' <= 1
      BY <1>1, <2>2, RowStep DEF PostsInv, Rows, Once
    <3>2. QED
      BY <1>1, <2>2, <3>1, FailPosts DEF Errors
  <2>3. QED
    BY <1>5, <2>1, <2>2 DEF StartSend, config
<1>6. CASE Post
  BY <1>6, PostPosts
<1>7. CASE Pause
  <2>1. run = "pause" /\ Retrying /\ sends <= Row(attempt) + tries /\ tries <= MaxRetries
    BY <1>7 DEF Pause, PostsInv, Once, Rows
  <2>2. CASE run' = "do" /\ tries' = tries + 1 /\ UNCHANGED <<mode, retries, attempt, faults, gaveUp, sends>>
    <3>1. SendType' /\ UNCHANGED Retrying
      BY <1>1, <2>1, <2>2 DEF PostsInv, SendType, RunPcs, Retrying
    <3>2. Row(attempt) \in Nat
      BY <1>1, RowStep
    <3>3. QED
      BY <1>1, <2>1, <2>2, <3>1, <3>2 DEF PostsInv, Rows
  <2>3. CASE SendFails("cancelled") /\ UNCHANGED <<mode, retries, tries, sends>>
    <3>1. sends' <= Row(attempt + 1)
      BY <1>1, <2>1, <2>3, RowStep
    <3>2. QED
      BY <1>1, <2>1, <2>3, <3>1, FailPosts DEF Errors
  <2>4. QED
    BY <1>7, <2>2, <2>3 DEF Pause, config
<1>8. CASE Backoff
  <2>1. CASE run = "backoff" /\ run' = "send" /\ UNCHANGED <<counters, gaveUp>>
    BY <2>1 DEF PostsInv, SendType, Rows, Once, Retrying, RunPcs
  <2>2. QED
    BY <1>2, <1>8, <2>1 DEF Backoff, GiveUp, config, postVars
<1>9. CASE WriteReply \/ NextEvent
  <2>1. UNCHANGED counters /\ (run' = run \/ run' \in {"select", "stopped"}) /\ gaveUp' \in BOOLEAN
    BY <1>9 DEF WriteReply, NextEvent, WriteMessage, GiveUp, config, postVars, PostsInv, SendType
  <2>2. QED
    BY <1>2, <2>1
<1>10. QED
  BY <1>3, <1>4, <1>5, <1>6, <1>7, <1>8, <1>9 DEF Next, Run, Others

LEMMA PostsInit == Init => PostsInv
<1> SUFFICES ASSUME Init PROVE PostsInv
  OBVIOUS
<1>1. SendType /\ run = "start" /\ attempt = 0 /\ sends = 0
  <2>1. 0 \in 0..MaxRetries /\ 0 \in 0..MaxRetries + 1
    BY BridgeAssumption DEF BridgeAssumption
  <2>2. run \in RunPcs /\ gaveUp \in BOOLEAN
    BY DEF Init, RunPcs
  <2>3. QED
    BY <2>1, <2>2 DEF Init, SendType
<1>2. 0 <= Row(MaxRetries + 1)
  BY RowStep, BridgeAssumption DEF BridgeAssumption
<1>3. QED
  BY <1>1, <1>2 DEF PostsInv, Rows, Once

(* The two loops of retries multiply and end: no message is posted more    *)
(* than (MaxRetries + 1)^2 times (transport.go:293, client.go:278).        *)
THEOREM PostsAreBounded == Spec => []PostsBounded
<1>1. ASSUME PostsInv PROVE PostsBounded
  BY <1>1 DEF PostsInv, Rows, Once, Retrying, Row, PostsBounded
<1>2. QED
  BY <1>1, PostsInit, PostsStep, PTL DEF Spec
LEMMA Posts == Spec => []PostsInv
BY PostsInit, PostsStep, PTL DEF Spec

-----------------------------------------------------------------------------
(* Why an expired session alone never costs a message: its first retry     *)
(* sends no id, so only another failure can stop it.                       *)
FaultInv ==
  /\ Retrying /\ attempt # 0 /\ faults = 0 /\ run \in {"send", "do", "pause", "backoff"} => sid = 0
  /\ ExpiryRecovers

LEMMA FailFaults ==
  ASSUME PostsInv, FaultInv, NEW err \in Errors, SendFails(err), UNCHANGED <<mode, retries, ctxDone, closing>>,
         run \in {"send", "do", "pause"}, err = "expired" => sid # 0
  PROVE  FaultInv'
<1>1. faults \in Nat /\ MaxRetries \in Nat
  BY BridgeAssumption DEF BridgeAssumption, PostsInv, SendType
<1>2. CASE err # "expired"
  <2>1. faults' > 0
    BY <1>1, <1>2 DEF SendFails
  <2>2. QED
    BY <2>1 DEF FaultInv, ExpiryRecovers
<1>3. CASE ~Retrying
  BY <1>3 DEF FaultInv, ExpiryRecovers, Retrying
<1>4. CASE err = "expired" /\ Retrying /\ attempt # 0
  <2>1. faults' > 0
    BY <1>1, <1>4 DEF FaultInv, SendFails
  <2>2. QED
    BY <2>1 DEF FaultInv, ExpiryRecovers
<1>5. CASE err = "expired" /\ Retrying /\ attempt = 0 /\ MaxRetries > 0
  <2>1. RetryFrom(1, 0) /\ UNCHANGED faults
    BY <1>5 DEF SendFails, handleSendError, Retrying
  <2>2. run' = "backoff" /\ sid' = 0 /\ UNCHANGED gaveUp
    <3>1. 1 <= MaxRetries
      BY <1>1, <1>5
    <3>2. QED
      BY <2>1, <3>1 DEF RetryFrom
  <2>3. QED
    BY <2>1, <2>2 DEF FaultInv, ExpiryRecovers, Retrying, Closed
<1>6. CASE err = "expired" /\ Retrying /\ attempt = 0 /\ ~(MaxRetries > 0)
  <2>1. ~(1 <= MaxRetries)
    BY <1>1, <1>6
  <2>2. RetryFrom(1, 0)
    BY <1>6 DEF SendFails, handleSendError, Retrying
  <2>3. run' \in {"select", "stopped"}
    BY <2>1, <2>2 DEF RetryFrom, GiveUp
  <2>4. QED
    BY <1>6, <2>3 DEF FaultInv, ExpiryRecovers
<1>7. QED
  BY <1>2, <1>3, <1>4, <1>5, <1>6

LEMMA FaultStep == PostsInv /\ FaultInv /\ [Next]_vars => FaultInv'
<1> SUFFICES ASSUME PostsInv, FaultInv, [Next]_vars PROVE FaultInv'
  OBVIOUS
<1>1. faults \in Nat /\ MaxRetries \in Nat
  BY BridgeAssumption DEF BridgeAssumption, PostsInv, SendType
<1> DEFINE known == <<mode, retries, attempt, faults, sid>>
           sending == {"send", "do", "pause", "backoff"}
<1>2. ASSUME UNCHANGED known, run' \in sending => run \in sending,
             gaveUp' => gaveUp \/ ctxDone' \/ Closed' \/ mode = "sse",
             ctxDone => ctxDone', Closed => Closed'
      PROVE  FaultInv'
  BY <1>2 DEF FaultInv, ExpiryRecovers, Retrying
<1>3. CASE Reader \/ RunStart \/ RunEnds \/ Others \/ UNCHANGED vars
  <2>1. /\ UNCHANGED known /\ UNCHANGED gaveUp /\ (run' = run \/ run' \in {"select", "stopped"})
        /\ (ctxDone => ctxDone') /\ (closing = "open" \/ closing' # "open")
    BY <1>3 DEF Reader, ReaderCheck, ReaderRead, ReaderSend, RunStart, RunEnds, Others, SetSessionID, Cancel,
                Close, ServerForgets, Stream, StreamRead, StreamSend, vars, config, postVars
  <2>2. QED
    BY <1>2, <2>1 DEF Closed
<1>4. CASE TakeMessage
  BY <1>4 DEF TakeMessage, FaultInv, ExpiryRecovers
<1>5. CASE StartSend
  <2>1. CASE run = "send" /\ run' = "do" /\ UNCHANGED <<known, gaveUp, ctxDone, closing>>
    BY <1>2, <2>1 DEF Closed
  <2>2. CASE SendFails("other") /\ run = "send" /\ UNCHANGED <<mode, retries, ctxDone, closing>>
    BY <2>2, FailFaults DEF Errors
  <2>3. QED
    BY <1>5, <2>1, <2>2 DEF StartSend, config
<1>6. CASE Post
  <2>1. run = "do" /\ UNCHANGED <<mode, retries, ctxDone, closing>>
    BY <1>6 DEF Post, config
  <2>2. CASE Answered
    <3>1. run' \in {"write", "select", "events"} /\ UNCHANGED <<attempt, faults, gaveUp, sid>>
      BY <2>2 DEF Answered
    <3>2. QED
      BY <1>2, <2>1, <3>1 DEF Closed
  <2>3. ASSUME NEW err \in Errors, SendFails(err), err = "expired" => sid # 0 PROVE FaultInv'
    BY <2>1, <2>3, FailFaults
  <2>4. CASE faults' = faults + 1
    <3>1. faults' > 0
      BY <1>1, <2>4
    <3>2. QED
      BY <3>1 DEF FaultInv, ExpiryRecovers
  <2>5. QED
    BY <1>6, <2>2, <2>3, <2>4 DEF Post, Expired, Lost, Refused, Errors
<1>7. CASE Pause
  <2>1. CASE run = "pause" /\ run' = "do" /\ UNCHANGED <<known, gaveUp, ctxDone, closing>>
    BY <1>2, <2>1 DEF Closed
  <2>2. CASE SendFails("cancelled") /\ run = "pause" /\ UNCHANGED <<mode, retries, ctxDone, closing>>
    BY <2>2, FailFaults DEF Errors
  <2>3. QED
    BY <1>7, <2>1, <2>2 DEF Pause, config
<1>8. CASE Backoff
  <2>1. /\ UNCHANGED <<known, ctxDone, closing>> /\ run = "backoff" /\ (UNCHANGED gaveUp \/ ctxDone')
    BY <1>8 DEF Backoff, config, postVars
  <2>2. QED
    BY <1>2, <2>1 DEF Closed
<1>9. CASE WriteReply \/ NextEvent
  <2>1. /\ UNCHANGED <<known, ctxDone, closing>> /\ run' \notin sending
        /\ UNCHANGED gaveUp \/ closing = "stdio"
    BY <1>9 DEF WriteReply, NextEvent, WriteMessage, GiveUp, StdioClosed, config, postVars
  <2>2. QED
    BY <1>2, <2>1 DEF Closed
<1>10. QED
  BY <1>3, <1>4, <1>5, <1>6, <1>7, <1>8, <1>9 DEF Next, Run, Others

(* With retries no message is given up for an expired session alone        *)
(* (client.go:253-263).                                                    *)
THEOREM ExpiryIsRecovered == Spec => []ExpiryRecovers
<1>1. Init => FaultInv
  BY DEF Init, FaultInv, ExpiryRecovers
<1>2. FaultInv => ExpiryRecovers
  BY DEF FaultInv
<1>3. QED
  BY <1>1, <1>2, FaultStep, Posts, PTL DEF Spec

-----------------------------------------------------------------------------
(* The ids the client may hold: those of sessions that executed a post,    *)
(* for the server opens new sessions under new ids.  RunWithSSE sends the  *)
(* id that the client holds now.                                           *)
IdInv ==
  /\ opened \in Nat /\ live \subseteq 1..opened /\ rejected \subseteq 1..opened
  /\ session \in 0..opened /\ sid \in 0..opened
  /\ live \cap rejected = {}
  /\ mode = "sse" => run \notin {"pause", "backoff"} /\ (run \in {"send", "do"} => sid = session)

LEMMA ExecutedIds ==
  ASSUME IdInv, NEW s \in Sessions, Executed(s)
  PROVE  /\ opened' \in Nat /\ opened <= opened' /\ live' \subseteq 1..opened'
         /\ live' \cap rejected = {} /\ s \in live'
<1>1. CASE sid = 0
  <2>1. s = opened + 1 /\ opened' = opened + 1 /\ live' = live \cup {opened + 1} /\ opened \in Nat
    BY <1>1 DEF Executed, IdInv
  <2>2. opened + 1 \notin rejected
    BY <2>1 DEF IdInv
  <2>3. QED
    BY <2>1, <2>2 DEF IdInv
<1>2. CASE sid # 0
  <2>1. s = sid /\ sid \in live /\ opened' = opened /\ live' = live
    BY <1>2 DEF Executed
  <2>2. opened \in Nat /\ live \subseteq 1..opened /\ live \cap rejected = {}
    BY DEF IdInv
  <2>3. opened <= opened
    BY <2>2
  <2>4. QED
    BY <2>1, <2>2, <2>3
<1>3. QED
  BY <1>1, <1>2

(* A failed Send drops the id or keeps it. *)
LEMMA FailSession ==
  ASSUME NEW err \in Errors, SendFails(err)
  PROVE  session' \in {0, session} /\ (mode = "sse" => UNCHANGED <<session, sid>> /\ run' # "backoff")
  BY DEF SendFails, handleSendError, GiveUp

LEMMA FailIds ==
  ASSUME IdInv, NEW err \in Errors, SendFails(err), UNCHANGED mode,
         err = "expired" => sid # 0 /\ sid \notin live /\ UNCHANGED live,
         opened' \in Nat, opened <= opened', live' \subseteq 1..opened', live' \cap rejected = {}
  PROVE  IdInv'
<1>1. run' \in {"stopped", "select", "backoff"}
  BY SendFailsRun
<1>2. mode' = "sse" => run' \notin {"pause", "backoff", "send", "do"}
  BY <1>1, FailSession
<1>3. session' \in {0, session} /\ sid' \in {0, session, sid}
  BY FailSession DEF SendFails, handleSendError, RetryFrom
<1>4. session' \in 0..opened' /\ sid' \in 0..opened'
  <2>1. session \in 0..opened' /\ sid \in 0..opened' /\ 0 \in 0..opened'
    BY DEF IdInv
  <2>2. QED
    BY <1>3, <2>1
<1>5. rejected' \subseteq 1..opened' /\ live' \cap rejected' = {}
  <2>1. rejected \subseteq 1..opened' /\ sid \in 0..opened'
    BY DEF IdInv
  <2>2. CASE err = "expired"
    <3>1. rejected' = rejected \cup {sid} /\ sid # 0 /\ sid \notin live /\ live' = live
      BY <2>2 DEF SendFails
    <3>2. sid \in 1..opened'
      BY <2>1, <3>1
    <3>3. QED
      BY <2>1, <3>1, <3>2
  <2>3. CASE err # "expired"
    <3>1. rejected' = rejected
      BY <2>3 DEF SendFails
    <3>2. QED
      BY <2>1, <3>1
  <2>4. QED
    BY <2>2, <2>3
<1>6. QED
  BY <1>2, <1>4, <1>5 DEF IdInv

LEMMA IdStep == IdInv /\ [Next]_vars => IdInv'
<1> SUFFICES ASSUME IdInv, [Next]_vars PROVE IdInv'
  OBVIOUS
<1>1. opened \in Nat /\ live \subseteq 1..opened /\ live \cap rejected = {}
  BY DEF IdInv
<1> DEFINE ids == <<mode, opened, rejected, session, sid>>
<1>2. ASSUME UNCHANGED ids, live' \subseteq live,
             mode = "sse" => run' \notin {"pause", "backoff"} /\ (run' \in {"send", "do"} => run \in {"send", "do"})
      PROVE  IdInv'
  BY <1>2 DEF IdInv
<1>3. CASE Reader \/ RunStart \/ RunEnds \/ (Others /\ ~SetSessionID) \/ UNCHANGED vars
  <2>1. UNCHANGED ids /\ live' \subseteq live /\ (run' = run \/ run' \in {"select", "stopped"})
    BY <1>3 DEF Reader, ReaderCheck, ReaderRead, ReaderSend, RunStart, RunEnds, Others, Cancel,
                Close, ServerForgets, Stream, StreamRead, StreamSend, vars, postVars, config
  <2>2. mode = "sse" => run \notin {"pause", "backoff"}
    BY DEF IdInv
  <2>3. QED
    BY <1>2, <2>1, <2>2
<1>4. CASE SetSessionID
  <2>1. /\ run = "start" /\ opened' = opened + 1 /\ live' = live \cup {opened + 1} /\ session' = opened + 1
        /\ UNCHANGED <<rejected, sid, run, mode>>
    BY <1>4 DEF SetSessionID, config
  <2>2. opened + 1 \notin rejected
    BY <1>1 DEF IdInv
  <2>3. rejected \subseteq 1..opened' /\ session' \in 0..opened' /\ sid \in 0..opened' /\ live' \subseteq 1..opened'
    BY <1>1, <2>1 DEF IdInv
  <2>4. QED
    BY <1>1, <2>1, <2>2, <2>3 DEF IdInv
<1>5. CASE TakeMessage
  BY <1>5 DEF TakeMessage, IdInv, config
<1>6. ASSUME NEW err \in Errors, SendFails(err), err # "expired", UNCHANGED <<mode, live, opened>> PROVE IdInv'
  <2>1. opened' \in Nat /\ opened <= opened' /\ live' \subseteq 1..opened' /\ live' \cap rejected = {}
    BY <1>1, <1>6
  <2>2. QED
    BY <1>6, <2>1, FailIds
<1>7. CASE StartSend \/ Pause
  <2>1. UNCHANGED <<mode, live, opened>>
    BY <1>7 DEF StartSend, Pause, config
  <2>2. CASE run \in {"send", "pause"} /\ run' = "do" /\ UNCHANGED ids
    BY <1>2, <2>1, <2>2 DEF IdInv
  <2>3. CASE SendFails("other") \/ SendFails("cancelled")
    BY <1>6, <2>1, <2>3 DEF Errors
  <2>4. QED
    BY <1>7, <2>1, <2>2, <2>3 DEF StartSend, Pause
<1>8. CASE Post
  <2>1. ASSUME NEW s \in Sessions, Executed(s), session' = s \/ session' = session,
               UNCHANGED <<sid, rejected, mode>>, run' \notin {"send", "do", "backoff"}, run' = "pause" => mode # "sse"
        PROVE  IdInv'
    <3>1. /\ opened' \in Nat /\ opened <= opened' /\ live' \subseteq 1..opened'
          /\ live' \cap rejected = {} /\ s \in live'
      BY <2>1, ExecutedIds
    <3>2. session' \in 0..opened' /\ sid \in 0..opened' /\ rejected \subseteq 1..opened'
      BY <2>1, <3>1 DEF IdInv
    <3>3. QED
      BY <2>1, <3>1, <3>2 DEF IdInv
  <2>2. UNCHANGED mode
    BY <1>8 DEF Post, config
  <2>3. CASE Answered
    <3>1. PICK s \in Sessions : Executed(s) /\ SessionOfReply(s)
      BY <2>3 DEF Answered
    <3>2. UNCHANGED <<sid, rejected>> /\ run' \in {"write", "select", "events"}
      BY <2>3 DEF Answered
    <3>3. QED
      BY <2>1, <2>2, <3>1, <3>2 DEF SessionOfReply
  <2>4. CASE Expired
    <3>1. SendFails("expired") /\ sid # 0 /\ sid \notin live /\ UNCHANGED <<live, opened>>
      BY <2>4 DEF Expired
    <3>2. opened' \in Nat /\ opened <= opened' /\ live' \subseteq 1..opened' /\ live' \cap rejected = {}
      BY <1>1, <3>1
    <3>3. QED
      BY <2>2, <3>1, <3>2, FailIds DEF Errors
  <2>5. ASSUME UNCHANGED <<live, opened>> \/ \E s \in Sessions : Executed(s),
               NEW err \in Errors, SendFails(err), err # "expired"
        PROVE  IdInv'
    <3>1. opened' \in Nat /\ opened <= opened' /\ live' \subseteq 1..opened' /\ live' \cap rejected = {}
      <4>1. CASE UNCHANGED <<live, opened>>
        BY <1>1, <4>1
      <4>2. CASE \E s \in Sessions : Executed(s)
        <5>1. PICK s \in Sessions : Executed(s)
          BY <4>2
        <5>2. QED
          BY <5>1, ExecutedIds
      <4>3. QED
        BY <2>5, <4>1, <4>2
    <3>2. QED
      BY <2>2, <2>5, <3>1, FailIds
  <2>6. CASE Lost
    <3>1. UNCHANGED <<live, opened>> \/ \E s \in Sessions : Executed(s)
      BY <2>6 DEF Lost
    <3>2. CASE SendFails("other")
      BY <2>5, <3>1, <3>2 DEF Errors
    <3>3. CASE mode = "plain" /\ run' = "pause" /\ UNCHANGED <<sid, session, rejected>>
      <4>1. CASE UNCHANGED <<live, opened>>
        BY <1>2, <2>2, <3>3, <4>1
      <4>2. CASE \E s \in Sessions : Executed(s)
        BY <2>1, <2>2, <3>3, <4>2
      <4>3. QED
        BY <3>1, <4>1, <4>2
    <3>4. QED
      BY <2>6, <3>2, <3>3 DEF Lost
  <2>7. CASE Refused
    <3>1. PICK err \in Errors : SendFails(err) /\ err # "expired"
      BY <2>7 DEF Refused, Errors
    <3>2. QED
      BY <2>5, <2>7, <3>1 DEF Refused
  <2>8. QED
    BY <1>8, <2>3, <2>4, <2>6, <2>7 DEF Post
<1>9. CASE WriteReply \/ NextEvent
  <2>1. UNCHANGED ids /\ UNCHANGED live /\ (run' = run \/ run' \in {"select", "stopped"})
        /\ run \in {"write", "events"}
    BY <1>9 DEF WriteReply, NextEvent, WriteMessage, GiveUp, postVars, config
  <2>2. QED
    BY <1>2, <2>1
<1>10. CASE Backoff
  <2>1. UNCHANGED ids /\ UNCHANGED live /\ run = "backoff"
    BY <1>10 DEF Backoff, postVars, config
  <2>2. mode # "sse"
    BY <2>1 DEF IdInv
  <2>3. QED
    BY <1>2, <2>1, <2>2
<1>11. QED
  BY <1>3, <1>4, <1>5, <1>7, <1>8, <1>9, <1>10 DEF Next, Run, Others

LEMMA Ids == Spec => []IdInv
<1>1. Init => IdInv
  BY DEF Init, IdInv
<1>2. QED
  BY <1>1, IdStep, PTL DEF Spec

(* The session id changes to none or to one of a session that lives.       *)
LEMMA SessionStep ==
  ASSUME IdInv, [Next]_vars
  PROVE  /\ session' # session => session' = 0 \/ session' \in live'
         /\ session' # session /\ mode = "sse" => run = "start" \/ Post
<1>1. CASE Post
  <2>1. CASE Answered
    <3>1. PICK s \in Sessions : Executed(s) /\ SessionOfReply(s)
      BY <2>1 DEF Answered
    <3>2. QED
      BY <1>1, <3>1, ExecutedIds DEF SessionOfReply, Post
  <2>2. CASE \E err \in Errors : SendFails(err)
    BY <2>2, FailSession
  <2>3. QED
    BY <1>1, <2>1, <2>2 DEF Post, Expired, Lost, Refused, Errors
<1>2. CASE StartSend \/ Pause
  <2>1. (\E err \in Errors : SendFails(err)) \/ UNCHANGED session
    BY <1>2 DEF StartSend, Pause, Errors
  <2>2. QED
    BY <2>1, FailSession
<1>3. CASE SetSessionID
  BY <1>3 DEF SetSessionID
<1>4. CASE Reader \/ RunStart \/ RunEnds \/ TakeMessage \/ Backoff \/ WriteReply \/ NextEvent
           \/ (Others /\ ~SetSessionID) \/ UNCHANGED vars
  BY <1>4 DEF Reader, ReaderCheck, ReaderRead, ReaderSend, RunStart, RunEnds, TakeMessage, Backoff, WriteReply,
              NextEvent, Others, Cancel, Close, ServerForgets, Stream, StreamRead, StreamSend, vars, postVars
<1>5. QED
  BY <1>1, <1>2, <1>3, <1>4 DEF Next, Run, Others

(* Without a post, and once Run runs, the server opens no session.         *)
LEMMA NotPosting ==
  ASSUME [Next]_vars, ~Post, run # "start"
  PROVE  UNCHANGED mode /\ live' \subseteq live /\ run' # "start" /\ (run = "do" => UNCHANGED run)
<1>1. CASE Reader \/ Others \/ UNCHANGED vars
  BY <1>1 DEF Reader, ReaderCheck, ReaderRead, ReaderSend, Others, SetSessionID, Cancel, Close, ServerForgets,
              Stream, StreamRead, StreamSend, vars, postVars, config
<1>2. CASE RunStart \/ RunEnds \/ TakeMessage \/ WriteReply \/ NextEvent
  BY <1>2 DEF RunStart, RunEnds, TakeMessage, WriteReply, NextEvent, WriteMessage, GiveUp, postVars, config
<1>3. CASE StartSend \/ Pause \/ Backoff
  <2>1. UNCHANGED <<mode, live>>
    BY <1>3 DEF StartSend, Pause, Backoff, postVars, config
  <2>2. run # "do" /\ run' # "start"
    BY <1>3, StartSendRun, PauseRun, BackoffRun
  <2>3. QED
    BY <2>1, <2>2
<1>4. QED
  BY <1>1, <1>2, <1>3 DEF Next, Run, Others

(* An id that the server answered with 404 or 410 may stay, but once it is *)
(* dropped no reply, however late, brings it back (client.go:224-229,      *)
(* 298-303, 400-406).                                                      *)
DroppedIdsStayAway == [][session' # session => session' \notin rejected']_vars

THEOREM DroppedStayAway == Spec => DroppedIdsStayAway
<1>1. IdInv /\ IdInv' /\ [Next]_vars => [session' # session => session' \notin rejected']_vars
  <2>1. SUFFICES ASSUME IdInv, IdInv', [Next]_vars, session' # session PROVE session' \notin rejected'
    OBVIOUS
  <2>2. session' = 0 \/ session' \in live'
    BY <2>1, SessionStep
  <2>3. rejected' \subseteq 1..opened' /\ live' \cap rejected' = {}
    BY <2>1 DEF IdInv
  <2>4. QED
    BY <2>2, <2>3
<1>2. QED
  BY <1>1, Ids, PTL DEF Spec, DroppedIdsStayAway

(* RunWithSSE holds the id of a session that the server has forgotten.     *)
DeadSession == mode = "sse" /\ run # "start" /\ session # 0 /\ session \notin live

(* handleMessageWithSSE does not look whether an error is an expiry: once  *)
(* the server forgets the session of a RunWithSSE, the id is sent for ever *)
(* and no message is answered any more (client.go:395-398).                *)
DeadSessionsStay == [][DeadSession => DeadSession' /\ session' = session /\ (run = "do" => run' # "events")]_vars

THEOREM DeadStay == Spec => DeadSessionsStay
<1>1. IdInv /\ [Next]_vars => [DeadSession => /\ DeadSession' /\ session' = session
                                              /\ run = "do" => run' # "events"]_vars
  <2>1. SUFFICES ASSUME IdInv, [Next]_vars, DeadSession
                 PROVE  DeadSession' /\ session' = session /\ (run = "do" => run' # "events")
    OBVIOUS
  <2>2. ASSUME run \in {"send", "do"}, NEW s \in Sessions PROVE ~Executed(s)
    <3>1. sid = session /\ sid # 0 /\ sid \notin live
      BY <2>1, <2>2 DEF IdInv, DeadSession
    <3>2. QED
      BY <3>1 DEF Executed
  <2>3. CASE Post
    <3>1. run = "do" /\ ~Answered /\ UNCHANGED <<live, mode>>
      <4>1. run = "do" /\ UNCHANGED mode
        BY <2>3 DEF Post, config
      <4>2. ~Answered /\ UNCHANGED live
        BY <2>2, <2>3, <4>1 DEF Post, Answered, Expired, Lost, Refused
      <4>3. QED
        BY <4>1, <4>2
    <3>2. PICK err \in Errors : SendFails(err)
      BY <2>1, <2>3, <3>1 DEF Post, Expired, Lost, Refused, Errors, DeadSession
    <3>3. UNCHANGED session /\ run' \in {"stopped", "select", "backoff"}
      BY <2>1, <3>2, FailSession, SendFailsRun DEF DeadSession
    <3>4. QED
      BY <2>1, <3>1, <3>3 DEF DeadSession
  <2>4. CASE ~Post
    <3>1. UNCHANGED session
      BY <2>1, <2>4, SessionStep DEF DeadSession
    <3>2. UNCHANGED mode /\ live' \subseteq live /\ run' # "start" /\ (run = "do" => UNCHANGED run)
      BY <2>1, <2>4, NotPosting DEF DeadSession
    <3>3. QED
      BY <2>1, <3>1, <3>2 DEF DeadSession
  <2>5. QED
    BY <2>3, <2>4
<1>2. QED
  BY <1>1, Ids, PTL DEF Spec, DeadSessionsStay

-----------------------------------------------------------------------------
(* What the other invariants leave out of the type invariant: the channels *)
(* of the streams, within their capacity, and stdout.                      *)
RestType ==
  /\ reader \in ReaderPcs /\ opened <= MaxSessions
  /\ streams \in [Lines -> StreamPcs] /\ events \in [Lines -> 0..ChanCap]
  /\ ctxDone \in BOOLEAN /\ closing \in {"open", "transport", "stdio"}
  /\ out \in Seq(Lines)

LEMMA ExecutedOpened ==
  ASSUME opened <= MaxSessions, NEW s \in Sessions, Executed(s)
  PROVE  opened' <= MaxSessions
<1>1. MaxSessions \in Nat
  BY BridgeAssumption DEF BridgeAssumption
<1>2. QED
  BY <1>1 DEF Executed, Sessions

LEMMA RestStep == BInv /\ IdInv /\ RestType /\ [Next]_vars => RestType'
<1> SUFFICES ASSUME BInv, IdInv, RestType, [Next]_vars PROVE RestType'
  OBVIOUS
<1> DEFINE rest == <<reader, opened, streams, events, ctxDone, closing, out>>
<1>1. ChanCap \in Nat \ {0} /\ MaxSessions \in Nat /\ opened \in Nat /\ N \in Nat
  BY BridgeAssumption DEF BridgeAssumption, IdInv
<1>2. ASSUME UNCHANGED rest PROVE RestType'
  BY <1>2 DEF RestType
<1>3. CASE Reader \/ RunStart
  <2>1. reader' \in ReaderPcs /\ UNCHANGED <<opened, streams, events, ctxDone, closing, out>>
    BY <1>3 DEF Reader, ReaderCheck, ReaderRead, ReaderSend, RunStart, ReaderPcs, postVars, sseVars, RestType
  <2>2. QED
    BY <2>1 DEF RestType
<1>4. CASE RunEnds \/ TakeMessage \/ StartSend \/ Pause \/ Backoff
  BY <1>2, <1>4 DEF RunEnds, TakeMessage, StartSend, Pause, Backoff, stdinVars, postVars, sseVars
<1>5. CASE Post
  <2>1. UNCHANGED <<reader, events, ctxDone, closing, out>>
    BY <1>5 DEF Post, stdinVars
  <2>2. opened' <= MaxSessions
    <3>1. UNCHANGED opened \/ \E s \in Sessions : Executed(s)
      BY <1>5 DEF Post, Answered, Expired, Lost, Refused
    <3>2. QED
      BY <3>1, ExecutedOpened DEF RestType
  <2>3. streams' \in [Lines -> StreamPcs]
    <3>1. streams' = streams \/ streams' = [streams EXCEPT ![cur] = NextRead]
      BY <1>5 DEF Post, Answered, Expired, Lost, Refused
    <3>2. NextRead \in StreamPcs
      BY DEF NextRead, StreamPcs
    <3>3. QED
      BY <3>1, <3>2 DEF RestType
  <2>4. QED
    BY <2>1, <2>2, <2>3 DEF RestType
<1>6. CASE WriteReply \/ NextEvent
  <2>1. UNCHANGED <<reader, opened, streams, ctxDone, closing>>
    BY <1>6 DEF WriteReply, NextEvent, stdinVars, postVars, sseVars
  <2>2. out' \in Seq(Lines)
    <3>1. cur \in Lines
      BY <1>6 DEF WriteReply, NextEvent, BInv, Busy
    <3>2. out' = out \/ out' = Append(out, cur)
      BY <1>6 DEF WriteReply, NextEvent, WriteMessage
    <3>3. out \in Seq(Lines)
      BY DEF RestType
    <3>4. Append(out, cur) \in Seq(Lines)
      BY <3>1, <3>3, AppendProperties
    <3>5. QED
      BY <3>2, <3>3, <3>4
  <2>3. events' \in [Lines -> 0..ChanCap]
    <3>1. UNCHANGED events \/ (events[cur] > 0 /\ events' = [events EXCEPT ![cur] = @ - 1])
      BY <1>6 DEF WriteReply, NextEvent, sseVars
    <3>2. \A k \in 0..ChanCap : k > 0 => k - 1 \in 0..ChanCap
      BY <1>1
    <3>3. QED
      BY <3>1, <3>2 DEF RestType
  <2>4. QED
    BY <2>1, <2>2, <2>3 DEF RestType
<1>7. ASSUME NEW m \in Lines, Stream(m) PROVE RestType'
  <2>1. UNCHANGED <<reader, opened, ctxDone, closing, out>>
    BY <1>7 DEF Stream, StreamRead, StreamSend, stdinVars, postVars
  <2>2. streams' \in [Lines -> StreamPcs]
    BY <1>7 DEF Stream, StreamRead, StreamSend, NextRead, StreamPcs, RestType
  <2>3. events' \in [Lines -> 0..ChanCap]
    <3>1. UNCHANGED events \/ (events[m] < ChanCap /\ events' = [events EXCEPT ![m] = @ + 1])
      BY <1>7 DEF Stream, StreamRead, StreamSend
    <3>2. \A k \in 0..ChanCap : k < ChanCap => k + 1 \in 0..ChanCap
      BY <1>1
    <3>3. QED
      BY <3>1, <3>2 DEF RestType
  <2>4. QED
    BY <2>1, <2>2, <2>3 DEF RestType
<1>8. CASE SetSessionID
  <2>1. opened' <= MaxSessions /\ UNCHANGED <<reader, streams, events, ctxDone, closing, out>>
    BY <1>1, <1>8 DEF SetSessionID, stdinVars, sseVars
  <2>2. QED
    BY <2>1 DEF RestType
<1>9. CASE Cancel \/ Close
  <2>1. /\ ctxDone' \in BOOLEAN /\ closing' \in {"open", "transport", "stdio"}
        /\ UNCHANGED <<reader, opened, streams, events, out>>
    BY <1>9 DEF Cancel, Close, stdinVars, postVars, sseVars, RestType
  <2>2. QED
    BY <2>1 DEF RestType
<1>10. CASE ServerForgets \/ UNCHANGED vars
  BY <1>2, <1>10 DEF ServerForgets, vars, stdinVars, postVars, sseVars
<1>11. QED
  BY <1>3, <1>4, <1>5, <1>6, <1>7, <1>8, <1>9, <1>10 DEF Next, Run

(* Every variable keeps its type: no channel goes over its capacity, no    *)
(* retry counter over its limit, no session is known that was not opened,  *)
(* for every number of lines, events, retries and sessions.                *)
THEOREM TypeCorrect == Spec => []TypeOK
<1>1. Init => IdInv /\ RestType
  <2>1. N \in Nat /\ ChanCap \in Nat \ {0} /\ MaxSessions \in Nat
    BY BridgeAssumption DEF BridgeAssumption
  <2>2. SUFFICES ASSUME Init PROVE IdInv /\ RestType
    OBVIOUS
  <2>3. /\ opened = 0 /\ live = {} /\ rejected = {} /\ session = 0 /\ sid = 0 /\ run = "start"
        /\ reader = "new" /\ out = <<>> /\ ctxDone = FALSE /\ closing = "open"
        /\ streams = [m \in Lines |-> "none"] /\ events = [m \in Lines |-> 0]
    BY <2>2 DEF Init
  <2>4. IdInv
    BY <2>3 DEF IdInv
  <2>5. streams \in [Lines -> StreamPcs] /\ events \in [Lines -> 0..ChanCap] /\ out \in Seq(Lines)
    BY <2>1, <2>3, EmptySeq DEF StreamPcs
  <2>6. opened <= MaxSessions
    BY <2>1, <2>3
  <2>7. reader \in ReaderPcs /\ ctxDone \in BOOLEAN /\ closing \in {"open", "transport", "stdio"}
    BY <2>3 DEF ReaderPcs
  <2>8. QED
    BY <2>4, <2>5, <2>6, <2>7 DEF RestType
<1>2. BInv /\ [Next]_vars => BInv'
  BY BridgeAssumption, StepInv
<1>3. BInv /\ PostsInv /\ IdInv /\ RestType => TypeOK
  <2>1. SUFFICES ASSUME BInv, PostsInv, IdInv, RestType PROVE TypeOK
    OBVIOUS
  <2>2. MaxSessions \in Nat /\ opened \in 0..MaxSessions /\ 1..opened \subseteq 1..MaxSessions
        /\ 0..opened \subseteq 0..MaxSessions
    BY <2>1, BridgeAssumption DEF BridgeAssumption, IdInv, RestType
  <2>3. /\ sid \in 0..MaxSessions /\ session \in 0..MaxSessions
        /\ live \subseteq Sessions /\ rejected \subseteq Sessions
    BY <2>1, <2>2 DEF IdInv, Sessions
  <2>4. QED
    BY <2>1, <2>2, <2>3 DEF TypeOK, BInv, PostsInv, SendType, RestType, Kinds
<1>4. QED
  BY <1>1, <1>2, <1>3, BInvInit, Posts, IdStep, RestStep, PTL DEF Spec

-----------------------------------------------------------------------------
(* The order in which the work on a line goes.  Each attempt of            *)
(* retryMessage passes these stages once; the posts and pauses of          *)
(* doWithRetry are one of them.                                            *)
Stage == [start |-> 0, backoff |-> 1, send |-> 2, do |-> 3, pause |-> 3, write |-> 4, events |-> 4,
          select |-> 5, stopped |-> 6]

(* Run comes to a later line, a later attempt, a later stage of it, a      *)
(* later post of the transport, or takes an event out of the channel.      *)
Forward ==
  \/ cur' > cur
  \/ cur' = cur /\ attempt' > attempt
  \/ /\ cur' = cur /\ attempt' = attempt
     /\ \/ Stage[run'] > Stage[run]
        \/ run = "do" /\ run' = "pause" /\ tries' = tries
        \/ run = "pause" /\ run' = "do" /\ tries' > tries
        \/ run = "events" /\ run' = "events" /\ events'[cur] < events[cur]

(* Lines, attempts and tries are bounded, so Run cannot go on for ever by  *)
(* itself: the nested loops of retries never start again for the same line *)
(* (client.go:278-334, transport.go:293-360).                              *)
RunGoesForward == [][Run => Forward]_vars

(* Once the context is done the goroutine of a stream comes to its end: it *)
(* hands over one event more at most (transport.go:256-286).               *)
Left(m) == events[m] + (IF streams[m] = "read" THEN 3 ELSE IF streams[m] = "send" THEN 2 ELSE 0)
StreamsRunOut == [][ctxDone => \A m \in Lines : Stream(m) => Left(m)' < Left(m)]_vars

(* The loop waits for the events of a stream that there is.                *)
EventsHaveStream == run = "events" => streams[cur] # "none"

LEMMA Stages ==
  /\ Stage["start"] = 0 /\ Stage["backoff"] = 1 /\ Stage["send"] = 2 /\ Stage["do"] = 3 /\ Stage["pause"] = 3
  /\ Stage["write"] = 4 /\ Stage["events"] = 4 /\ Stage["select"] = 5 /\ Stage["stopped"] = 6
BY DEF Stage

(* A send that fails leads to a later attempt, or out of the line.         *)
LEMMA FailForward ==
  ASSUME attempt \in Nat, cur' = cur, run \in {"send", "do", "pause"}, NEW err, SendFails(err)
  PROVE  Forward
<1>1. Stage[run] < 5
  BY Stages
<1>2. ASSUME NEW b \in BOOLEAN, GiveUp(b), UNCHANGED attempt PROVE Forward
  <2>1. run' \in {"select", "stopped"}
    BY <1>2 DEF GiveUp
  <2>2. Stage[run'] >= 5
    BY <2>1, Stages
  <2>3. Stage[run'] > Stage[run]
    BY <2>1, Stages
  <2>4. QED
    BY <1>2, <2>3 DEF Forward
<1>3. ASSUME NEW s, RetryFrom(attempt + 1, s) PROVE Forward
  <2>1. CASE attempt' = attempt + 1
    <3>1. attempt' > attempt
      BY <2>1
    <3>2. QED
      BY <3>1 DEF Forward
  <2>2. CASE GiveUp(FALSE) /\ UNCHANGED attempt
    BY <1>2, <2>2
  <2>3. QED
    BY <1>3, <2>1, <2>2 DEF RetryFrom
<1>4. attempt = 0 => attempt + 1 = 1
  OBVIOUS
<1>5. CASE attempt = 0 /\ handleSendError(err)
  BY <1>2, <1>3, <1>4, <1>5 DEF handleSendError
<1>6. QED
  BY <1>2, <1>3, <1>5 DEF SendFails

LEMMA RunForward ==
  ASSUME BInv, TypeOK, Run
  PROVE  Forward
<1>1. attempt \in Nat /\ tries \in Nat
  BY BridgeAssumption DEF BridgeAssumption, TypeOK
<1>2. ASSUME UNCHANGED <<cur, attempt>>, Stage[run'] > Stage[run] PROVE Forward
  BY <1>2 DEF Forward
<1>3. CASE RunStart \/ RunEnds \/ Backoff \/ WriteReply
  <2>1. CASE RunStart
    <3>1. UNCHANGED <<cur, attempt>> /\ run = "start" /\ run' \in {"select", "stopped"}
      BY <2>1 DEF RunStart, postVars
    <3>2. QED
      BY <1>2, <3>1, Stages
  <2>2. CASE RunEnds
    BY <1>2, <2>2, Stages DEF RunEnds, postVars
  <2>3. CASE Backoff
    <3>1. UNCHANGED <<cur, attempt>> /\ run = "backoff" /\ run' \in {"send", "stopped"}
      BY <2>3, BackoffRun DEF Backoff, postVars
    <3>2. QED
      BY <1>2, <3>1, Stages
  <2>4. CASE WriteReply
    <3>1. UNCHANGED <<cur, attempt>> /\ run = "write" /\ run' = "select"
      BY <2>4, WriteReplyRun DEF WriteReply, postVars
    <3>2. QED
      BY <1>2, <3>1, Stages
  <2>5. QED
    BY <1>3, <2>1, <2>2, <2>3, <2>4
<1>4. CASE TakeMessage
  <2>1. cur' \in Lines /\ cur < cur' /\ cur \in 0..N
    BY <1>4, BridgeAssumption, TakeMessageInv DEF BInv
  <2>2. cur' > cur
    BY <2>1 DEF Lines
  <2>3. QED
    BY <2>2 DEF Forward
<1>5. CASE StartSend
  <2>1. cur' = cur /\ run = "send"
    BY <1>5 DEF StartSend
  <2>2. CASE run' = "do" /\ UNCHANGED attempt
    BY <1>2, <2>1, <2>2, Stages
  <2>3. QED
    BY <1>1, <1>5, <2>1, <2>2, FailForward DEF StartSend
<1>6. CASE Post
  <2>1. cur' = cur /\ run = "do"
    BY <1>6 DEF Post
  <2>2. CASE Answered
    <3>1. run' \in {"write", "select", "events"} /\ UNCHANGED attempt
      BY <2>2 DEF Answered
    <3>2. Stage[run'] > Stage[run]
      BY <2>1, <3>1, Stages
    <3>3. QED
      BY <1>2, <2>1, <3>1, <3>2
  <2>3. CASE run' = "pause" /\ UNCHANGED <<attempt, tries>>
    BY <2>1, <2>3 DEF Forward
  <2>4. CASE \E err \in Errors : SendFails(err)
    BY <1>1, <2>1, <2>4, FailForward
  <2>5. Answered \/ (run' = "pause" /\ UNCHANGED <<attempt, tries>>) \/ \E err \in Errors : SendFails(err)
    BY <1>6 DEF Post, Expired, Lost, Refused, Errors
  <2>6. QED
    BY <2>2, <2>3, <2>4, <2>5
<1>7. CASE Pause
  <2>1. cur' = cur /\ run = "pause"
    BY <1>7 DEF Pause
  <2>2. CASE run' = "do" /\ tries' = tries + 1 /\ UNCHANGED attempt
    <3>1. tries' > tries
      BY <1>1, <2>2
    <3>2. QED
      BY <2>1, <2>2, <3>1 DEF Forward
  <2>3. QED
    BY <1>1, <1>7, <2>1, <2>2, FailForward DEF Pause
<1>8. CASE NextEvent
  <2>1. UNCHANGED <<cur, attempt>> /\ run = "events"
    BY <1>8 DEF NextEvent, postVars
  <2>2. CASE run' = "select"
    BY <1>2, <2>1, <2>2, Stages
  <2>3. CASE run' = "events"
    <3>1. cur \in Lines /\ events \in [Lines -> 0..ChanCap]
      BY <2>1 DEF BInv, Busy, TypeOK
    <3>2. events' = [events EXCEPT ![cur] = events[cur] - 1]
      BY <1>8, <2>3 DEF NextEvent
    <3>3. events[cur] \in 0..ChanCap /\ events'[cur] = events[cur] - 1
      BY <3>1, <3>2
    <3>4. events'[cur] < events[cur]
      BY <3>3
    <3>5. QED
      BY <2>1, <2>3, <3>4 DEF Forward
  <2>4. QED
    BY <1>8, <2>2, <2>3, NextEventRun
<1>9. QED
  BY <1>3, <1>4, <1>5, <1>6, <1>7, <1>8 DEF Run

LEMMA StreamRunsOut ==
  ASSUME TypeOK, ctxDone, NEW m \in Lines, Stream(m)
  PROVE  Left(m)' < Left(m)
<1>1. /\ events \in [Lines -> 0..ChanCap] /\ streams \in [Lines -> StreamPcs]
      /\ events[m] \in Nat /\ NextRead = "off"
  BY DEF TypeOK, NextRead
<1>2. CASE StreamRead(m)
  <2>1. /\ streams[m] = "read" /\ streams'[m] \in {"send", "off"} /\ events'[m] = events[m]
    BY <1>1, <1>2 DEF StreamRead
  <2>2. QED
    BY <1>1, <2>1 DEF Left
<1>3. CASE StreamSend(m)
  <2>1. streams[m] = "send" /\ streams'[m] = "off" /\ events'[m] \in {events[m], events[m] + 1}
    BY <1>1, <1>3 DEF StreamSend
  <2>2. QED
    BY <1>1, <2>1 DEF Left
<1>4. QED
  BY <1>2, <1>3 DEF Stream

LEMMA EventsStep == BInv /\ TypeOK /\ EventsHaveStream /\ [Next]_vars => EventsHaveStream'
<1> SUFFICES ASSUME BInv, TypeOK, EventsHaveStream, [Next]_vars PROVE EventsHaveStream'
  OBVIOUS
<1>1. streams \in [Lines -> StreamPcs]
  BY DEF TypeOK
<1>2. ASSUME run' # "events" PROVE EventsHaveStream'
  BY <1>2 DEF EventsHaveStream
<1>3. ASSUME UNCHANGED <<run, cur, streams>> PROVE EventsHaveStream'
  BY <1>3 DEF EventsHaveStream
<1>4. CASE Post
  <2>1. CASE Answered
    <3>1. run = "do" /\ cur' = cur /\ cur \in Lines
      BY <1>4 DEF Post, BInv, Busy
    <3>2. run' = "events" => streams' = [streams EXCEPT ![cur] = NextRead]
      BY <2>1 DEF Answered
    <3>3. NextRead # "none"
      BY DEF NextRead
    <3>4. QED
      BY <1>1, <3>1, <3>2, <3>3 DEF EventsHaveStream
  <2>2. CASE Expired \/ Lost \/ Refused
    <3>1. run' \in {"stopped", "select", "backoff", "pause"}
      BY <2>2, SendFailsRun DEF Expired, Lost, Refused, Errors
    <3>2. QED
      BY <1>2, <3>1
  <2>3. QED
    BY <1>4, <2>1, <2>2 DEF Post
<1>5. CASE NextEvent
  <2>1. run = "events" /\ UNCHANGED <<cur, streams>>
    BY <1>5 DEF NextEvent
  <2>2. QED
    BY <2>1 DEF EventsHaveStream
<1>6. ASSUME NEW m \in Lines, Stream(m) PROVE EventsHaveStream'
  <2>1. /\ UNCHANGED <<run, cur>>
        /\ \E l \in {"read", "send", "off"} : streams' = [streams EXCEPT ![m] = l]
    BY <1>6 DEF Stream, StreamRead, StreamSend, NextRead
  <2>2. QED
    BY <1>1, <2>1 DEF EventsHaveStream
<1>7. CASE RunStart \/ RunEnds \/ TakeMessage
  <2>1. run' \in {"select", "stopped", "send"}
    BY <1>7 DEF RunStart, RunEnds, TakeMessage
  <2>2. QED
    BY <1>2, <2>1
<1>8. CASE StartSend \/ Pause \/ Backoff \/ WriteReply
  <2>1. run' # "events"
    BY <1>8, StartSendRun, PauseRun, BackoffRun, WriteReplyRun
  <2>2. QED
    BY <1>2, <2>1
<1>9. CASE Reader \/ SetSessionID \/ Cancel \/ Close \/ ServerForgets \/ UNCHANGED vars
  <2>1. UNCHANGED <<run, cur, streams>>
    BY <1>9 DEF Reader, ReaderCheck, ReaderRead, ReaderSend, SetSessionID, Cancel, Close, ServerForgets,
       sseVars, vars
  <2>2. QED
    BY <1>3, <2>1
<1>10. QED
  BY <1>4, <1>5, <1>6, <1>7, <1>8, <1>9 DEF Next, Run

(* What ShutdownEnds needs besides fairness: Run never goes round in its   *)
(* loops of retries, a cancelled stream runs out, and what Run waits for   *)
(* once it is in a stream is a goroutine that there is.                    *)
THEOREM ShutdownProgresses == Spec => RunGoesForward /\ StreamsRunOut /\ []EventsHaveStream
<1>1. BInv /\ [Next]_vars => BInv'
  BY BridgeAssumption, StepInv
<1>2. Spec => []BInv
  BY <1>1, BInvInit, PTL DEF Spec
<1>3. Init => EventsHaveStream
  BY DEF Init, EventsHaveStream
<1>4. Spec => []EventsHaveStream
  BY <1>2, <1>3, EventsStep, TypeCorrect, PTL DEF Spec
<1>5. BInv /\ TypeOK => [Run => Forward]_vars
  BY RunForward
<1>6. Spec => RunGoesForward
  BY <1>2, <1>5, TypeCorrect, PTL DEF RunGoesForward
<1>7. TypeOK => [ctxDone => \A m \in Lines : Stream(m) => Left(m)' < Left(m)]_vars
  BY StreamRunsOut
<1>8. Spec => StreamsRunOut
  BY <1>7, TypeCorrect, PTL DEF StreamsRunOut
<1>9. QED
  BY <1>4, <1>6, <1>8
=============================================================================
