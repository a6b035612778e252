------------------------------ MODULE LocalClient ------------------------------
(***************************************************************************)
(* What the local MCP client that started the bridge is promised on the    *)
(* bridge's stdout (internal/client/client.go:193-196, 380-383): requests  *)
(* are served one at a time in the order they were written, a request has  *)
(* at most one reply, or the events of one stream, and a notification has  *)
(* none.  A request may go without a reply: nothing here promises one.     *)
(***************************************************************************)
EXTENDS Integers, Sequences

CONSTANT N   \* the lines that the local client writes

Lines == 1..N

VARIABLES
  kinds,  \* what each line holds: a request, a notification, or nothing
  mode,   \* plain, or sse when replies are streams
  last,   \* the last line that was served, 0 before the first
  owed,   \* the line being served, 0 between two
  out     \* the lines that the messages on stdout reply to

promise == <<kinds, mode, last, owed, out>>

Init ==
  /\ kinds \in [Lines -> {"request", "notification", "blank"}]
  /\ mode \in {"plain", "sse"}
  /\ last = 0 /\ owed = 0 /\ out = <<>>

Serve(m) ==
  /\ owed = 0 /\ m > last /\ kinds[m] # "blank"
  /\ last' = m /\ owed' = m
  /\ UNCHANGED <<kinds, mode, out>>

Reply ==
  /\ owed # 0 /\ kinds[owed] = "request"
  /\ out' = Append(out, owed)
  /\ owed' = IF mode = "plain" THEN 0 ELSE owed
  /\ UNCHANGED <<kinds, mode, last>>

Finish ==
  /\ owed # 0 /\ owed' = 0
  /\ UNCHANGED <<kinds, mode, last, out>>

Next == Reply \/ Finish \/ \E m \in Lines : Serve(m)

Spec == Init /\ [][Next]_promise
=============================================================================
