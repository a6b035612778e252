----------------------------- MODULE PostService -----------------------------
(***************************************************************************)
(* What the clients that POST to the bridge are promised of their answers, *)
(* whatever pipes, pending table and read loop are between them and the    *)
(* subprocess (internal/server/handler.go:89-304, 507-547).  The response  *)
(* to a request travels once its message has been written; on the way it   *)
(* may be lost; it answers one POST at most, and that one carries its id.  *)
(* Nothing here says whose POST that is when two requests have one id, and *)
(* nothing promises that a response comes.                                 *)
(***************************************************************************)
CONSTANTS
  Requests,  \* the POSTs
  IdOf       \* the id that the client of each chose

VARIABLES
  notes,       \* the POSTs whose message is a notification
  fresh,       \* the POSTs whose message the subprocess was not given
  travelling,  \* requests whose response may still come
  result       \* what each POST was answered with

service == <<notes, fresh, travelling, result>>

Init ==
  /\ notes \in SUBSET Requests
  /\ fresh = Requests /\ travelling = {}
  /\ result = [r \in Requests |-> "none"]

Answer(r, res) == result[r] = "none" /\ result' = [result EXCEPT ![r] = res]

Send(r) ==
  /\ r \in fresh /\ fresh' = fresh \ {r}
  /\ travelling' = travelling \cup ({r} \ notes)
  /\ UNCHANGED <<notes, result>>

Lose ==
  /\ travelling' \in SUBSET travelling
  /\ UNCHANGED <<notes, fresh, result>>

(* The response to q answers r: it is used up. *)
Respond(r, q) ==
  /\ r \notin fresh \cup notes /\ q \in travelling /\ IdOf[q] = IdOf[r]
  /\ Answer(r, q)
  /\ travelling' = travelling \ {q}
  /\ UNCHANGED <<notes, fresh>>

(* 202: only for a message that was written. *)
Accept(r) ==
  /\ r \in notes \ fresh
  /\ Answer(r, "accepted")
  /\ UNCHANGED <<notes, fresh, travelling>>

(* An error, a timeout: a response that was already there is lost. *)
Refuse(r) ==
  /\ Answer(r, "error")
  /\ fresh' = fresh \ {r} /\ travelling' \in SUBSET travelling
  /\ UNCHANGED notes

Next == Lose \/ \E r \in Requests : \/ Send(r) \/ Accept(r) \/ Refuse(r)
                                    \/ \E q \in Requests : Respond(r, q)

Spec == Init /\ [][Next]_service
=============================================================================
