--------------------------- MODULE MCRequestRouter ---------------------------
(* Two clients number a message 1 each, and one of these may be a          *)
(* notification; a third request has an id of its own.                     *)
EXTENDS RequestRouter

CONSTANTS r1, r2, r3

MCIdOf == [r \in Requests |-> IF r = r3 THEN 2 ELSE 1]
=============================================================================
