----------------------------- MODULE MCSseFanout -----------------------------
(* Two sessions, of which the pool holds at most one; two streams, which   *)
(* may be of the same session; one notification.                           *)
EXTENDS SseFanout
=============================================================================
