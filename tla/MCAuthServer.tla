------------------------------ MODULE MCAuthServer ------------------------------
(* A small instance: see MCAuthServer.cfg. *)
EXTENDS AuthServer

MCUris == {"loop1", "loop2", "other"}
MCAllowed == {"loop1"}
MCLoopback == {"loop1", "loop2"}
MCRequested == {{"read"}, {"admin"}}
=============================================================================
