-------------------------- MODULE MCProcessManager --------------------------
(* Two goroutines use the manager.  The server's sequence of calls is      *)
(* Start, then Stop and Close (server.go Start and Stop); beside it runs a *)
(* goroutine that waits for the exit and stops, one that restarts, or one  *)
(* that closes as well.                                                    *)
EXTENDS ProcessManager

CONSTANTS c1, c2

MCPrograms ==
  { [c \in Callers |-> IF c = c1 THEN first ELSE second] :
      first \in {<<"start", "stop", "close">>},
      second \in {<<"wait", "stop">>, <<"restart">>, <<"stop", "start">>, <<"close">>} }
=============================================================================
