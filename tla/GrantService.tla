---------------------------- MODULE GrantService ----------------------------
(***************************************************************************)
(* What users of the authorization server are promised of their grants,    *)
(* whatever storages, handlers and cleanups are behind the token endpoint  *)
(* (internal/authserver).  A grant is made once, by an authorization code, *)
(* with scopes of the user; it keeps exactly these while anything of it is *)
(* left, a code, a refresh token or a request that has looked one up; and  *)
(* once nothing is left, nothing of it ever comes back.                    *)
(***************************************************************************)
CONSTANTS
  Codes,      \* the authorization codes, each of which is a grant
  UserScopes  \* the scopes of the user

VARIABLES
  new,   \* codes that were not made yet
  live,  \* grants of which something is left
  scope  \* the scopes of each of them

grants == <<new, live, scope>>

Init == new = Codes /\ live = {} /\ scope = [c \in Codes |-> {}]

Grant(c) ==
  /\ c \in new /\ new' = new \ {c} /\ live' = live \cup {c}
  /\ \E s \in SUBSET UserScopes : scope' = [scope EXCEPT ![c] = s]

End ==
  /\ live' \in SUBSET live /\ UNCHANGED new
  /\ scope' = [c \in Codes |-> IF c \in live' THEN scope[c] ELSE {}]

Next == End \/ \E c \in Codes : Grant(c)

Spec == Init /\ [][Next]_grants
=============================================================================
