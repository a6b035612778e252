------------------------------ MODULE TokenPath ------------------------------
(***************************************************************************)
(* The access token of an OAuth connection (internal/auth/oauth.go and     *)
(* middleware.go): the authenticator of the sending bridge, which keeps    *)
(* one token for all its callers, takes another when that one is about to  *)
(* expire, and lets a user obtain one by the authorization code flow with  *)
(* PKCE; and the middleware of the receiving bridge, which admits requests *)
(* by the signature of their token, by introspection, or by both.          *)
(*                                                                         *)
(* A token has an age: 0 until 10 seconds before its end (then             *)
(* Token.Valid of golang.org/x/oauth2 is false), 1 up to the end, 2        *)
(* afterwards.  Providers issue tokens of age 0.  A token that came without *)
(* expires_in does not age here, since Token.Valid holds of it for ever    *)
(* (oauth.go:696): when it ends it counts as withdrawn.                    *)
(***************************************************************************)
EXTENDS Integers

CONSTANTS
  Callers,        \* goroutines that call Authenticate, Refresh and send requests
  Flows,          \* authorization code flows; a flow names its own PKCE verifier
  MaxToken,       \* the tokens a provider issues, a bound of the model
  VerifyJWT,      \* the receiver has a verifier (discovery_url or jwks_url)
  Introspect,     \* the receiver has an introspection_url
  None

(* setupServerMode accepts no other configuration (oauth.go:119-155). *)
Configured == VerifyJWT \/ Introspect

ASSUME TokenAssumption ==
  /\ MaxToken \in Nat \ {0}
  /\ None \notin Callers \cup Flows
  /\ VerifyJWT \in BOOLEAN /\ Introspect \in BOOLEAN /\ Configured

Tokens == 1..MaxToken
NoToken == 0

VARIABLES
  mu,             \* the caller that holds oa.mu while it waits for the provider
  currentToken,   \* oa.currentToken
  cached,         \* the token kept by oa.tokenSource, for client credentials
  pkceVerifier,   \* oa.pkceVerifier
  kind, age,      \* each token: not issued, for the client or a user; its age
  revoked,        \* the tokens withdrawn, or ended without having told their expiry
  pc, tok, taken, \* each caller: its place, its token and the age it got it at
  fpc, sent, ftok,\* each flow: its place, the verifier it sent, its token
  disturbed       \* flows whose verifier was touched between its making and its use

tokenVars == <<currentToken, cached>>
providerVars == <<kind, age, revoked>>
callerVars == <<pc, tok, taken>>
flowVars == <<fpc, sent, ftok, disturbed>>
vars == <<mu, tokenVars, pkceVerifier, providerVars, callerVars, flowVars>>

CallerPcs == {"idle", "lock", "fetch", "refetch", "have", "ok", "refused", "unchecked"}
FlowPcs == {"idle", "browser", "clear", "request", "failed", "rejected", "store", "done"}

(* NewOAuthAuthenticator in client mode returns with a first token.        *)
Init ==
  /\ mu = None /\ currentToken = 1 /\ cached = 1 /\ pkceVerifier = None
  /\ kind = [t \in Tokens |-> IF t = 1 THEN "client" ELSE "none"]
  /\ age = [t \in Tokens |-> 0] /\ revoked = {}
  /\ pc = [c \in Callers |-> "idle"] /\ tok = [c \in Callers |-> NoToken]
  /\ taken = [c \in Callers |-> 0]
  /\ fpc = [f \in Flows |-> "idle"] /\ sent = [f \in Flows |-> None]
  /\ ftok = [f \in Flows |-> NoToken] /\ disturbed = {}

-----------------------------------------------------------------------------
(* Authenticate: getToken, then the request carries what it returned.      *)

Valid(t) == age[t] = 0
Issue(t, k) ==   \* tokens are named in the order of their issue
  /\ kind[t] = "none" /\ \A u \in 1..(t - 1) : kind[u] # "none"
  /\ kind' = [kind EXCEPT ![t] = k] /\ UNCHANGED <<age, revoked>>
Returned(c, t) ==
  /\ pc' = [pc EXCEPT ![c] = "have"]
  /\ tok' = [tok EXCEPT ![c] = t] /\ taken' = [taken EXCEPT ![c] = age[t]]
Moves(c, to) == pc' = [pc EXCEPT ![c] = to] /\ UNCHANGED <<tok, taken>>

(* The look at the token under the read lock. *)
ReadToken(c) ==
  /\ pc[c] = "idle" /\ mu = None
  /\ \/ Valid(currentToken) /\ Returned(c, currentToken)
     \/ ~Valid(currentToken) /\ Moves(c, "lock")
  /\ UNCHANGED <<mu, tokenVars, pkceVerifier, providerVars, flowVars>>

(* Mutant: no second look once the write lock is held. *)
LockToken_NoSecondLook(c) ==
  /\ pc[c] = "lock" /\ mu = None
  /\ \/ Valid(cached) /\ currentToken' = cached /\ Returned(c, cached) /\ UNCHANGED mu
     \/ ~Valid(cached) /\ mu' = c /\ Moves(c, "fetch") /\ UNCHANGED currentToken
  /\ UNCHANGED <<cached, pkceVerifier, providerVars, flowVars>>

(* The second look, under the write lock; then tokenSource.Token, which    *)
(* returns its own token as long as that is valid.                         *)
LockToken(c) ==
  /\ pc[c] = "lock" /\ mu = None
  /\ \/ Valid(currentToken) /\ Returned(c, currentToken) /\ UNCHANGED <<mu, currentToken>>
     \/ /\ ~Valid(currentToken) /\ Valid(cached)
        /\ currentToken' = cached /\ Returned(c, cached) /\ UNCHANGED mu
     \/ /\ ~Valid(currentToken) /\ ~Valid(cached)
        /\ mu' = c /\ Moves(c, "fetch") /\ UNCHANGED currentToken
  /\ UNCHANGED <<cached, pkceVerifier, providerVars, flowVars>>

(* Mutant: the token that was read first is the one that is returned. *)
FetchToken_ReturnsOld(c) ==
  /\ pc[c] = "fetch"
  /\ \/ \E t \in Tokens : /\ Issue(t, "client") /\ Returned(c, currentToken)
                          /\ cached' = t /\ currentToken' = t
     \/ Moves(c, "idle") /\ UNCHANGED <<tokenVars, providerVars>>
  /\ mu' = None /\ UNCHANGED <<pkceVerifier, flowVars>>

(* The provider answers, or the request to it fails. *)
FetchToken(c) ==
  /\ pc[c] = "fetch"
  /\ \/ \E t \in Tokens : /\ Issue(t, "client") /\ Returned(c, t)
                          /\ cached' = t /\ currentToken' = t
     \/ Moves(c, "idle") /\ UNCHANGED <<tokenVars, providerVars>>
  /\ mu' = None /\ UNCHANGED <<pkceVerifier, flowVars>>

(* Refresh asks tokenSource, whatever currentToken is.                     *)
Refresh(c) ==
  /\ pc[c] = "idle" /\ mu = None
  /\ \/ Valid(cached) /\ currentToken' = cached /\ UNCHANGED <<mu, callerVars>>
     \/ ~Valid(cached) /\ mu' = c /\ Moves(c, "refetch") /\ UNCHANGED currentToken
  /\ UNCHANGED <<cached, pkceVerifier, providerVars, flowVars>>

RefreshFetched(c) ==
  /\ pc[c] = "refetch"
  /\ \/ \E t \in Tokens : Issue(t, "client") /\ cached' = t /\ currentToken' = t
     \/ UNCHANGED <<tokenVars, providerVars>>
  /\ Moves(c, "idle") /\ mu' = None /\ UNCHANGED <<pkceVerifier, flowVars>>

-----------------------------------------------------------------------------
(* The receiving bridge. *)

Signed(t) == VerifyJWT /\ age[t] < 2
Active(t) == age[t] < 2 /\ t \notin revoked

(* What the signature check does not accept goes to introspection if there *)
(* is one, and is answered with 401 otherwise: also when the keys cannot   *)
(* be fetched (jwks_url, discovery_url) or the introspection endpoint does *)
(* not answer, which says nothing of the token: "unchecked".  A withdrawal *)
(* shows in introspection only, an untold expiry in the signature's claims *)
(* too, so a signature receiver may admit or refuse what is in revoked.    *)
Verdicts(t) ==
  {"unchecked"} \cup {v \in {"ok"} : Signed(t) \/ (Introspect /\ Active(t))}
                \cup {v \in {"refused"} : ~Active(t)}

(* Wrap and Validate. *)
Validate(c) ==
  /\ pc[c] = "have"
  /\ \E verdict \in Verdicts(tok[c]) : Moves(c, verdict)
  /\ UNCHANGED <<mu, tokenVars, pkceVerifier, providerVars, flowVars>>

(* The caller has its response and goes on. *)
NextCall(c) ==
  /\ pc[c] \in {"ok", "refused", "unchecked"} /\ pc' = [pc EXCEPT ![c] = "idle"]
  /\ tok' = [tok EXCEPT ![c] = NoToken] /\ taken' = [taken EXCEPT ![c] = 0]
  /\ UNCHANGED <<mu, tokenVars, pkceVerifier, providerVars, flowVars>>

-----------------------------------------------------------------------------
(* The authorization code flow.  Other flows between the making of its     *)
(* verifier and the exchange that reads it.                                *)
Waiting(f) == {g \in Flows \ {f} : fpc[g] = "browser"}

(* BuildAuthorizationURL with use_pkce: SetupPKCE.  *)
BuildAuthorizationURL(f) ==
  /\ fpc[f] = "idle" /\ mu = None
  /\ pkceVerifier' = f /\ fpc' = [fpc EXCEPT ![f] = "browser"]
  /\ disturbed' = disturbed \cup Waiting(f)
  /\ UNCHANGED <<mu, tokenVars, providerVars, callerVars, sent, ftok>>

(* Mutant: the verifier is cleared first. *)
TakeVerifier_Cleared(f) ==
  /\ fpc[f] \in {"browser", "failed"} /\ mu = None
  /\ pkceVerifier' = None /\ sent' = [sent EXCEPT ![f] = None]
  /\ fpc' = [fpc EXCEPT ![f] = "request"]
  /\ disturbed' = IF fpc[f] = "failed" THEN disturbed \cup {f} ELSE disturbed
  /\ UNCHANGED <<mu, tokenVars, providerVars, callerVars, ftok>>

(* ExchangeAuthorizationCode, a first time or again after the request      *)
(* failed: GetPKCEVerifier and ClearPKCEVerifier are two critical sections.*)
TakeVerifier(f) ==
  /\ fpc[f] \in {"browser", "failed"} /\ mu = None
  /\ sent' = [sent EXCEPT ![f] = pkceVerifier]
  /\ fpc' = [fpc EXCEPT ![f] = IF pkceVerifier = None THEN "request" ELSE "clear"]
  /\ disturbed' = IF fpc[f] = "failed" THEN disturbed \cup {f} ELSE disturbed
  /\ UNCHANGED <<mu, tokenVars, pkceVerifier, providerVars, callerVars, ftok>>

ClearVerifier(f) ==
  /\ fpc[f] = "clear" /\ mu = None
  /\ pkceVerifier' = None /\ fpc' = [fpc EXCEPT ![f] = "request"]
  /\ disturbed' = disturbed \cup Waiting(f)
  /\ UNCHANGED <<mu, tokenVars, providerVars, callerVars, sent, ftok>>

(* The request for the token: the provider checks the verifier.            *)
RequestToken(f) ==
  /\ fpc[f] = "request"
  /\ \/ \E t \in Tokens : /\ sent[f] = f /\ Issue(t, "user")
                          /\ ftok' = [ftok EXCEPT ![f] = t] /\ fpc' = [fpc EXCEPT ![f] = "store"]
     \/ /\ sent[f] # f /\ fpc' = [fpc EXCEPT ![f] = "rejected"]
        /\ UNCHANGED <<ftok, providerVars>>
     \/ fpc' = [fpc EXCEPT ![f] = "failed"] /\ UNCHANGED <<ftok, providerVars>>
  /\ UNCHANGED <<mu, tokenVars, pkceVerifier, callerVars, sent, disturbed>>

(* The user's token becomes the current one; tokenSource keeps its own.    *)
StoreToken(f) ==
  /\ fpc[f] = "store" /\ mu = None
  /\ currentToken' = ftok[f] /\ fpc' = [fpc EXCEPT ![f] = "done"]
  /\ UNCHANGED <<mu, cached, pkceVerifier, providerVars, callerVars, sent, ftok, disturbed>>

-----------------------------------------------------------------------------
(* The provider. *)

Ages(t) ==
  /\ kind[t] # "none" /\ age[t] < 2
  /\ age' = [age EXCEPT ![t] = @ + 1]
  /\ UNCHANGED <<mu, tokenVars, pkceVerifier, kind, revoked, callerVars, flowVars>>

Revokes(t) ==
  /\ kind[t] # "none" /\ t \notin revoked
  /\ revoked' = revoked \cup {t}
  /\ UNCHANGED <<mu, tokenVars, pkceVerifier, kind, age, callerVars, flowVars>>

CallerStep(c) == \/ ReadToken(c) \/ LockToken(c) \/ FetchToken(c) \/ Refresh(c)
                 \/ RefreshFetched(c) \/ Validate(c) \/ NextCall(c)
FlowStep(f) == \/ BuildAuthorizationURL(f) \/ TakeVerifier(f) \/ ClearVerifier(f)
               \/ RequestToken(f) \/ StoreToken(f)
Next == \/ \E c \in Callers : CallerStep(c)
        \/ \E f \in Flows : FlowStep(f)
        \/ \E t \in Tokens : Ages(t) \/ Revokes(t)
Spec == Init /\ [][Next]_vars

-----------------------------------------------------------------------------
(* The type invariant. *)
TypeOK ==
  /\ mu \in Callers \cup {None} /\ pkceVerifier \in Flows \cup {None}
  /\ currentToken \in Tokens /\ cached \in Tokens
  /\ kind \in [Tokens -> {"none", "client", "user"}] /\ age \in [Tokens -> 0..2]
  /\ revoked \subseteq Tokens
  /\ pc \in [Callers -> CallerPcs] /\ tok \in [Callers -> Tokens \cup {NoToken}]
  /\ taken \in [Callers -> 0..2]
  /\ fpc \in [Flows -> FlowPcs] /\ sent \in [Flows -> Flows \cup {None}]
  /\ ftok \in [Flows -> Tokens \cup {NoToken}] /\ disturbed \subseteq Flows
  /\ \A c \in Callers : pc[c] \in {"have", "ok", "refused", "unchecked"} => tok[c] \in Tokens
  /\ \A f \in Flows : fpc[f] = "store" => ftok[f] \in Tokens

(* A receiver that did check a token refuses it only if it was withdrawn   *)
(* or was under way for as long as the margin: also when callers, flows    *)
(* and refreshes replace the token meanwhile (oauth.go:429-456).           *)
RefusedOnlyIfLate ==
  \A c \in Callers :
    pc[c] = "refused" => tok[c] \in revoked \/ age[tok[c]] >= taken[c] + 2

(* The token of a user stays in use until it is about to expire: a caller  *)
(* that waited for the lock with an old token in mind does not put the     *)
(* bridge's own token in its place; Refresh does (oauth.go:443-446, 465).  *)
UserTokenKept ==
  [][kind[currentToken] = "user" /\ Valid(currentToken) /\ currentToken' # currentToken
       => \/ \E c \in Callers : Refresh(c) \/ RefreshFetched(c)
          \/ \E f \in Flows : StoreToken(f)]_vars

(* One verifier is kept for all flows: the exchange of a flow is rejected  *)
(* only after another flow made or cleared the verifier while this one's   *)
(* user was away, or on its second attempt (oauth.go:505-530, 651-655).    *)
RejectedOnlyIfDisturbed == \A f \in Flows : fpc[f] = "rejected" => f \in disturbed
=============================================================================
