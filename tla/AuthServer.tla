------------------------------ MODULE AuthServer ------------------------------
(***************************************************************************)
(* The OAuth authorization server (internal/authserver): a login, by the   *)
(* form of the built-in mode or at the upstream identity provider of the   *)
(* federated mode, becomes an authorization code in the memory storage,    *)
(* the code becomes tokens at the token endpoint, and refresh tokens are   *)
(* rotated.  Handlers run concurrently, each storage call takes its own    *)
(* mutex, entries expire and cleanup goroutines remove them.               *)
(*                                                                         *)
(* A request that is answered with an error before it changed anything,    *)
(* the 429 of the rate limiter among them, is a stuttering step.           *)
(* Browsers, OAuth clients and the identity provider are the environment.  *)
(***************************************************************************)
EXTENDS Integers, FiniteSets

CONSTANTS
  Logins,       \* GET requests to /oauth/authorize
  Handlers,     \* POSTs of the login form, or callbacks
  TokenReqs,    \* POSTs to /oauth/token
  Uris, Allowed, Loopback,  \* redirect URIs; allowedRedirectURIs; the http loopback ones, that
                            \* differ in the port only
  Requested, UserScopes, Supported,  \* scopes: of requests, of the user, scopesSupported
  MaxCodes, MaxTokens, MaxForms,     \* bounds of the model: codes of a login, tokens, forms of a login
  CodesCap, TokensCap,               \* maxAuthCodes, maxRefreshTokens
  None

Codes == Logins \X (1..MaxCodes)
Tokens == 1..MaxTokens
Scopes == (UNION Requested) \cup UserScopes \cup Supported

CodeRecords == [scope : SUBSET Scopes, life : {"live", "expired"}]
TokenRecords == [code : Codes, scope : SUBSET Scopes, life : {"live", "expired", "gone"}]

(* What a token request holds: the code or refresh token it looked up, the *)
(* code that descends from, and its scopes.                                *)
Grants == [kind : {"code"}, id : Codes, code : Codes, scope : SUBSET Scopes]
          \cup [kind : {"refresh"}, id : Tokens, code : Codes, scope : SUBSET Scopes]

ASSUME ServerAssumption ==
  /\ MaxCodes \in Nat /\ MaxTokens \in Nat /\ MaxForms \in Nat \ {0}
  /\ CodesCap \in Nat /\ TokensCap \in Nat
  /\ Allowed \subseteq Uris /\ Loopback \subseteq Uris
  /\ None \notin Logins \cup CodeRecords \cup TokenRecords \cup Grants

VARIABLES
  mode, dcr,        \* cfg.Mode; cfg.AllowDynamicRegistration
  client,           \* the redirect URIs the client registered, or None
  begun, asked,     \* of each login: its request was accepted, and the scopes it asks for
  shown, forms,     \* forms shown for a login or redirects to the provider; CSRF tokens of it
  pending,          \* the pending requests of federated mode: young or old
  upstream,         \* the provider's code for a login: none, issued, used
  discovery, jwks,  \* the OIDC client's caches: a document; keys that are current or stale
  hpc, hlogin,      \* each handler: its place and the login it works for
  codes, made,      \* storage.authCodes; how many were ever made for a login
  tpc, tgrant, twrong,  \* each token request: its place, what it presents, what is wrong with it
  tokens, issued,   \* storage.refreshTokens, also those that are gone; how many were issued
  overlapped,       \* codes of which two token requests were under way at the same time
  closed            \* Close was called

config == <<mode, dcr>>
loginVars == <<client, begun, asked, shown, forms, pending, upstream, discovery, jwks>>
handlerVars == <<hpc, hlogin>>
codeVars == <<codes, made>>
tokenVars == <<tpc, tgrant, twrong, tokens, issued, overlapped>>
vars == <<config, loginVars, handlerVars, codeVars, tokenVars, closed>>

Init ==
  /\ mode \in {"builtin", "federated"} /\ dcr \in BOOLEAN
  /\ client = None
  /\ begun = [f \in Logins |-> FALSE] /\ asked = [f \in Logins |-> {}]
  /\ shown = [f \in Logins |-> 0] /\ forms = [f \in Logins |-> 0]
  /\ pending = [f \in Logins |-> "none"] /\ upstream = [f \in Logins |-> "none"]
  /\ discovery = FALSE /\ jwks = "none"
  /\ hpc = [h \in Handlers |-> "idle"] /\ hlogin = [h \in Handlers |-> None]
  /\ codes = [c \in Codes |-> None] /\ made = [f \in Logins |-> 0]
  /\ tpc = [t \in TokenReqs |-> "idle"] /\ tgrant = [t \in TokenReqs |-> None]
  /\ twrong = [t \in TokenReqs |-> FALSE]
  /\ tokens = [n \in Tokens |-> None] /\ issued = 0
  /\ overlapped = {}
  /\ closed = FALSE

-----------------------------------------------------------------------------
(* Clients and redirect URIs. *)

(* A loopback URI matches one with another port. *)
isAllowedRedirectURI(u, list) == u \in list \/ (u \in Loopback /\ list \cap Loopback # {})

(* handleRegister; that the store of clients is full is an error response. *)
Register ==
  /\ dcr /\ client = None
  /\ \E us \in (SUBSET Uris) \ {{}} :
       (\A u \in us : isAllowedRedirectURI(u, Allowed)) /\ client' = us
  /\ UNCHANGED <<config, begun, asked, shown, forms, pending, upstream, discovery, jwks,
                 handlerVars, codeVars, tokenVars, closed>>

checkRegisteredClient(u) ==
  IF client = None THEN ~dcr ELSE isAllowedRedirectURI(u, client)

-----------------------------------------------------------------------------
(* The authorization endpoint, built-in mode. *)

(* showLoginForm, which makes a CSRF token. *)
showLoginForm(f, n) == shown' = [shown EXCEPT ![f] = @ + n] /\ forms' = [forms EXCEPT ![f] = @ + n]

validateAuthorizeRequest(u) == isAllowedRedirectURI(u, Allowed)

Begin(f, u, s) ==
  /\ ~begun[f]
  /\ validateAuthorizeRequest(u) /\ checkRegisteredClient(u)
  /\ begun' = [begun EXCEPT ![f] = TRUE] /\ asked' = [asked EXCEPT ![f] = s]

handleGet(f) ==
  /\ mode = "builtin"
  /\ \E u \in Uris, s \in Requested : Begin(f, u, s)
  /\ showLoginForm(f, 1)
  /\ UNCHANGED <<config, client, pending, upstream, discovery, jwks, handlerVars, codeVars,
                 tokenVars, closed>>

(* Mutant: a CSRF token can be used again. *)
validateCSRFToken_Reusable(f) == forms[f] > 0 /\ UNCHANGED forms

(* Mutant: a CSRF token that is not there is not noticed. *)
validateCSRFToken_Unchecked(f) == forms' = [forms EXCEPT ![f] = @ - 1]

(* validateCSRFToken takes the token out of the map; one that was used or  *)
(* is too old is an error.                                                 *)
validateCSRFToken(f) == forms[f] > 0 /\ forms' = [forms EXCEPT ![f] = @ - 1]

(* The form is submitted with the right name and password. *)
PostForm(h, f) ==
  /\ hpc[h] = "idle" /\ begun[f]
  /\ validateCSRFToken(f)
  /\ hpc' = [hpc EXCEPT ![h] = "store"] /\ hlogin' = [hlogin EXCEPT ![h] = f]
  /\ UNCHANGED <<config, client, begun, asked, shown, pending, upstream, discovery, jwks, codeVars,
                 tokenVars, closed>>

(* It is submitted with nothing or with a wrong password, and shown again. *)
PostWrongForm(f) ==
  /\ begun[f] /\ forms[f] > 0 /\ shown[f] < MaxForms
  /\ shown' = [shown EXCEPT ![f] = @ + 1]
  /\ UNCHANGED <<config, client, begun, asked, forms, pending, upstream, discovery, jwks,
                 handlerVars, codeVars, tokenVars, closed>>

(* A CSRF token gets too old, or its form is left. *)
CSRFExpires(f) ==
  /\ forms[f] > 0 /\ forms' = [forms EXCEPT ![f] = @ - 1]
  /\ UNCHANGED <<config, client, begun, asked, shown, pending, upstream, discovery, jwks,
                 handlerVars, codeVars, tokenVars, closed>>

FilterScopes(requested, allowed) == requested \cap allowed

(* Mutant: the scopes to fall back on are not the user's. *)
GrantedScopes_Unfiltered(f) ==
  LET granted == FilterScopes(asked[f], UserScopes) IN
  IF granted # {} THEN granted
  ELSE IF mode = "builtin" THEN Supported ELSE UserScopes

(* Scopes that were asked for and are the user's, else a default. *)
GrantedScopes(f) ==
  LET granted == FilterScopes(asked[f], UserScopes) IN
  IF granted # {} THEN granted
  ELSE IF mode = "builtin" THEN FilterScopes(Supported, UserScopes) ELSE UserScopes

Stored == {c \in Codes : codes[c] # None}

(* StoreAuthorizationCode and the redirect to the client, or the error     *)
(* that the storage is full.                                               *)
StoreCode(h) ==
  /\ hpc[h] = "store"
  /\ hpc' = [hpc EXCEPT ![h] = "idle"] /\ hlogin' = [hlogin EXCEPT ![h] = None]
  /\ LET f == hlogin[h] IN
     IF Cardinality(Stored) < CodesCap
       THEN /\ made[f] < MaxCodes /\ made' = [made EXCEPT ![f] = @ + 1]
            /\ codes' = [codes EXCEPT ![<<f, made[f] + 1>>] =
                           [scope |-> GrantedScopes(f), life |-> "live"]]
       ELSE UNCHANGED codeVars
  /\ UNCHANGED <<config, loginVars, tokenVars, closed>>

-----------------------------------------------------------------------------
(* Federated mode. *)

(* Discover, and GetAuthorizationURL on it, fail only before the document  *)
(* is cached; the pending request stays when they do.                      *)
Discover(ok) == IF ok THEN discovery' = TRUE ELSE ~discovery /\ UNCHANGED discovery

ServeFederated(f) ==
  /\ mode = "federated"
  /\ \E u \in Uris, s \in Requested : Begin(f, u, s)
  /\ pending' = [pending EXCEPT ![f] = "young"]
  /\ shown' = [shown EXCEPT ![f] = 1]
  /\ \E ok \in BOOLEAN : /\ Discover(ok)
                         /\ upstream' = [upstream EXCEPT ![f] = IF ok THEN "asked" ELSE @]
  /\ UNCHANGED <<config, client, forms, jwks, handlerVars, codeVars, tokenVars, closed>>

(* The user logs in at the provider, which makes a code. *)
UpstreamLogin(f) ==
  /\ upstream[f] = "asked" /\ upstream' = [upstream EXCEPT ![f] = "issued"]
  /\ UNCHANGED <<config, client, begun, asked, shown, forms, pending, discovery, jwks, handlerVars,
                 codeVars, tokenVars, closed>>

(* HandleCallback, with a code or with the provider's error, looks for the *)
(* pending request; a browser may load the callback twice.                 *)
CallbackLookup(h, f) ==
  /\ hpc[h] = "idle" /\ pending[f] # "none"
  /\ \/ upstream[f] \in {"issued", "used"} /\ hpc' = [hpc EXCEPT ![h] = "take"]
     \/ upstream[f] = "asked" /\ hpc' = [hpc EXCEPT ![h] = "drop"]
  /\ hlogin' = [hlogin EXCEPT ![h] = f]
  /\ UNCHANGED <<config, loginVars, codeVars, tokenVars, closed>>

(* It removes the pending request under another lock. *)
CallbackRemove(h) ==
  /\ hpc[h] \in {"take", "drop"}
  /\ pending' = [pending EXCEPT ![hlogin[h]] = "none"]
  /\ IF hpc[h] = "take" THEN hpc' = [hpc EXCEPT ![h] = "exchange"] /\ UNCHANGED hlogin
     ELSE hpc' = [hpc EXCEPT ![h] = "idle"] /\ hlogin' = [hlogin EXCEPT ![h] = None]
  /\ UNCHANGED <<config, client, begun, asked, shown, forms, upstream, discovery, jwks, codeVars,
                 tokenVars, closed>>

Fail(h) == hpc' = [hpc EXCEPT ![h] = "idle"] /\ hlogin' = [hlogin EXCEPT ![h] = None]

(* ExchangeCode: the provider accepts its code once. *)
ExchangeCode(h) ==
  /\ hpc[h] = "exchange"
  /\ \/ /\ upstream[hlogin[h]] = "issued"
        /\ upstream' = [upstream EXCEPT ![hlogin[h]] = "used"]
        /\ hpc' = [hpc EXCEPT ![h] = "validate"] /\ UNCHANGED hlogin
     \/ Fail(h) /\ UNCHANGED upstream
  /\ UNCHANGED <<config, client, begun, asked, shown, forms, pending, discovery, jwks, codeVars,
                 tokenVars, closed>>

(* GetJWKS: from its cache, or fetched. *)
GetJWKS == IF jwks = "none" THEN jwks' = "current" ELSE UNCHANGED jwks

(* ValidateIDToken and the domain: the key must be among those cached, so  *)
(* a rotation of the provider's keys fails logins for up to an hour.       *)
ValidateIDToken(h) ==
  /\ hpc[h] = "validate"
  /\ \/ GetJWKS /\ jwks' = "current" /\ hpc' = [hpc EXCEPT ![h] = "store"] /\ UNCHANGED hlogin
     \/ GetJWKS /\ Fail(h)
     \/ UNCHANGED jwks /\ Fail(h)
  /\ UNCHANGED <<config, client, begun, asked, shown, forms, pending, upstream, discovery, codeVars,
                 tokenVars, closed>>

(* The provider rotates its keys; the cache is an hour old. *)
JwksAges ==
  /\ \/ jwks = "current" /\ jwks' = "stale"
     \/ jwks # "none" /\ jwks' = "none"
  /\ UNCHANGED <<config, client, begun, asked, shown, forms, pending, upstream, discovery,
                 handlerVars, codeVars, tokenVars, closed>>

-----------------------------------------------------------------------------
(* The token endpoint. *)

UnderWay(c) == {t \in TokenReqs : tpc[t] # "idle" /\ tgrant[t].code = c}

Hold(t, g, wrong) ==
  /\ tpc' = [tpc EXCEPT ![t] = "got"]
  /\ tgrant' = [tgrant EXCEPT ![t] = g] /\ twrong' = [twrong EXCEPT ![t] = wrong]
  /\ overlapped' = IF UnderWay(g.code) = {} THEN overlapped ELSE overlapped \cup {g.code}

(* handleAuthorizationCode up to GetAuthorizationCode.  What is wrong is   *)
(* the client, the redirect URI or the verifier.                           *)
GetCode(t, c) ==
  /\ tpc[t] = "idle" /\ codes[c] # None /\ codes[c].life = "live"
  /\ \E wrong \in BOOLEAN :
       Hold(t, [kind |-> "code", id |-> c, code |-> c, scope |-> codes[c].scope], wrong)
  /\ UNCHANGED <<config, loginVars, handlerVars, codeVars, tokens, issued, closed>>

(* The end of a token request. *)
Done(t) ==
  /\ tpc' = [tpc EXCEPT ![t] = "idle"]
  /\ tgrant' = [tgrant EXCEPT ![t] = None] /\ twrong' = [twrong EXCEPT ![t] = FALSE]

Continue(t) ==
  IF twrong[t] THEN Done(t)
               ELSE tpc' = [tpc EXCEPT ![t] = "issue"] /\ UNCHANGED <<tgrant, twrong>>

(* Mutant: the code is not deleted. *)
DeleteCode_Keep(t) ==
  /\ tpc[t] = "got" /\ tgrant[t].kind = "code"
  /\ Continue(t)
  /\ UNCHANGED <<config, loginVars, handlerVars, codeVars, tokens, issued, overlapped, closed>>

(* The code is deleted, and then compared with the request. *)
DeleteCode(t) ==
  /\ tpc[t] = "got" /\ tgrant[t].kind = "code"
  /\ codes' = [codes EXCEPT ![tgrant[t].id] = None]
  /\ Continue(t)
  /\ UNCHANGED <<config, loginVars, handlerVars, made, tokens, issued, overlapped, closed>>

(* handleRefreshToken up to GetRefreshToken: a client that does not match  *)
(* is an error before anything is deleted.                                 *)
GetRefresh(t, n) ==
  /\ tpc[t] = "idle" /\ tokens[n] # None /\ tokens[n].life = "live"
  /\ Hold(t, [kind |-> "refresh", id |-> n, code |-> tokens[n].code, scope |-> tokens[n].scope], FALSE)
  /\ UNCHANGED <<config, loginVars, handlerVars, codeVars, tokens, issued, closed>>

(* The rotation: the old refresh token is deleted. *)
DeleteRefresh(t) ==
  /\ tpc[t] = "got" /\ tgrant[t].kind = "refresh"
  /\ tokens' = [tokens EXCEPT ![tgrant[t].id].life = "gone"]
  /\ Continue(t)
  /\ UNCHANGED <<config, loginVars, handlerVars, codeVars, issued, overlapped, closed>>

StoredTokens == {n \in Tokens : tokens[n] # None /\ tokens[n].life # "gone"}

(* issueTokens: when the storage is full the client is left with nothing,  *)
(* for the code or the refresh token it came with is gone.                 *)
issueTokens(t) ==
  /\ tpc[t] = "issue"
  /\ Done(t)
  /\ IF Cardinality(StoredTokens) < TokensCap
       THEN /\ issued < MaxTokens /\ issued' = issued + 1
            /\ tokens' = [tokens EXCEPT ![issued + 1] =
                 [code |-> tgrant[t].code, scope |-> tgrant[t].scope, life |-> "live"]]
       ELSE UNCHANGED <<tokens, issued>>
  /\ UNCHANGED <<config, loginVars, handlerVars, codeVars, overlapped, closed>>

-----------------------------------------------------------------------------
(* Time and the cleanup goroutines. *)

CodeExpires(c) ==
  /\ codes[c] # None /\ codes[c].life = "live"
  /\ codes' = [codes EXCEPT ![c].life = "expired"]
  /\ UNCHANGED <<config, loginVars, handlerVars, made, tokenVars, closed>>

TokenExpires(n) ==
  /\ tokens[n] # None /\ tokens[n].life = "live"
  /\ tokens' = [tokens EXCEPT ![n].life = "expired"]
  /\ UNCHANGED <<config, loginVars, handlerVars, codeVars, tpc, tgrant, twrong, issued, overlapped,
                 closed>>

PendingAges(f) ==
  /\ pending[f] = "young" /\ pending' = [pending EXCEPT ![f] = "old"]
  /\ UNCHANGED <<config, client, begun, asked, shown, forms, upstream, discovery, jwks,
                 handlerVars, codeVars, tokenVars, closed>>

ExpiredCodes == {c \in Codes : codes[c] # None /\ codes[c].life = "expired"}
ExpiredTokens == {n \in Tokens : tokens[n] # None /\ tokens[n].life = "expired"}

(* cleanupExpired has a critical section for each map.                     *)
CleanupCodes ==
  /\ ~closed /\ ExpiredCodes # {}
  /\ codes' = [c \in Codes |-> IF c \in ExpiredCodes THEN None ELSE codes[c]]
  /\ UNCHANGED <<config, loginVars, handlerVars, made, tokenVars, closed>>

CleanupTokens ==
  /\ ~closed /\ ExpiredTokens # {}
  /\ tokens' = [n \in Tokens |-> IF n \in ExpiredTokens THEN [tokens[n] EXCEPT !.life = "gone"]
                                                        ELSE tokens[n]]
  /\ UNCHANGED <<config, loginVars, handlerVars, codeVars, tpc, tgrant, twrong, issued, overlapped,
                 closed>>

(* Mutant: the comparison with the cutoff is the wrong way round. *)
Overdue_Inverted == {f \in Logins : pending[f] = "young"}

(* The pending requests that are older than ten minutes. *)
Overdue == {f \in Logins : pending[f] = "old"}

CleanupPending ==
  /\ ~closed /\ Overdue # {}
  /\ pending' = [f \in Logins |-> IF f \in Overdue THEN "none" ELSE pending[f]]
  /\ UNCHANGED <<config, client, begun, asked, shown, forms, upstream, discovery, jwks,
                 handlerVars, codeVars, tokenVars, closed>>

(* Server.Close ends the cleanup goroutines; handlers may be under way. *)
Close ==
  /\ ~closed /\ closed' = TRUE
  /\ UNCHANGED <<config, loginVars, handlerVars, codeVars, tokenVars>>

Login(f) == handleGet(f) \/ PostWrongForm(f) \/ CSRFExpires(f) \/ ServeFederated(f) \/ UpstreamLogin(f)
Handler(h) == \/ \E f \in Logins : PostForm(h, f) \/ CallbackLookup(h, f)
              \/ CallbackRemove(h) \/ ExchangeCode(h) \/ ValidateIDToken(h) \/ StoreCode(h)
TokenHandler(t) == \/ \E c \in Codes : GetCode(t, c)
                   \/ \E n \in Tokens : GetRefresh(t, n)
                   \/ DeleteCode(t) \/ DeleteRefresh(t) \/ issueTokens(t)
Clock == \/ \E c \in Codes : CodeExpires(c)
         \/ \E n \in Tokens : TokenExpires(n)
         \/ \E f \in Logins : PendingAges(f)
Cleanup == CleanupCodes \/ CleanupTokens \/ CleanupPending

Next == \/ Register \/ JwksAges \/ Clock \/ Cleanup \/ Close
        \/ \E f \in Logins : Login(f)
        \/ \E h \in Handlers : Handler(h)
        \/ \E t \in TokenReqs : TokenHandler(t)

(* Time passes and the tickers of the cleanup goroutines fire. *)
Fairness == /\ WF_vars(CleanupCodes) /\ WF_vars(CleanupTokens) /\ WF_vars(CleanupPending)
            /\ \A c \in Codes : WF_vars(CodeExpires(c))
            /\ \A n \in Tokens : WF_vars(TokenExpires(n))
            /\ \A f \in Logins : WF_vars(PendingAges(f))

Spec == Init /\ [][Next]_vars
FairSpec == Spec /\ Fairness

-----------------------------------------------------------------------------
TypeOK ==
  /\ mode \in {"builtin", "federated"} /\ dcr \in BOOLEAN
  /\ client \in (SUBSET Uris) \cup {None}
  /\ begun \in [Logins -> BOOLEAN] /\ asked \in [Logins -> SUBSET Scopes]
  /\ shown \in [Logins -> 0..MaxForms] /\ forms \in [Logins -> 0..MaxForms]
  /\ pending \in [Logins -> {"none", "young", "old"}]
  /\ upstream \in [Logins -> {"none", "asked", "issued", "used"}]
  /\ discovery \in BOOLEAN /\ jwks \in {"none", "current", "stale"}
  /\ hpc \in [Handlers -> {"idle", "take", "drop", "exchange", "validate", "store"}]
  /\ hlogin \in [Handlers -> Logins \cup {None}]
  /\ codes \in [Codes -> CodeRecords \cup {None}] /\ made \in [Logins -> 0..MaxCodes]
  /\ tpc \in [TokenReqs -> {"idle", "got", "issue"}]
  /\ tgrant \in [TokenReqs -> Grants \cup {None}] /\ twrong \in [TokenReqs -> BOOLEAN]
  /\ tokens \in [Tokens -> TokenRecords \cup {None}] /\ issued \in 0..MaxTokens
  /\ overlapped \subseteq Codes /\ closed \in BOOLEAN

(* A form that was shown, or a trip to the identity provider, ends in at   *)
(* most one code, however often it is submitted or the callback is loaded: *)
(* by the CSRF token, and by the provider's own one-time code where two    *)
(* callbacks find the same pending request (authorize.go:177,              *)
(* authorize_federated.go:207-219).                                        *)
OneCodePerForm ==
  \A f \in Logins :
    made[f] + forms[f] + Cardinality({h \in Handlers : hlogin[h] = f /\ hpc[h] \in {"validate", "store"}})
      <= shown[f]

(* What a login can be turned into tokens by: its code, a refresh token, a *)
(* request that has deleted one of them and not issued tokens yet.         *)
Credentials(c) ==
  {<<"code", c>> : x \in {y \in {c} : codes[y] # None}}
  \cup {<<"token", n>> : n \in {m \in StoredTokens : tokens[m].code = c}}
  \cup {<<"request", t>> : t \in {r \in TokenReqs : tpc[r] = "issue" /\ tgrant[r].code = c}}

(* A login has one credential at a time: neither its code nor a rotated    *)
(* refresh token outlives its use, unless two requests that present them   *)
(* overlap, for the lookup and the deletion are two calls of the storage   *)
(* (token.go:155-169, 217-236).                                            *)
OneCredential ==
  \A c \in Codes \ overlapped : \A x, y \in Credentials(c) : x = y

(* No code or refresh token carries a scope the user does not have,        *)
(* whatever was asked for and however often it was rotated                 *)
(* (authorize.go:289-294, authorize_federated.go:233-239, token.go:189).   *)
ScopesNarrow ==
  /\ \A c \in Codes : codes[c] # None => codes[c].scope \subseteq UserScopes
  /\ \A n \in Tokens : tokens[n] # None => tokens[n].scope \subseteq UserScopes

(* What a login leaves behind when it is abandoned at any point, also when *)
(* the provider cannot be reached (authorize_federated.go:142-156), is     *)
(* removed, so it cannot fill the storage for good (storage_memory.go:79). *)
AbandonedIsForgotten ==
  /\ \A f \in Logins : pending[f] # "none" ~> (pending[f] = "none" \/ closed)
  /\ \A c \in Codes : codes[c] # None ~> (codes[c] = None \/ closed)

(* The scopes that can still be had by a code: its own, those of a refresh *)
(* token that descends from it, those of a request that looked one up.     *)
Carried(c) ==
  {codes[d].scope : d \in {c} \cap Stored}
  \cup {tokens[n].scope : n \in {m \in StoredTokens : tokens[m].code = c}}
  \cup {tgrant[t].scope : t \in UnderWay(c)}

Unmade == {c \in Codes : c[2] > made[c[1]]}
Granted == {c \in Codes : Carried(c) # {}}
GrantScope == [c \in Codes |-> UNION Carried(c)]

(* A grant keeps the scopes of the user it was made with through every     *)
(* rotation, and once its code, tokens and requests are gone nothing of it *)
(* comes back, whatever requests overlap, expire or meet a full storage    *)
(* (token.go:115-297, storage_memory.go:79-185).                           *)
Service == INSTANCE GrantService WITH
  new <- Unmade, live <- Granted, scope <- GrantScope
Promise == Service!Spec
=============================================================================
