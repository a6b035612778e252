--------------------------- MODULE AuthServerProofs ---------------------------
(***************************************************************************)
(* Theorems about AuthServer: the type invariant, that no scope a user     *)
(* does not have is ever granted, that a login has one credential at a     *)
(* time, that a form yields one code, and that AuthServer implements       *)
(* GrantService.                                                           *)
(***************************************************************************)
EXTENDS AuthServer, FiniteSetTheorems, TLAPS

(* What TypeOK needs to be preserved: forms are counted as they are shown, *)
(* and whoever is at work knows what it works for.                         *)
Shape ==
  /\ \A f \in Logins : forms[f] <= shown[f] /\ (~begun[f] => shown[f] = 0)
  /\ \A h \in Handlers : hpc[h] # "idle" => hlogin[h] \in Logins
  /\ \A t \in TokenReqs : tpc[t] # "idle" => tgrant[t] \in Grants

(* A refresh token that a request holds was issued: it may be gone. *)
Holding ==
  \A t \in TokenReqs :
    tpc[t] # "idle" /\ tgrant[t].kind = "refresh" => tokens[tgrant[t].id] # None

TInv == TypeOK /\ Shape /\ Holding

LEMMA HoldingStill == Holding /\ UNCHANGED <<tpc, tgrant, tokens>> => Holding'
BY DEF Holding

LEMMA ScopesKnown == UserScopes \subseteq Scopes
BY DEF Scopes

LEMMA InitTyped == Init => TInv
<1>. SUFFICES ASSUME Init PROVE TInv  OBVIOUS
<1>. USE ServerAssumption DEF Init
<1>1. mode \in {"builtin", "federated"} /\ dcr \in BOOLEAN /\ client \in (SUBSET Uris) \cup {None}
  OBVIOUS
<1>2. /\ begun \in [Logins -> BOOLEAN] /\ asked \in [Logins -> SUBSET Scopes]
      /\ shown \in [Logins -> 0..MaxForms] /\ forms \in [Logins -> 0..MaxForms]
  OBVIOUS
<1>3. /\ pending \in [Logins -> {"none", "young", "old"}]
      /\ upstream \in [Logins -> {"none", "asked", "issued", "used"}]
      /\ discovery \in BOOLEAN /\ jwks \in {"none", "current", "stale"}
  OBVIOUS
<1>4. /\ hpc \in [Handlers -> {"idle", "take", "drop", "exchange", "validate", "store"}]
      /\ hlogin \in [Handlers -> Logins \cup {None}]
  OBVIOUS
<1>5. codes \in [Codes -> CodeRecords \cup {None}] /\ made \in [Logins -> 0..MaxCodes]
  OBVIOUS
<1>6. /\ tpc \in [TokenReqs -> {"idle", "got", "issue"}]
      /\ tgrant \in [TokenReqs -> Grants \cup {None}] /\ twrong \in [TokenReqs -> BOOLEAN]
  OBVIOUS
<1>7. /\ tokens \in [Tokens -> TokenRecords \cup {None}] /\ issued \in 0..MaxTokens
      /\ overlapped \subseteq Codes /\ closed \in BOOLEAN
  <2>1. closed \in BOOLEAN OBVIOUS
  <2>2. tokens \in [Tokens -> TokenRecords \cup {None}] OBVIOUS
  <2>3. overlapped \subseteq Codes /\ issued \in 0..MaxTokens OBVIOUS
  <2>. QED BY <2>1, <2>2, <2>3, Zenon
<1>8. Shape /\ Holding BY DEF Shape, Holding
<1>. QED BY <1>1, <1>2, <1>3, <1>4, <1>5, <1>6, <1>7, <1>8 DEF TInv, TypeOK

(* The actions that leave storage and token requests alone. *)
Browser(f) == handleGet(f) \/ PostWrongForm(f) \/ CSRFExpires(f) \/ ServeFederated(f)
              \/ UpstreamLogin(f) \/ PendingAges(f)
Work(h) == \/ \E f \in Logins : PostForm(h, f) \/ CallbackLookup(h, f)
           \/ CallbackRemove(h) \/ ExchangeCode(h) \/ ValidateIDToken(h)

LEMMA BrowserTyped ==
  ASSUME TInv, NEW f \in Logins, Browser(f) PROVE TInv'
<1>. USE ServerAssumption DEF TInv, TypeOK, Shape, handlerVars, codeVars, tokenVars, config
<1>0. Holding'
  BY HoldingStill DEF Browser, handleGet, PostWrongForm, CSRFExpires, ServeFederated, UpstreamLogin,
                      PendingAges
<1>1. CASE handleGet(f)
  <2>1. PICK u \in Uris, s \in Requested : Begin(f, u, s) BY <1>1 DEF handleGet
  <2>2. shown[f] = 0 /\ forms[f] = 0 BY <2>1 DEF Begin
  <2>3. shown' = [shown EXCEPT ![f] = 1] /\ forms' = [forms EXCEPT ![f] = 1]
    BY <1>1, <2>2 DEF handleGet, showLoginForm
  <2>4. asked' \in [Logins -> SUBSET Scopes] BY <2>1 DEF Begin, Scopes
  <2>5. begun' = [begun EXCEPT ![f] = TRUE] BY <2>1 DEF Begin
  <2>. QED BY <1>0, <1>1, <2>3, <2>4, <2>5 DEF handleGet
<1>2. CASE PostWrongForm(f)
  BY <1>0, <1>2 DEF PostWrongForm
<1>3. CASE CSRFExpires(f)
  BY <1>0, <1>3 DEF CSRFExpires
<1>4. CASE ServeFederated(f)
  <2>1. PICK u \in Uris, s \in Requested : Begin(f, u, s) BY <1>4 DEF ServeFederated
  <2>2. shown[f] = 0 /\ forms[f] = 0 BY <2>1 DEF Begin
  <2>3. asked' \in [Logins -> SUBSET Scopes] BY <2>1 DEF Begin, Scopes
  <2>4. begun' = [begun EXCEPT ![f] = TRUE] BY <2>1 DEF Begin
  <2>5. upstream' \in [Logins -> {"none", "asked", "issued", "used"}] /\ discovery' \in BOOLEAN
    <3>1. PICK ok \in BOOLEAN : /\ Discover(ok)
                               /\ upstream' = [upstream EXCEPT ![f] = IF ok THEN "asked" ELSE @]
      BY <1>4 DEF ServeFederated
    <3>2. discovery' \in BOOLEAN BY <3>1 DEF Discover
    <3>. QED BY <3>1, <3>2
  <2>6. shown' = [shown EXCEPT ![f] = 1] /\ pending' = [pending EXCEPT ![f] = "young"]
    BY <1>4 DEF ServeFederated
  <2>. QED BY <1>0, <1>4, <2>2, <2>3, <2>4, <2>5, <2>6 DEF ServeFederated
<1>5. CASE UpstreamLogin(f)
  BY <1>0, <1>5 DEF UpstreamLogin
<1>6. CASE PendingAges(f)
  BY <1>0, <1>6 DEF PendingAges
<1>. QED BY <1>1, <1>2, <1>3, <1>4, <1>5, <1>6 DEF Browser

LEMMA WorkTyped ==
  ASSUME TInv, NEW h \in Handlers, Work(h) PROVE TInv'
<1>. USE ServerAssumption DEF TInv, TypeOK, Shape, loginVars, codeVars, tokenVars, config
<1>0. Holding'
  BY HoldingStill DEF Work, PostForm, CallbackLookup, CallbackRemove, ExchangeCode, ValidateIDToken
<1>1. ASSUME NEW f \in Logins, PostForm(h, f) PROVE TInv'
  BY <1>0, <1>1 DEF PostForm, validateCSRFToken
<1>2. ASSUME NEW f \in Logins, CallbackLookup(h, f) PROVE TInv'
  BY <1>0, <1>2 DEF CallbackLookup
<1>3. CASE CallbackRemove(h)
  BY <1>0, <1>3 DEF CallbackRemove
<1>4. CASE ExchangeCode(h)
  BY <1>0, <1>4 DEF ExchangeCode, Fail
<1>5. CASE ValidateIDToken(h)
  BY <1>0, <1>5 DEF ValidateIDToken, Fail, GetJWKS
<1>. QED BY <1>1, <1>2, <1>3, <1>4, <1>5 DEF Work

(* The actions on codes and tokens. *)
LEMMA StoreCodeTyped ==
  ASSUME TInv, NEW h \in Handlers, StoreCode(h) PROVE TInv'
<1>. USE ServerAssumption DEF TInv, TypeOK, Shape, StoreCode, config, loginVars, tokenVars
<1>1. hlogin[h] \in Logins OBVIOUS
<1>2. GrantedScopes(hlogin[h]) \subseteq Scopes
  BY ScopesKnown DEF GrantedScopes, FilterScopes
<1>3. /\ hpc' \in [Handlers -> {"idle", "take", "drop", "exchange", "validate", "store"}]
      /\ hlogin' \in [Handlers -> Logins \cup {None}]
      /\ \A g \in Handlers : hpc'[g] # "idle" => hlogin'[g] \in Logins
  OBVIOUS
<1>4. codes' \in [Codes -> CodeRecords \cup {None}] /\ made' \in [Logins -> 0..MaxCodes]
  <2>1. [scope |-> GrantedScopes(hlogin[h]), life |-> "live"] \in CodeRecords
    BY <1>2 DEF CodeRecords
  <2>2. CASE Cardinality(Stored) < CodesCap
    <3>. DEFINE f == hlogin[h]
                new == [scope |-> GrantedScopes(f), life |-> "live"]
    <3>1. /\ made[f] < MaxCodes /\ made' = [made EXCEPT ![f] = made[f] + 1]
          /\ codes' = [codes EXCEPT ![<<f, made[f] + 1>>] = new]
      BY <2>2
    <3>. HIDE DEF new
    <3>2. made' \in [Logins -> 0..MaxCodes] BY <1>1, <3>1
    <3>3. codes' \in [Codes -> CodeRecords \cup {None}] BY <2>1, <3>1 DEF new
    <3>. QED BY <3>2, <3>3
  <2>3. CASE ~(Cardinality(Stored) < CodesCap)
    BY <2>3 DEF codeVars
  <2>. QED BY <2>2, <2>3
<1>5. Holding' BY HoldingStill
<1>. QED BY <1>3, <1>4, <1>5

LEMMA GrantKinds ==
  /\ \A g \in Grants : /\ g.kind \in {"code", "refresh"} /\ g.code \in Codes /\ g.scope \in SUBSET Scopes
                       /\ g.kind = "code" => g.id \in Codes
                       /\ g.kind = "refresh" => g.id \in Tokens
  /\ \A c \in Codes, s \in SUBSET Scopes : [kind |-> "code", id |-> c, code |-> c, scope |-> s] \in Grants
  /\ \A n \in Tokens, c \in Codes, s \in SUBSET Scopes :
       [kind |-> "refresh", id |-> n, code |-> c, scope |-> s] \in Grants
BY DEF Grants

LEMMA GetTyped ==
  ASSUME TInv, NEW t \in TokenReqs,
         (\E c \in Codes : GetCode(t, c)) \/ (\E n \in Tokens : GetRefresh(t, n))
  PROVE  TInv'
<1>1. ASSUME NEW g \in Grants, NEW wrong \in BOOLEAN, Hold(t, g, wrong),
             g.kind = "refresh" => tokens[g.id] # None,
             UNCHANGED <<config, loginVars, handlerVars, codeVars, tokens, issued, closed>>
      PROVE  TInv'
  <2>1. overlapped' \subseteq Codes BY <1>1, GrantKinds DEF Hold, TInv, TypeOK
  <2>2. \A u \in TokenReqs : tpc'[u] # "idle" => tgrant'[u] \in Grants
    BY <1>1 DEF Hold, TInv, TypeOK, Shape
  <2>3. Holding' BY <1>1 DEF Hold, TInv, TypeOK, Holding
  <2>. QED BY <1>1, <2>1, <2>2, <2>3 DEF Hold, TInv, TypeOK, Shape, config, loginVars, handlerVars, codeVars
<1>2. ASSUME NEW c \in Codes, GetCode(t, c) PROVE TInv'
  <2>1. codes[c].scope \in SUBSET Scopes
    BY <1>2, ServerAssumption DEF GetCode, TInv, TypeOK, CodeRecords
  <2>2. PICK wrong \in BOOLEAN :
          Hold(t, [kind |-> "code", id |-> c, code |-> c, scope |-> codes[c].scope], wrong)
    BY <1>2 DEF GetCode
  <2>. QED BY <1>1, <1>2, <2>1, <2>2, GrantKinds DEF GetCode
<1>3. ASSUME NEW n \in Tokens, GetRefresh(t, n) PROVE TInv'
  <2>1. tokens[n].code \in Codes /\ tokens[n].scope \in SUBSET Scopes
    BY <1>3, ServerAssumption DEF GetRefresh, TInv, TypeOK, TokenRecords
  <2>. QED BY <1>1, <1>3, <2>1, GrantKinds DEF GetRefresh
<1>. QED BY <1>2, <1>3

LEMMA EndsTyped ==
  ASSUME TInv, NEW t \in TokenReqs, DeleteCode(t) \/ DeleteRefresh(t) \/ issueTokens(t)
  PROVE  TInv'
<1>. USE ServerAssumption DEF TInv, TypeOK, Shape, config, loginVars, handlerVars
<1>1. tgrant[t] \in Grants BY DEF DeleteCode, DeleteRefresh, issueTokens
<1>2. ASSUME Continue(t) \/ Done(t)
      PROVE  /\ tpc' \in [TokenReqs -> {"idle", "got", "issue"}]
             /\ tgrant' \in [TokenReqs -> Grants \cup {None}] /\ twrong' \in [TokenReqs -> BOOLEAN]
             /\ \A u \in TokenReqs : tpc'[u] # "idle" =>
                  tgrant'[u] \in Grants /\ tpc[u] # "idle" /\ tgrant'[u] = tgrant[u]
  <2>1. tpc[t] # "idle" BY DEF DeleteCode, DeleteRefresh, issueTokens
  <2>2. CASE Done(t)
    BY <2>2 DEF Done
  <2>3. CASE ~twrong[t] /\ Continue(t)
    BY <1>1, <2>1, <2>3 DEF Continue
  <2>. QED BY <1>2, <2>2, <2>3 DEF Continue
<1>6. ASSUME Continue(t) \/ Done(t), \A n \in Tokens : tokens[n] # None => tokens'[n] # None
      PROVE  Holding'
  BY <1>2, <1>6, GrantKinds DEF Holding
<1>3. CASE DeleteCode(t)
  BY <1>2, <1>3, <1>6 DEF DeleteCode
<1>4. CASE DeleteRefresh(t)
  <2>1. tokens' \in [Tokens -> TokenRecords \cup {None}]
    <3>1. tgrant[t].id \in Tokens BY <1>1, <1>4, GrantKinds DEF DeleteRefresh
    <3>2. tokens[tgrant[t].id] \in TokenRecords BY <1>4, <3>1 DEF DeleteRefresh, Holding
    <3>3. [tokens[tgrant[t].id] EXCEPT !.life = "gone"] \in TokenRecords BY <3>2 DEF TokenRecords
    <3>. QED BY <1>4, <3>1, <3>3 DEF DeleteRefresh
  <2>2. \A n \in Tokens : tokens[n] # None => tokens'[n] # None
    <3>. DEFINE r == [tokens[tgrant[t].id] EXCEPT !.life = "gone"]
    <3>1. tgrant[t].id \in Tokens BY <1>1, <1>4, GrantKinds DEF DeleteRefresh
    <3>2. tokens[tgrant[t].id] \in TokenRecords BY <1>4, <3>1 DEF DeleteRefresh, Holding
    <3>3. r # None BY <3>2 DEF TokenRecords
    <3>4. tokens' = [tokens EXCEPT ![tgrant[t].id] = r] BY <1>4 DEF DeleteRefresh
    <3>. HIDE DEF r
    <3>. QED BY <3>3, <3>4
  <2>3. Holding' BY <1>4, <1>6, <2>2 DEF DeleteRefresh
  <2>. QED BY <1>2, <1>4, <2>1, <2>3 DEF DeleteRefresh, codeVars
<1>5. CASE issueTokens(t)
  <2>1. [code |-> tgrant[t].code, scope |-> tgrant[t].scope, life |-> "live"] \in TokenRecords
    BY <1>1, GrantKinds DEF TokenRecords
  <2>2. tokens' \in [Tokens -> TokenRecords \cup {None}] /\ issued' \in 0..MaxTokens
    BY <1>5, <2>1 DEF issueTokens
  <2>3. \A n \in Tokens : tokens[n] # None => tokens'[n] # None
    BY <1>5, <2>1 DEF issueTokens
  <2>4. Holding' BY <1>5, <1>6, <2>3 DEF issueTokens
  <2>. QED BY <1>2, <1>5, <2>2, <2>4 DEF issueTokens, codeVars
<1>. QED BY <1>3, <1>4, <1>5

(* Expiry and the cleanup goroutines. *)
Aging == \/ \E c \in Codes : CodeExpires(c)
         \/ \E n \in Tokens : TokenExpires(n)
         \/ CleanupCodes \/ CleanupTokens

LEMMA AgingTyped ==
  ASSUME TInv, Aging PROVE TInv'
<1>. USE ServerAssumption DEF TInv, TypeOK, Shape, config, loginVars, handlerVars, codeVars, tokenVars
<1>1. ASSUME NEW c \in Codes, CodeExpires(c) PROVE TInv'
  <2>1. Holding' BY <1>1, HoldingStill DEF CodeExpires
  <2>2. codes' \in [Codes -> CodeRecords \cup {None}] BY <1>1 DEF CodeExpires, CodeRecords
  <2>. QED BY <1>1, <2>1, <2>2 DEF CodeExpires
<1>2. ASSUME NEW n \in Tokens, TokenExpires(n) PROVE TInv'
  <2>1. [tokens[n] EXCEPT !.life = "expired"] \in TokenRecords
    BY <1>2 DEF TokenExpires, TokenRecords
  <2>2. tokens' = [tokens EXCEPT ![n] = [tokens[n] EXCEPT !.life = "expired"]]
    BY <1>2 DEF TokenExpires
  <2>3. tokens' \in [Tokens -> TokenRecords \cup {None}] BY <2>1, <2>2
  <2>4. \A m \in Tokens : tokens[m] # None => tokens'[m] # None BY <2>1, <2>2
  <2>5. \A t \in TokenReqs : tpc[t] # "idle" /\ tgrant[t].kind = "refresh" => tgrant[t].id \in Tokens
    BY GrantKinds
  <2>6. Holding' BY <1>2, <2>4, <2>5 DEF TokenExpires, Holding
  <2>. QED BY <1>2, <2>3, <2>6 DEF TokenExpires
<1>3. CASE CleanupCodes
  <2>1. Holding' BY <1>3, HoldingStill DEF CleanupCodes
  <2>. QED BY <1>3, <2>1 DEF CleanupCodes
<1>4. CASE CleanupTokens
  <2>1. \A n \in ExpiredTokens : [tokens[n] EXCEPT !.life = "gone"] \in TokenRecords
    BY DEF ExpiredTokens, TokenRecords
  <2>2. tokens' \in [Tokens -> TokenRecords \cup {None}] BY <1>4, <2>1 DEF CleanupTokens
  <2>3. \A n \in Tokens : tokens[n] # None => tokens'[n] # None BY <1>4, <2>1 DEF CleanupTokens
  <2>4. Holding' BY <1>4, <2>3, GrantKinds DEF CleanupTokens, Holding
  <2>. QED BY <1>4, <2>2, <2>4 DEF CleanupTokens
<1>. QED BY <1>1, <1>2, <1>3, <1>4 DEF Aging

(* What touches neither handlers nor logins at work. *)
Elsewhere == Register \/ JwksAges \/ CleanupPending \/ Close

LEMMA ElsewhereTyped ==
  ASSUME TInv, Elsewhere PROVE TInv'
<1>. USE ServerAssumption DEF TInv, TypeOK, Shape, config, loginVars, handlerVars, codeVars, tokenVars
<1>0. Holding' BY HoldingStill DEF Elsewhere, Register, JwksAges, CleanupPending, Close
<1>1. CASE Register
  BY <1>0, <1>1 DEF Register
<1>2. CASE JwksAges
  BY <1>0, <1>2 DEF JwksAges
<1>3. CASE CleanupPending
  BY <1>0, <1>3 DEF CleanupPending
<1>4. CASE Close
  BY <1>0, <1>4 DEF Close
<1>. QED BY <1>1, <1>2, <1>3, <1>4 DEF Elsewhere

(* The steps by what they do to the storage. *)
LEMMA Steps ==
  Next <=> \/ \E f \in Logins : Browser(f)
           \/ \E h \in Handlers : Work(h) \/ StoreCode(h)
           \/ \E t \in TokenReqs : \/ (\E c \in Codes : GetCode(t, c)) \/ (\E n \in Tokens : GetRefresh(t, n))
                                  \/ DeleteCode(t) \/ DeleteRefresh(t) \/ issueTokens(t)
           \/ Aging \/ Elsewhere
BY DEF Next, Login, Handler, TokenHandler, Clock, Cleanup, Browser, Work, Aging, Elsewhere

LEMMA TypedStep == TInv /\ [Next]_vars => TInv'
<1>. SUFFICES ASSUME TInv, [Next]_vars PROVE TInv'  OBVIOUS
<1>1. CASE Next
  BY <1>1, Steps, BrowserTyped, WorkTyped, StoreCodeTyped, GetTyped, EndsTyped, AgingTyped,
     ElsewhereTyped
<1>2. CASE UNCHANGED vars
  BY <1>2, HoldingStill DEF vars, config, loginVars, handlerVars, codeVars, tokenVars, TInv, TypeOK, Shape
<1>. QED BY <1>1, <1>2

LEMMA Typed == Spec => []TInv
BY InitTyped, TypedStep, PTL DEF Spec

(* The type invariant: the counters stay within their bounds, codes and    *)
(* tokens are records (AuthServer, all of internal/authserver it models).  *)
THEOREM TypeCorrect == Spec => []TypeOK
<1>1. TInv => TypeOK BY DEF TInv
<1>. QED BY <1>1, Typed, PTL

-----------------------------------------------------------------------------
(* The storage and the token requests, login by login. *)

At(t, c) == tpc[t] # "idle" /\ tgrant[t].code = c
TokenOf(n, c) == tokens[n] # None /\ tokens[n].code = c
Kept(n) == tokens[n].life # "gone"

(* Codes and tokens that were not made yet have left no trace. *)
Fresh ==
  /\ \A f \in Logins, k \in 1..MaxCodes :
       k > made[f] => /\ codes[<<f, k>>] = None
                      /\ \A n \in Tokens : ~TokenOf(n, <<f, k>>)
                      /\ \A t \in TokenReqs : ~At(t, <<f, k>>)
  /\ \A n \in Tokens : n > issued => tokens[n] = None

(* A request holds what it looked up, and knows the code it goes back to. *)
Named ==
  \A t \in TokenReqs : tpc[t] # "idle" =>
    /\ tgrant[t].kind = "code" => tgrant[t].id = tgrant[t].code
    /\ tgrant[t].kind = "refresh" => tokens[tgrant[t].id].code = tgrant[t].code

(* A login that no two requests worked for at once: while its code is      *)
(* there nothing came of it, a kept token is the only one, and a request   *)
(* for it holds this token and has not deleted it yet.                     *)
Single(c) ==
  /\ \A t, u \in TokenReqs : At(t, c) /\ At(u, c) => t = u
  /\ codes[c] # None => /\ \A n \in Tokens : ~TokenOf(n, c)
                        /\ \A t \in TokenReqs : At(t, c) => tpc[t] = "got" /\ tgrant[t].kind = "code"
  /\ \A n, m \in Tokens : TokenOf(n, c) /\ Kept(n) /\ TokenOf(m, c) /\ Kept(m) => n = m
  /\ \A t \in TokenReqs, n \in Tokens :
       At(t, c) /\ TokenOf(n, c) /\ Kept(n)
         => tpc[t] = "got" /\ tgrant[t].kind = "refresh" /\ tgrant[t].id = n

OneInv == Fresh /\ Named /\ \A c \in Codes : c \notin overlapped => Single(c)

NarrowInv == ScopesNarrow /\ \A t \in TokenReqs : tpc[t] # "idle" => tgrant[t].scope \subseteq UserScopes

SInv == OneInv /\ NarrowInv

LEMMA InitStorage == Init => SInv
<1>. SUFFICES ASSUME Init PROVE SInv  OBVIOUS
<1>1. /\ \A c \in Codes : codes[c] = None
      /\ \A n \in Tokens : tokens[n] = None
      /\ \A t \in TokenReqs : tpc[t] = "idle"
  BY DEF Init
<1>2. \A f \in Logins, k \in 1..MaxCodes : <<f, k>> \in Codes BY DEF Codes
<1>. QED BY <1>1, <1>2 DEF SInv, OneInv, Fresh, Named, Single, At, TokenOf, NarrowInv, ScopesNarrow

(* Steps that make nothing new: entries and requests stay or go. *)
EntriesShrink ==
  /\ \A c \in Codes : codes'[c] # None => codes[c] # None /\ codes'[c].scope = codes[c].scope
  /\ \A n \in Tokens : /\ tokens'[n] # None <=> tokens[n] # None
                       /\ tokens[n] # None => /\ tokens'[n].code = tokens[n].code
                                              /\ tokens'[n].scope = tokens[n].scope
                                              /\ tokens'[n].life # "gone" => tokens[n].life # "gone"

LEMMA Shrinks ==
  ASSUME TInv, SInv, UNCHANGED <<made, issued, overlapped>>, EntriesShrink,
         \A t \in TokenReqs : tpc'[t] # "idle" => tpc'[t] = tpc[t] /\ tgrant'[t] = tgrant[t]
  PROVE  SInv'
<1>0. /\ \A c \in Codes : codes'[c] # None => codes[c] # None /\ codes'[c].scope = codes[c].scope
      /\ \A n \in Tokens : /\ tokens'[n] # None <=> tokens[n] # None
                           /\ tokens[n] # None => /\ tokens'[n].code = tokens[n].code
                                                  /\ tokens'[n].scope = tokens[n].scope
                                                  /\ Kept(n)' => Kept(n)
  BY DEF EntriesShrink, Kept
<1>1. /\ \A t \in TokenReqs, c \in Codes : At(t, c)' => At(t, c)
      /\ \A n \in Tokens, c \in Codes : TokenOf(n, c)' <=> TokenOf(n, c)
  BY <1>0 DEF At, TokenOf
<1>2. \A n \in Tokens, c \in Codes : TokenOf(n, c)' /\ Kept(n)' => TokenOf(n, c) /\ Kept(n)
  BY <1>0 DEF TokenOf
<1>3. \A f \in Logins, k \in 1..MaxCodes : <<f, k>> \in Codes BY DEF Codes
<1>4. Fresh' BY <1>0, <1>1, <1>3 DEF SInv, OneInv, Fresh
<1>5. Named'
  <2>. SUFFICES ASSUME NEW t \in TokenReqs, tpc'[t] # "idle"
                PROVE  /\ tgrant'[t].kind = "code" => tgrant'[t].id = tgrant'[t].code
                       /\ tgrant'[t].kind = "refresh" => tokens'[tgrant'[t].id].code = tgrant'[t].code
    BY DEF Named
  <2>1. tpc[t] # "idle" /\ tgrant'[t] = tgrant[t] OBVIOUS
  <2>2. tgrant[t].kind = "refresh" => tgrant[t].id \in Tokens /\ tokens[tgrant[t].id] # None
    BY <2>1, GrantKinds DEF TInv, Shape, Holding
  <2>. QED BY <1>0, <2>1, <2>2 DEF SInv, OneInv, Named
<1>6. ASSUME NEW c \in Codes, c \notin overlapped PROVE Single(c)'
  <2>1. Single(c) BY <1>6 DEF SInv, OneInv
  <2>2. \A t, u \in TokenReqs : At(t, c)' /\ At(u, c)' => t = u BY <1>1, <2>1 DEF Single
  <2>3. codes'[c] # None => /\ \A n \in Tokens : ~TokenOf(n, c)'
                           /\ \A t \in TokenReqs : At(t, c)' => tpc'[t] = "got" /\ tgrant'[t].kind = "code"
    BY <1>0, <1>1, <2>1 DEF Single, At
  <2>4. \A n, m \in Tokens : TokenOf(n, c)' /\ Kept(n)' /\ TokenOf(m, c)' /\ Kept(m)' => n = m
    BY <1>2, <2>1 DEF Single
  <2>5. \A t \in TokenReqs, n \in Tokens :
          At(t, c)' /\ TokenOf(n, c)' /\ Kept(n)'
            => tpc'[t] = "got" /\ tgrant'[t].kind = "refresh" /\ tgrant'[t].id = n
    BY <1>1, <1>2, <2>1 DEF Single, At
  <2>. QED BY <2>2, <2>3, <2>4, <2>5 DEF Single
<1>7. NarrowInv' BY <1>0 DEF SInv, NarrowInv, ScopesNarrow
<1>. QED BY <1>4, <1>5, <1>6, <1>7 DEF SInv, OneInv

LEMMA QuietStorage ==
  ASSUME TInv, SInv,
         \/ \E f \in Logins : Browser(f)
         \/ \E h \in Handlers : Work(h)
         \/ Elsewhere
         \/ UNCHANGED vars
  PROVE  SInv'
<1>1. UNCHANGED <<codes, made, tpc, tgrant, tokens, issued, overlapped>>
  BY DEF Browser, handleGet, PostWrongForm, CSRFExpires, ServeFederated, UpstreamLogin, PendingAges,
         Work, PostForm, CallbackLookup, CallbackRemove, ExchangeCode, ValidateIDToken,
         Elsewhere, Register, JwksAges, CleanupPending, Close, vars, codeVars, tokenVars
<1>2. \A n \in Tokens : Kept(n)' => Kept(n) BY <1>1 DEF Kept
<1>. QED BY <1>1, <1>2, Shrinks DEF EntriesShrink, Kept

LEMMA AgingEntries ==
  ASSUME TInv, Aging
  PROVE  EntriesShrink /\ UNCHANGED <<made, tpc, tgrant, issued, overlapped>>
<1>. USE DEF TInv, TypeOK
<1>. DEFINE Goal == EntriesShrink /\ UNCHANGED <<made, tpc, tgrant, issued, overlapped>>
<1>1. ASSUME NEW c \in Codes, CodeExpires(c) PROVE Goal
  <2>1. \A d \in Codes : codes'[d] # None => codes[d] # None /\ codes'[d].scope = codes[d].scope
    BY <1>1, ServerAssumption DEF CodeExpires, CodeRecords
  <2>2. UNCHANGED <<made, tpc, tgrant, tokens, issued, overlapped>>
    BY <1>1 DEF CodeExpires, tokenVars
  <2>3. \A n \in Tokens : Kept(n)' => Kept(n) BY <2>2 DEF Kept
  <2>. QED BY <2>1, <2>2, <2>3 DEF EntriesShrink, Kept
<1>2. ASSUME NEW n \in Tokens, TokenExpires(n) PROVE Goal
  <2>1. /\ tokens[n] \in TokenRecords /\ tokens[n] # None /\ Kept(n)
        /\ tokens' = [tokens EXCEPT ![n] = [tokens[n] EXCEPT !.life = "expired"]]
    BY <1>2 DEF TokenExpires, Kept
  <2>2. /\ [tokens[n] EXCEPT !.life = "expired"] \in TokenRecords
        /\ [tokens[n] EXCEPT !.life = "expired"].code = tokens[n].code
        /\ [tokens[n] EXCEPT !.life = "expired"].scope = tokens[n].scope
    BY <2>1 DEF TokenRecords
  <2>3. \A m \in Tokens : /\ tokens'[m] # None <=> tokens[m] # None
                          /\ tokens[m] # None => /\ tokens'[m].code = tokens[m].code
                                                 /\ tokens'[m].scope = tokens[m].scope
                                                 /\ Kept(m)' => Kept(m)
    BY <2>1, <2>2, ServerAssumption DEF Kept
  <2>4. UNCHANGED <<codes, made, tpc, tgrant, issued, overlapped>>
    BY <1>2 DEF TokenExpires, codeVars
  <2>. QED BY <2>3, <2>4 DEF EntriesShrink, Kept
<1>3. ASSUME CleanupCodes PROVE Goal
  <2>1. \A d \in Codes : codes'[d] # None => codes[d] # None /\ codes'[d].scope = codes[d].scope
    BY <1>3 DEF CleanupCodes
  <2>2. UNCHANGED <<made, tpc, tgrant, tokens, issued, overlapped>>
    BY <1>3 DEF CleanupCodes, tokenVars
  <2>3. \A n \in Tokens : Kept(n)' => Kept(n) BY <2>2 DEF Kept
  <2>. QED BY <2>1, <2>2, <2>3 DEF EntriesShrink, Kept
<1>4. ASSUME CleanupTokens PROVE Goal
  <2>1. ASSUME NEW m \in Tokens
        PROVE  /\ tokens'[m] # None <=> tokens[m] # None
               /\ tokens[m] # None => /\ tokens'[m].code = tokens[m].code
                                      /\ tokens'[m].scope = tokens[m].scope
                                      /\ Kept(m)' => Kept(m)
    <3>1. CASE m \in ExpiredTokens
      <4>1. tokens[m] \in TokenRecords /\ tokens[m] # None /\ Kept(m)
        BY <3>1 DEF ExpiredTokens, Kept
      <4>2. tokens'[m] = [tokens[m] EXCEPT !.life = "gone"] BY <1>4, <3>1 DEF CleanupTokens
      <4>3. /\ tokens'[m] \in TokenRecords
            /\ tokens'[m].code = tokens[m].code /\ tokens'[m].scope = tokens[m].scope
        BY <4>1, <4>2 DEF TokenRecords
      <4>. QED BY <4>1, <4>3, ServerAssumption
    <3>2. CASE m \notin ExpiredTokens
      <4>1. tokens'[m] = tokens[m] BY <1>4, <3>2 DEF CleanupTokens
      <4>. QED BY <4>1 DEF Kept
    <3>. QED BY <3>1, <3>2
  <2>2. UNCHANGED <<codes, made, tpc, tgrant, issued, overlapped>>
    BY <1>4 DEF CleanupTokens, codeVars
  <2>. QED BY <2>1, <2>2 DEF EntriesShrink, Kept
<1>. QED BY <1>1, <1>2, <1>3, <1>4 DEF Aging

LEMMA AgingStorage == ASSUME TInv, SInv, Aging PROVE SInv'
  BY AgingEntries, Shrinks

(* A code is made: it is a fresh one, with scopes of the user.             *)
LEMMA StoreCodeStorage ==
  ASSUME TInv, SInv, NEW h \in Handlers, StoreCode(h) PROVE SInv'
<1>. USE DEF TInv, TypeOK
<1>1. hlogin[h] \in Logins BY DEF StoreCode, Shape
<1>2. UNCHANGED <<tpc, tgrant, tokens, issued, overlapped>> BY DEF StoreCode, tokenVars
<1>3. CASE UNCHANGED codeVars
  <2>1. \A n \in Tokens : Kept(n)' => Kept(n) BY <1>2 DEF Kept
  <2>. QED BY <1>2, <1>3, <2>1, Shrinks DEF codeVars, EntriesShrink, Kept
<1>4. CASE ~UNCHANGED codeVars
  <2>. DEFINE f == hlogin[h]
              new == <<f, made[f] + 1>>
              r == [scope |-> GrantedScopes(f), life |-> "live"]
  <2>1. /\ made[f] < MaxCodes /\ made' = [made EXCEPT ![f] = made[f] + 1]
        /\ codes' = [codes EXCEPT ![new] = r]
    BY <1>4 DEF StoreCode
  <2>. HIDE DEF r
  <2>2. made[f] \in Nat /\ made[f] + 1 \in 1..MaxCodes /\ new \in Codes
    BY <1>1, <2>1, ServerAssumption DEF Codes
  <2>3. \A g \in Logins, k \in 1..MaxCodes : <<g, k>> \in Codes /\ (<<g, k>> = new => g = f /\ k = made[f] + 1)
    BY DEF Codes
  <2>4. \A n \in Tokens, c \in Codes : TokenOf(n, c)' <=> TokenOf(n, c) BY <1>2 DEF TokenOf
  <2>5. \A t \in TokenReqs, c \in Codes : At(t, c)' <=> At(t, c) BY <1>2 DEF At
  <2>6. (\A n \in Tokens : ~TokenOf(n, new)) /\ (\A t \in TokenReqs : ~At(t, new))
    BY <1>1, <2>2, SMTT(30) DEF SInv, OneInv, Fresh
  <2>7. Fresh'
    <3>1. ASSUME NEW g \in Logins, NEW k \in 1..MaxCodes, k > made'[g]
          PROVE  k > made[g] /\ <<g, k>> # new
      BY <1>1, <2>1, <2>2, <3>1
    <3>2. \A g \in Logins, k \in 1..MaxCodes :
            k > made'[g] => /\ codes'[<<g, k>>] = None
                            /\ \A n \in Tokens : ~TokenOf(n, <<g, k>>)'
                            /\ \A t \in TokenReqs : ~At(t, <<g, k>>)'
      BY <2>1, <2>2, <2>3, <2>4, <2>5, <3>1 DEF SInv, OneInv, Fresh
    <3>3. \A n \in Tokens : n > issued' => tokens'[n] = None BY <1>2 DEF SInv, OneInv, Fresh
    <3>. QED BY <3>2, <3>3 DEF Fresh
  <2>8. Named' BY <1>2 DEF SInv, OneInv, Named
  <2>9. ASSUME NEW c \in Codes, c \notin overlapped PROVE Single(c)'
    <3>1. Single(c) BY <2>9 DEF SInv, OneInv
    <3>2. codes'[c] # None => c = new \/ codes[c] # None BY <2>1, <2>2
    <3>. QED BY <1>2, <2>6, <3>1, <3>2 DEF Single, At, TokenOf, Kept
  <2>10. r.scope \subseteq UserScopes BY DEF r, GrantedScopes, FilterScopes
  <2>11. NarrowInv'
    <3>1. \A c \in Codes : codes'[c] # None => codes'[c].scope \subseteq UserScopes
      BY <2>1, <2>2, <2>10 DEF SInv, NarrowInv, ScopesNarrow
    <3>. QED BY <1>2, <3>1 DEF SInv, NarrowInv, ScopesNarrow
  <2>. QED BY <1>2, <2>7, <2>8, <2>9, <2>11 DEF SInv, OneInv
<1>. QED BY <1>3, <1>4

(* A request looks up a code or a refresh token: either it is the only one *)
(* for that login, or the login has been overlapped from now on.           *)
LEMMA GetStorage ==
  ASSUME TInv, SInv, NEW t \in TokenReqs,
         (\E c \in Codes : GetCode(t, c)) \/ (\E n \in Tokens : GetRefresh(t, n))
  PROVE  SInv'
<1>. USE DEF TInv, TypeOK
<1>1. ASSUME NEW g \in Grants, NEW wrong \in BOOLEAN, Hold(t, g, wrong), tpc[t] = "idle",
             UNCHANGED <<codes, made, tokens, issued>>,
             g.kind = "code" => g.id = g.code /\ codes[g.code] # None,
             g.kind = "refresh" => /\ codes[g.code] = None \/ g.code \in overlapped
                                   /\ TokenOf(g.id, g.code) /\ Kept(g.id),
             g.scope \subseteq UserScopes
      PROVE  SInv'
  <2>1. g.code \in Codes /\ g.kind \in {"code", "refresh"} /\ (g.kind = "refresh" => g.id \in Tokens)
    BY <1>1, GrantKinds
  <2>2. /\ tpc' = [tpc EXCEPT ![t] = "got"] /\ tgrant' = [tgrant EXCEPT ![t] = g]
        /\ overlapped \subseteq overlapped'
        /\ g.code \notin overlapped' => \A u \in TokenReqs : ~At(u, g.code)
    BY <1>1 DEF Hold, UnderWay, At
  <2>3. \A c \in Codes : At(t, c)' <=> g.code = c BY <2>2 DEF At
  <2>4. \A u \in TokenReqs, c \in Codes : u # t => (At(u, c)' <=> At(u, c)) BY <2>2 DEF At
  <2>5. \A n \in Tokens, c \in Codes : TokenOf(n, c)' <=> TokenOf(n, c) BY <1>1 DEF TokenOf
  <2>6. \A n \in Tokens : Kept(n)' <=> Kept(n) BY <1>1 DEF Kept
  <2>7. Fresh'
    <3>1. ASSUME NEW f \in Logins, NEW k \in 1..MaxCodes, k > made[f]
          PROVE  \A u \in TokenReqs : ~At(u, <<f, k>>)'
      <4>1. <<f, k>> \in Codes BY DEF Codes
      <4>2. codes[<<f, k>>] = None /\ (\A n \in Tokens : ~TokenOf(n, <<f, k>>))
        BY <3>1 DEF SInv, OneInv, Fresh
      <4>3. g.code # <<f, k>> BY <1>1, <2>1, <4>2
      <4>. QED BY <2>3, <2>4, <3>1, <4>1, <4>3 DEF SInv, OneInv, Fresh
    <3>2. \A f \in Logins, k \in 1..MaxCodes : <<f, k>> \in Codes BY DEF Codes
    <3>. QED BY <1>1, <2>5, <3>1, <3>2 DEF SInv, OneInv, Fresh
  <2>8. Named'
    <3>1. \A u \in TokenReqs : u # t => tpc'[u] = tpc[u] /\ tgrant'[u] = tgrant[u] BY <2>2
    <3>2. tgrant'[t] = g BY <2>2
    <3>3. g.kind = "refresh" => tokens[g.id].code = g.code BY <1>1 DEF TokenOf
    <3>. QED BY <1>1, <3>1, <3>2, <3>3 DEF SInv, OneInv, Named
  <2>9. ASSUME NEW c \in Codes, c \notin overlapped' PROVE Single(c)'
    <3>1. Single(c) BY <2>2, <2>9 DEF SInv, OneInv
    <3>2. CASE c # g.code
      <4>1. \A u \in TokenReqs : At(u, c)' => At(u, c) /\ tpc'[u] = tpc[u] /\ tgrant'[u] = tgrant[u]
        BY <2>2, <2>3, <2>4, <3>2
      <4>. QED BY <1>1, <2>5, <2>6, <3>1, <4>1 DEF Single
    <3>3. CASE c = g.code
      <4>1. \A u \in TokenReqs : At(u, c)' => u = t BY <2>2, <2>4, <2>9, <3>3
      <4>2. tpc'[t] = "got" /\ tgrant'[t] = g BY <2>2
      <4>3. codes[c] # None => g.kind = "code" BY <1>1, <2>1, <2>2, <2>9, <3>3
      <4>4. \A n \in Tokens : TokenOf(n, c) /\ Kept(n) => g.kind = "refresh" /\ g.id = n
        BY <1>1, <2>1, <3>1, <3>3 DEF Single
      <4>5. \A u, v \in TokenReqs : At(u, c)' /\ At(v, c)' => u = v BY <4>1
      <4>6. codes'[c] # None => /\ \A n \in Tokens : ~TokenOf(n, c)'
                               /\ \A u \in TokenReqs : At(u, c)' => tpc'[u] = "got" /\ tgrant'[u].kind = "code"
        BY <1>1, <2>5, <3>1, <4>1, <4>2, <4>3 DEF Single
      <4>7. \A n, m \in Tokens : TokenOf(n, c)' /\ Kept(n)' /\ TokenOf(m, c)' /\ Kept(m)' => n = m
        BY <2>5, <2>6, <3>1 DEF Single
      <4>8. \A u \in TokenReqs, n \in Tokens :
              At(u, c)' /\ TokenOf(n, c)' /\ Kept(n)'
                => tpc'[u] = "got" /\ tgrant'[u].kind = "refresh" /\ tgrant'[u].id = n
        BY <2>5, <2>6, <4>1, <4>2, <4>4
      <4>. QED BY <4>5, <4>6, <4>7, <4>8 DEF Single
    <3>. QED BY <3>2, <3>3
  <2>10. NarrowInv' BY <1>1, <2>2 DEF SInv, NarrowInv, ScopesNarrow
  <2>. QED BY <2>7, <2>8, <2>9, <2>10 DEF SInv, OneInv
<1>2. ASSUME NEW c \in Codes, GetCode(t, c) PROVE SInv'
  <2>. DEFINE g == [kind |-> "code", id |-> c, code |-> c, scope |-> codes[c].scope]
  <2>1. PICK wrong \in BOOLEAN : Hold(t, g, wrong) BY <1>2 DEF GetCode
  <2>2. codes[c] # None /\ codes[c].scope \in SUBSET Scopes
    BY <1>2, ServerAssumption DEF GetCode, CodeRecords
  <2>3. g \in Grants BY <2>2, GrantKinds
  <2>4. codes[c].scope \subseteq UserScopes BY <2>2 DEF SInv, NarrowInv, ScopesNarrow
  <2>5. /\ g.kind = "code" /\ g.id = c /\ g.code = c /\ g.scope = codes[c].scope  OBVIOUS
  <2>. HIDE DEF g
  <2>6. tpc[t] = "idle" /\ UNCHANGED <<codes, made, tokens, issued>> BY <1>2 DEF GetCode, codeVars
  <2>. QED BY <1>1, <2>1, <2>2, <2>3, <2>4, <2>5, <2>6
<1>3. ASSUME NEW n \in Tokens, GetRefresh(t, n) PROVE SInv'
  <2>. DEFINE c == tokens[n].code
              g == [kind |-> "refresh", id |-> n, code |-> c, scope |-> tokens[n].scope]
  <2>1. Hold(t, g, FALSE) BY <1>3 DEF GetRefresh
  <2>2. tokens[n] # None /\ c \in Codes /\ tokens[n].scope \in SUBSET Scopes
    BY <1>3, ServerAssumption DEF GetRefresh, TokenRecords
  <2>3. g \in Grants BY <2>2, GrantKinds
  <2>4. tokens[n].scope \subseteq UserScopes BY <2>2 DEF SInv, NarrowInv, ScopesNarrow
  <2>5. /\ g.kind = "refresh" /\ g.id = n /\ g.code = c /\ g.scope = tokens[n].scope  OBVIOUS
  <2>6. tpc[t] = "idle" /\ UNCHANGED <<codes, made, tokens, issued>> BY <1>3 DEF GetRefresh, codeVars
  <2>7. TokenOf(n, c) /\ Kept(n) BY <1>3, <2>2 DEF GetRefresh, TokenOf, Kept
  <2>. HIDE DEF g, c
  <2>8. codes[c] = None \/ c \in overlapped BY <2>2, <2>7 DEF SInv, OneInv, Single
  <2>. QED BY <1>1, <2>1, <2>3, <2>4, <2>5, <2>6, <2>7, <2>8
<1>. QED BY <1>2, <1>3

(* The deletion: what the request presented is gone before it goes on.     *)
LEMMA DeleteEntries ==
  ASSUME TInv, NEW t \in TokenReqs, DeleteCode(t) \/ DeleteRefresh(t)
  PROVE  /\ EntriesShrink
         /\ tpc[t] = "got" /\ tgrant[t] \in Grants /\ UNCHANGED <<made, issued, overlapped>>
         /\ \A u \in TokenReqs : tpc'[u] # "idle" => tpc[u] # "idle" /\ tgrant'[u] = tgrant[u]
<1>. USE DEF TInv, TypeOK
<1>1. tpc[t] = "got" /\ tgrant[t] \in Grants /\ UNCHANGED <<made, issued, overlapped>>
  BY DEF DeleteCode, DeleteRefresh, Shape, codeVars
<1>2. \A c \in Codes : codes'[c] # None => codes[c] # None /\ codes'[c].scope = codes[c].scope
  BY DEF DeleteCode, DeleteRefresh, codeVars
<1>3. \A n \in Tokens : /\ tokens'[n] # None <=> tokens[n] # None
                        /\ tokens[n] # None => /\ tokens'[n].code = tokens[n].code
                                               /\ tokens'[n].scope = tokens[n].scope
                                               /\ Kept(n)' => Kept(n)
  <2>1. CASE DeleteCode(t)
    BY <2>1 DEF DeleteCode, Kept
  <2>2. CASE DeleteRefresh(t)
    <3>. DEFINE n == tgrant[t].id
                r == [tokens[n] EXCEPT !.life = "gone"]
    <3>1. n \in Tokens /\ tokens[n] \in TokenRecords /\ tokens[n] # None
      BY <1>1, <2>2, GrantKinds DEF DeleteRefresh, Holding
    <3>2. /\ r \in TokenRecords /\ r.code = tokens[n].code /\ r.scope = tokens[n].scope
          /\ r.life = "gone"
      BY <3>1 DEF TokenRecords
    <3>3. tokens' = [tokens EXCEPT ![n] = r] /\ UNCHANGED codes BY <2>2 DEF DeleteRefresh, codeVars
    <3>. HIDE DEF n, r
    <3>. QED BY <3>1, <3>2, <3>3, ServerAssumption DEF Kept
  <2>. QED BY <2>1, <2>2
<1>4. Continue(t)
  BY DEF DeleteCode, DeleteRefresh
<1>5. \A u \in TokenReqs : tpc'[u] # "idle" => tpc[u] # "idle" /\ tgrant'[u] = tgrant[u]
  BY <1>1, <1>4 DEF Continue, Done
<1>. QED BY <1>1, <1>2, <1>3, <1>5 DEF EntriesShrink, Kept

LEMMA DeleteStorage ==
  ASSUME TInv, SInv, NEW t \in TokenReqs, DeleteCode(t) \/ DeleteRefresh(t) PROVE SInv'
<1>. USE DEF TInv, TypeOK
<1>1. EntriesShrink /\ tpc[t] = "got" /\ tgrant[t] \in Grants /\ UNCHANGED <<made, issued, overlapped>>
  BY DeleteEntries
<1>5. \A c \in Codes : codes'[c] # None => codes[c] # None /\ codes'[c] = codes[c]
  BY DEF DeleteCode, DeleteRefresh, codeVars
<1>2. \A n \in Tokens : /\ tokens'[n] # None <=> tokens[n] # None
                        /\ tokens[n] # None => /\ tokens'[n].code = tokens[n].code
                                               /\ tokens'[n].scope = tokens[n].scope
                                               /\ Kept(n)' => Kept(n)
  BY <1>1 DEF EntriesShrink, Kept
<1>3. CASE twrong[t]
  <2>1. Done(t) BY <1>3 DEF DeleteCode, DeleteRefresh, Continue
  <2>2. \A u \in TokenReqs : tpc'[u] # "idle" => tpc'[u] = tpc[u] /\ tgrant'[u] = tgrant[u]
    BY <2>1 DEF Done
  <2>. QED BY <1>1, <2>2, Shrinks
<1>4. CASE ~twrong[t]
  <2>1. tpc' = [tpc EXCEPT ![t] = "issue"] /\ UNCHANGED tgrant
    BY <1>4 DEF DeleteCode, DeleteRefresh, Continue
  <2>7. \A u \in TokenReqs, c \in Codes : At(u, c)' => At(u, c)
    BY <1>1, <2>1 DEF At
  <2>8. \A n \in Tokens, c \in Codes : TokenOf(n, c)' <=> TokenOf(n, c)
    BY <1>2 DEF TokenOf
  <2>9. \A n \in Tokens, c \in Codes : TokenOf(n, c)' /\ Kept(n)' => TokenOf(n, c) /\ Kept(n)
    BY <1>2 DEF TokenOf
  <2>2. /\ \A u \in TokenReqs, c \in Codes : At(u, c)' => At(u, c)
        /\ \A n \in Tokens, c \in Codes : TokenOf(n, c)' <=> TokenOf(n, c)
        /\ \A n \in Tokens, c \in Codes : TokenOf(n, c)' /\ Kept(n)' => TokenOf(n, c) /\ Kept(n)
    BY <2>7, <2>8, <2>9
  <2>3. Fresh'
    <3>1. \A f \in Logins, k \in 1..MaxCodes : <<f, k>> \in Codes BY DEF Codes
    <3>2. ASSUME NEW f \in Logins, NEW k \in 1..MaxCodes, k > made[f]
          PROVE  /\ codes'[<<f, k>>] = None
                 /\ \A n \in Tokens : ~TokenOf(n, <<f, k>>)'
                 /\ \A u \in TokenReqs : ~At(u, <<f, k>>)'
      BY <1>5, <2>7, <2>8, <3>1, <3>2 DEF SInv, OneInv, Fresh
    <3>3. \A n \in Tokens : n > issued => tokens'[n] = None BY <1>2 DEF SInv, OneInv, Fresh
    <3>. QED BY <1>1, <3>2, <3>3 DEF Fresh
  <2>4. Named'
    <3>1. \A u \in TokenReqs : tpc'[u] # "idle" => tpc[u] # "idle" BY <1>1, <2>1
    <3>2. \A u \in TokenReqs :
            tpc[u] # "idle" /\ tgrant[u].kind = "refresh" => tgrant[u].id \in Tokens /\ tokens[tgrant[u].id] # None
      BY GrantKinds DEF Shape, Holding
    <3>3. \A u \in TokenReqs :
            tpc[u] # "idle" /\ tgrant[u].kind = "refresh" => tokens'[tgrant[u].id].code = tokens[tgrant[u].id].code
      BY <1>2, <3>2
    <3>. QED BY <2>1, <3>1, <3>3 DEF SInv, OneInv, Named
  <2>5. ASSUME NEW c \in Codes, c \notin overlapped PROVE Single(c)'
    <3>1. Single(c) BY <2>5 DEF SInv, OneInv
    <3>2. \A u, v \in TokenReqs : At(u, c)' /\ At(v, c)' => u = v BY <2>2, <3>1 DEF Single
    <3>3. CASE ~At(t, c)
      <4>1. \A u \in TokenReqs : At(u, c)' => tpc'[u] = tpc[u] /\ tgrant'[u] = tgrant[u]
        BY <2>1, <2>2, <3>3
      <4>. QED BY <1>5, <2>2, <3>1, <3>2, <4>1 DEF Single
    <3>4. CASE At(t, c)
      <4>1. codes'[c] = None
        <5>1. CASE DeleteCode(t)
          <6>1. tgrant[t].id = c BY <1>1, <3>4, <5>1 DEF DeleteCode, SInv, OneInv, Named, At
          <6>. QED BY <5>1, <6>1 DEF DeleteCode
        <5>2. CASE DeleteRefresh(t)
          <6>1. codes[c] = None BY <3>1, <3>4, <5>2 DEF DeleteRefresh, Single
          <6>. QED BY <5>2, <6>1 DEF DeleteRefresh, codeVars
        <5>. QED BY <5>1, <5>2
      <4>2. \A n \in Tokens : ~(TokenOf(n, c)' /\ Kept(n)')
        <5>1. CASE DeleteCode(t)
          BY <2>2, <3>1, <3>4, <5>1 DEF DeleteCode, Single
        <5>2. CASE DeleteRefresh(t)
          <6>1. tgrant[t].id \in Tokens /\ tokens[tgrant[t].id] \in TokenRecords
            BY <1>1, <5>2, GrantKinds DEF DeleteRefresh, Holding
          <6>2. tokens'[tgrant[t].id] = [tokens[tgrant[t].id] EXCEPT !.life = "gone"]
            BY <5>2, <6>1 DEF DeleteRefresh
          <6>3. [tokens[tgrant[t].id] EXCEPT !.life = "gone"].life = "gone" BY <6>1 DEF TokenRecords
          <6>4. \A n \in Tokens : n = tgrant[t].id => ~Kept(n)' BY <6>2, <6>3 DEF Kept
          <6>5. \A n \in Tokens : TokenOf(n, c) /\ Kept(n) => n = tgrant[t].id
            BY <3>1, <3>4 DEF Single
          <6>. QED BY <2>9, <6>4, <6>5
        <5>. QED BY <5>1, <5>2
      <4>. QED BY <3>2, <4>1, <4>2 DEF Single
    <3>. QED BY <3>3, <3>4
  <2>6. NarrowInv'
    <3>1. \A u \in TokenReqs : tpc'[u] # "idle" => tpc[u] # "idle" /\ tgrant'[u] = tgrant[u]
      BY <1>1, <2>1
    <3>2. \A c \in Codes : codes'[c] # None => codes'[c].scope \subseteq UserScopes
      BY <1>5 DEF SInv, NarrowInv, ScopesNarrow
    <3>3. \A n \in Tokens : tokens'[n] # None => tokens'[n].scope \subseteq UserScopes
      BY <1>2 DEF SInv, NarrowInv, ScopesNarrow
    <3>. QED BY <3>1, <3>2, <3>3 DEF SInv, NarrowInv, ScopesNarrow
  <2>. QED BY <1>1, <2>3, <2>4, <2>5, <2>6 DEF SInv, OneInv
<1>. QED BY <1>3, <1>4

(* The request that holds the only credential trades it for a token.       *)
LEMMA IssueStorage ==
  ASSUME TInv, SInv, NEW t \in TokenReqs, issueTokens(t) PROVE SInv'
<1>. USE DEF TInv, TypeOK
<1>1. /\ tpc[t] = "issue" /\ tgrant[t] \in Grants /\ UNCHANGED <<codes, made, overlapped>>
      /\ tpc' = [tpc EXCEPT ![t] = "idle"]
      /\ \A u \in TokenReqs : tpc'[u] # "idle" => u # t /\ tpc'[u] = tpc[u] /\ tgrant'[u] = tgrant[u]
  BY DEF issueTokens, Done, Shape, codeVars
<1>2. CASE UNCHANGED <<tokens, issued>>
  <2>1. \A n \in Tokens : Kept(n)' => Kept(n) BY <1>2 DEF Kept
  <2>. QED BY <1>1, <1>2, <2>1, Shrinks DEF EntriesShrink, Kept
<1>3. CASE ~UNCHANGED <<tokens, issued>>
  <2>. DEFINE c == tgrant[t].code
              new == issued + 1
              r == [code |-> c, scope |-> tgrant[t].scope, life |-> "live"]
  <2>1. issued < MaxTokens /\ issued' = new /\ tokens' = [tokens EXCEPT ![new] = r]
    BY <1>3 DEF issueTokens
  <2>2. /\ c \in Codes /\ r \in TokenRecords /\ r.code = c /\ r.scope = tgrant[t].scope
        /\ r # None
    BY <1>1, GrantKinds, ServerAssumption DEF TokenRecords
  <2>. HIDE DEF r
  <2>3. new \in Tokens /\ issued \in Nat BY <2>1, ServerAssumption DEF Tokens
  <2>. HIDE DEF c
  <2>4. tokens[new] = None BY <2>3 DEF SInv, OneInv, Fresh, Tokens
  <2>5. At(t, c) BY <1>1 DEF At, c
  <2>12. \A n \in Tokens : n # new => tokens'[n] = tokens[n] BY <2>1, <2>3
  <2>13. tokens'[new] = r BY <2>1, <2>3
  <2>. HIDE DEF new
  <2>14. \A n \in Tokens, d \in Codes : n # new => (TokenOf(n, d)' <=> TokenOf(n, d))
    BY <2>12 DEF TokenOf
  <2>15. \A n \in Tokens, d \in Codes : n = new => (TokenOf(n, d)' <=> d = c)
    BY <2>2, <2>13 DEF TokenOf
  <2>16. \A n \in Tokens : n # new => (Kept(n)' <=> Kept(n)) BY <2>12 DEF Kept
  <2>6. /\ \A n \in Tokens, d \in Codes : n # new => (TokenOf(n, d)' <=> TokenOf(n, d))
        /\ \A n \in Tokens, d \in Codes : n = new => (TokenOf(n, d)' <=> d = c)
        /\ \A n \in Tokens : n # new => (Kept(n)' <=> Kept(n))
    BY <2>14, <2>15, <2>16
  <2>7. \A u \in TokenReqs, d \in Codes : At(u, d)' => At(u, d) /\ u # t BY <1>1 DEF At
  <2>8. Fresh'
    <3>1. \A n \in Tokens : n > issued' => n > issued /\ n # new BY <2>1, <2>3 DEF Tokens, new
    <3>2. \A n \in Tokens : n > issued' => tokens'[n] = None
      BY <2>12, <3>1 DEF SInv, OneInv, Fresh
    <3>3. \A f \in Logins, k \in 1..MaxCodes : <<f, k>> \in Codes BY DEF Codes
    <3>4. \A f \in Logins, k \in 1..MaxCodes : k > made[f] => <<f, k>> # c
      BY <2>2, <2>5, <3>3 DEF SInv, OneInv, Fresh
    <3>5. ASSUME NEW f \in Logins, NEW k \in 1..MaxCodes, k > made[f]
          PROVE  /\ codes[<<f, k>>] = None
                 /\ \A n \in Tokens : ~TokenOf(n, <<f, k>>)'
                 /\ \A u \in TokenReqs : ~At(u, <<f, k>>)'
      <4>1. <<f, k>> \in Codes /\ <<f, k>> # c BY <3>3, <3>4, <3>5
      <4>2. codes[<<f, k>>] = None /\ (\A n \in Tokens : ~TokenOf(n, <<f, k>>))
            /\ (\A u \in TokenReqs : ~At(u, <<f, k>>))
        BY <3>5 DEF SInv, OneInv, Fresh
      <4>. QED BY <2>6, <2>7, <4>1, <4>2
    <3>. QED BY <1>1, <3>2, <3>5, SMTT(30) DEF Fresh
  <2>9. Named'
    <3>. SUFFICES ASSUME NEW u \in TokenReqs, tpc'[u] # "idle"
                  PROVE  /\ tgrant'[u].kind = "code" => tgrant'[u].id = tgrant'[u].code
                         /\ tgrant'[u].kind = "refresh" => tokens'[tgrant'[u].id].code = tgrant'[u].code
      BY DEF Named
    <3>1. tpc[u] # "idle" /\ tgrant'[u] = tgrant[u] BY <1>1
    <3>2. tgrant[u].kind = "refresh" => tgrant[u].id \in Tokens /\ tgrant[u].id # new
      BY <2>4, <3>1, GrantKinds DEF Shape, Holding
    <3>. QED BY <2>12, <3>1, <3>2 DEF SInv, OneInv, Named
  <2>10. ASSUME NEW d \in Codes, d \notin overlapped PROVE Single(d)'
    <3>1. Single(d) BY <2>10 DEF SInv, OneInv
    <3>2. CASE d # c
      <4>1. \A n \in Tokens : TokenOf(n, d)' => TokenOf(n, d) /\ n # new /\ (Kept(n)' => Kept(n))
        BY <2>14, <2>15, <2>16, <3>2
      <4>2. \A u \in TokenReqs : At(u, d)' => At(u, d) /\ tpc'[u] = tpc[u] /\ tgrant'[u] = tgrant[u]
        BY <1>1, <2>7 DEF At
      <4>. QED BY <1>1, <3>1, <4>1, <4>2 DEF Single
    <3>3. CASE d = c
      <4>1. \A u \in TokenReqs : ~At(u, d)' BY <2>5, <2>7, <3>1, <3>3 DEF Single
      <4>2. codes[d] = None BY <1>1, <2>5, <3>1, <3>3 DEF Single
      <4>3. \A n \in Tokens : TokenOf(n, d)' /\ Kept(n)' => n = new
        BY <1>1, <2>5, <2>6, <3>1, <3>3 DEF Single
      <4>. QED BY <1>1, <4>1, <4>2, <4>3 DEF Single
    <3>. QED BY <3>2, <3>3
  <2>11. NarrowInv'
    <3>1. r.scope \subseteq UserScopes BY <1>1, <2>2 DEF SInv, NarrowInv
    <3>2. \A n \in Tokens : tokens'[n] # None => tokens'[n].scope \subseteq UserScopes
      BY <2>12, <2>13, <3>1 DEF SInv, NarrowInv, ScopesNarrow
    <3>. QED BY <1>1, <3>2 DEF SInv, NarrowInv, ScopesNarrow
  <2>. QED BY <1>1, <2>8, <2>9, <2>10, <2>11 DEF SInv, OneInv
<1>. QED BY <1>2, <1>3

LEMMA StorageStep == TInv /\ SInv /\ [Next]_vars => SInv'
BY Steps, QuietStorage, StoreCodeStorage, GetStorage, DeleteStorage, IssueStorage, AgingStorage

LEMMA Storage == Spec => []SInv
BY InitStorage, StorageStep, Typed, PTL DEF Spec

(* Nobody is granted a scope that the user does not have: not by the       *)
(* fallback of authorize.go:289-294, not by any rotation (token.go:189).   *)
THEOREM ScopesStayNarrow == Spec => []ScopesNarrow
<1>1. SInv => ScopesNarrow BY DEF SInv, NarrowInv
<1>. QED BY <1>1, Storage, PTL

(* A login has one credential at a time, a code, a refresh token or a      *)
(* request on its way to tokens, unless requests overlapped between the    *)
(* two storage calls (token.go:155-169, 217-236).                          *)
THEOREM CredentialsAreSingle == Spec => []OneCredential
<1>1. ASSUME TInv, SInv PROVE OneCredential
  <2>. SUFFICES ASSUME NEW c \in Codes, c \notin overlapped,
                       NEW x \in Credentials(c), NEW y \in Credentials(c)
                PROVE  x = y
    BY DEF OneCredential
  <2>1. Single(c) BY <1>1 DEF SInv, OneInv
  <2>. DEFINE IsCode(z) == z = <<"code", c>> /\ codes[c] # None
              IsToken(z) == \E n \in Tokens : z = <<"token", n>> /\ TokenOf(n, c) /\ Kept(n)
              IsRequest(z) == \E t \in TokenReqs : z = <<"request", t>> /\ At(t, c) /\ tpc[t] = "issue"
  <2>2. \A z \in Credentials(c) : IsCode(z) \/ IsToken(z) \/ IsRequest(z)
    BY DEF Credentials, StoredTokens, TokenOf, Kept, At
  <2>3. ~(\E n \in Tokens : TokenOf(n, c) /\ Kept(n) /\ codes[c] # None) BY <2>1 DEF Single
  <2>4. ~(\E t \in TokenReqs : At(t, c) /\ tpc[t] = "issue" /\ codes[c] # None) BY <2>1 DEF Single
  <2>5. ~(\E t \in TokenReqs, n \in Tokens : At(t, c) /\ tpc[t] = "issue" /\ TokenOf(n, c) /\ Kept(n))
    BY <2>1 DEF Single
  <2>6. CASE IsCode(x)
    BY <2>2, <2>3, <2>4, <2>6
  <2>7. CASE IsToken(x)
    BY <2>1, <2>2, <2>3, <2>5, <2>7 DEF Single
  <2>8. CASE IsRequest(x)
    BY <2>1, <2>2, <2>4, <2>5, <2>8 DEF Single
  <2>. QED BY <2>2, <2>6, <2>7, <2>8
<1>. QED BY <1>1, Typed, Storage, PTL

-----------------------------------------------------------------------------
(* Why a form yields one code: what is still to come of it, CSRF tokens, a *)
(* code of the provider that is not used yet and handlers past one of the  *)
(* two checks, is counted with the codes already made.                     *)
Busy(h, f) == hlogin[h] = f /\ hpc[h] \in {"validate", "store"}
AtWork(f) == {h \in Handlers : Busy(h, f)}
Due(f) == IF upstream[f] \in {"asked", "issued"} THEN 1 ELSE 0
FormInv ==
  \A f \in Logins :
    /\ IsFiniteSet(AtWork(f))
    /\ made[f] + forms[f] + Cardinality(AtWork(f)) + Due(f) <= shown[f]

LEMMA FormNumbers ==
  ASSUME TInv, FormInv, NEW f \in Logins
  PROVE  /\ made[f] \in Nat /\ forms[f] \in Nat /\ shown[f] \in Nat
         /\ Cardinality(AtWork(f)) \in Nat /\ Due(f) \in {0, 1}
         /\ made[f] + forms[f] + Cardinality(AtWork(f)) + Due(f) <= shown[f]
<1>1. made[f] \in Nat /\ forms[f] \in Nat /\ shown[f] \in Nat
  BY ServerAssumption DEF TInv, TypeOK
<1>2. Cardinality(AtWork(f)) \in Nat
  BY FS_CardinalityType DEF FormInv
<1>. QED
  BY <1>1, <1>2 DEF FormInv, Due

(* What becomes of the handlers at work when one of them makes a step. *)
LEMMA OneMoves ==
  ASSUME TInv, FormInv, NEW h \in Handlers, NEW f \in Logins, NEW pc, NEW g,
         hpc' = [hpc EXCEPT ![h] = pc], hlogin' = [hlogin EXCEPT ![h] = g]
  PROVE  /\ IsFiniteSet(AtWork(f)') /\ Cardinality(AtWork(f)') \in Nat
         /\ Cardinality(AtWork(f)') <= Cardinality(AtWork(f)) + 1
         /\ (g # f \/ pc \notin {"validate", "store"} \/ h \in AtWork(f))
              => Cardinality(AtWork(f)') <= Cardinality(AtWork(f))
         /\ h \in AtWork(f) /\ pc \notin {"validate", "store"}
              => Cardinality(AtWork(f)') = Cardinality(AtWork(f)) - 1
<1>1. hpc \in [Handlers -> {"idle", "take", "drop", "exchange", "validate", "store"}]
      /\ hlogin \in [Handlers -> Logins \cup {None}]
  BY DEF TInv, TypeOK
<1>2. hpc'[h] = pc /\ hlogin'[h] = g /\ \A k \in Handlers \ {h} : hpc'[k] = hpc[k] /\ hlogin'[k] = hlogin[k]
  BY <1>1
<1>3. IsFiniteSet(AtWork(f)) /\ Cardinality(AtWork(f)) \in Nat
  BY FS_CardinalityType DEF FormInv
<1>4. CASE g = f /\ pc \in {"validate", "store"}
  <2>1. AtWork(f)' = AtWork(f) \cup {h}
    BY <1>2, <1>4 DEF AtWork, Busy
  <2>2. IsFiniteSet(AtWork(f) \cup {h})
        /\ Cardinality(AtWork(f) \cup {h}) = IF h \in AtWork(f) THEN Cardinality(AtWork(f)) ELSE Cardinality(AtWork(f)) + 1
    BY <1>3, FS_AddElement
  <2>. QED
    BY <1>3, <1>4, <2>1, <2>2
<1>5. CASE ~(g = f /\ pc \in {"validate", "store"})
  <2>1. AtWork(f)' = AtWork(f) \ {h}
    BY <1>2, <1>5 DEF AtWork, Busy
  <2>2. IsFiniteSet(AtWork(f) \ {h}) /\ Cardinality(AtWork(f) \ {h}) \in Nat
        /\ Cardinality(AtWork(f) \ {h}) = IF h \in AtWork(f) THEN Cardinality(AtWork(f)) - 1 ELSE Cardinality(AtWork(f))
    BY <1>3, FS_RemoveElement, FS_CardinalityType
  <2>. QED
    BY <1>3, <2>1, <2>2
<1>. QED
  BY <1>4, <1>5

LEMMA FormStill ==
  ASSUME FormInv, UNCHANGED <<made, forms, shown, upstream, hpc, hlogin>> PROVE FormInv'
<1>1. \A f \in Logins : AtWork(f)' = AtWork(f) /\ Due(f)' = Due(f)
  BY DEF AtWork, Busy, Due
<1>. QED
  BY <1>1 DEF FormInv

(* A browser's step for one login: the handlers stay where they are.       *)
LEMMA FormBrowser ==
  ASSUME TInv, FormInv, NEW f \in Logins, Browser(f) PROVE FormInv'
<1>1. UNCHANGED <<made, hpc, hlogin>>
  BY DEF Browser, handleGet, PostWrongForm, CSRFExpires, ServeFederated, UpstreamLogin, PendingAges,
         handlerVars, codeVars
<1>2. \A g \in Logins : AtWork(g)' = AtWork(g)
  BY <1>1 DEF AtWork, Busy
<1>. DEFINE rest == made[f] + Cardinality(AtWork(f))
<1>3. /\ made[f] \in Nat /\ forms[f] \in Nat /\ shown[f] \in Nat
      /\ Cardinality(AtWork(f)) \in Nat /\ Due(f) \in {0, 1}
      /\ made[f] + forms[f] + Cardinality(AtWork(f)) + Due(f) <= shown[f]
  BY FormNumbers
<1>4. ASSUME \A g \in Logins \ {f} : forms'[g] = forms[g] /\ shown'[g] = shown[g] /\ upstream'[g] = upstream[g],
             made[f] + forms'[f] + Cardinality(AtWork(f)) + Due(f)' <= shown'[f]
      PROVE  FormInv'
  <2>1. \A g \in Logins \ {f} : Due(g)' = Due(g)
    BY <1>4 DEF Due
  <2>. QED
    BY <1>1, <1>2, <1>4, <2>1 DEF FormInv
<1>5. forms \in [Logins -> 0..MaxForms] /\ shown \in [Logins -> 0..MaxForms]
      /\ upstream \in [Logins -> {"none", "asked", "issued", "used"}]
  BY DEF TInv, TypeOK
<1>6. CASE handleGet(f)
  <2>1. /\ forms' = [forms EXCEPT ![f] = forms[f] + 1] /\ shown' = [shown EXCEPT ![f] = shown[f] + 1]
        /\ UNCHANGED upstream
    BY <1>6 DEF handleGet, showLoginForm
  <2>2. Due(f)' = Due(f) /\ forms'[f] = forms[f] + 1 /\ shown'[f] = shown[f] + 1
    BY <1>5, <2>1 DEF Due
  <2>. QED
    BY <1>3, <1>4, <1>5, <2>1, <2>2
<1>7. CASE PostWrongForm(f)
  <2>1. shown' = [shown EXCEPT ![f] = shown[f] + 1] /\ UNCHANGED <<forms, upstream>>
    BY <1>7 DEF PostWrongForm
  <2>2. Due(f)' = Due(f) /\ shown'[f] = shown[f] + 1
    BY <1>5, <2>1 DEF Due
  <2>. QED
    BY <1>3, <1>4, <1>5, <2>1, <2>2
<1>8. CASE CSRFExpires(f)
  <2>1. forms' = [forms EXCEPT ![f] = forms[f] - 1] /\ UNCHANGED <<shown, upstream>>
    BY <1>8 DEF CSRFExpires
  <2>2. Due(f)' = Due(f) /\ forms'[f] = forms[f] - 1
    BY <1>5, <2>1 DEF Due
  <2>. QED
    BY <1>3, <1>4, <1>5, <2>1, <2>2
<1>9. CASE ServeFederated(f)
  <2>1. /\ shown' = [shown EXCEPT ![f] = 1] /\ UNCHANGED forms
        /\ \A g \in Logins \ {f} : upstream'[g] = upstream[g]
    BY <1>5, <1>9 DEF ServeFederated
  <2>2. shown[f] = 0
    BY <1>9 DEF ServeFederated, Begin, TInv, Shape
  <2>3. Due(f)' \in {0, 1}
    BY DEF Due
  <2>4. made[f] = 0 /\ forms[f] = 0 /\ Cardinality(AtWork(f)) = 0
    BY <1>3, <2>2
  <2>. QED
    BY <1>4, <1>5, <2>1, <2>3, <2>4
<1>10. CASE UpstreamLogin(f)
  <2>1. upstream[f] = "asked" /\ upstream' = [upstream EXCEPT ![f] = "issued"] /\ UNCHANGED <<forms, shown>>
    BY <1>10 DEF UpstreamLogin
  <2>2. Due(f)' = Due(f)
    BY <1>5, <2>1 DEF Due
  <2>. QED
    BY <1>3, <1>4, <1>5, <2>1, <2>2
<1>11. CASE PendingAges(f)
  BY <1>1, <1>11, FormStill DEF PendingAges
<1>. QED
  BY <1>6, <1>7, <1>8, <1>9, <1>10, <1>11 DEF Browser

(* A handler's step: it enters the count by what it takes out of it.       *)
LEMMA FormHandler ==
  ASSUME TInv, FormInv, NEW h \in Handlers, Work(h) \/ StoreCode(h) PROVE FormInv'
<1>1. /\ hpc \in [Handlers -> {"idle", "take", "drop", "exchange", "validate", "store"}]
      /\ hlogin \in [Handlers -> Logins \cup {None}]
      /\ forms \in [Logins -> 0..MaxForms] /\ made \in [Logins -> 0..MaxCodes]
      /\ upstream \in [Logins -> {"none", "asked", "issued", "used"}]
      /\ (hpc[h] # "idle" => hlogin[h] \in Logins)
  BY DEF TInv, TypeOK, Shape
<1>2. ASSUME NEW pc, NEW g, NEW used \in 0..1, NEW f \in Logins,
             hpc' = [hpc EXCEPT ![h] = pc], hlogin' = [hlogin EXCEPT ![h] = g], UNCHANGED shown,
             made'[f] + forms'[f] + Due(f)' <= made[f] + forms[f] + Due(f) - used,
             made'[f] \in Nat, forms'[f] \in Nat,
             g = f /\ pc \in {"validate", "store"} /\ h \notin AtWork(f) => used = 1
      PROVE  IsFiniteSet(AtWork(f)')
             /\ made'[f] + forms'[f] + Cardinality(AtWork(f)') + Due(f)' <= shown'[f]
  <2>1. /\ IsFiniteSet(AtWork(f)') /\ Cardinality(AtWork(f)') \in Nat
        /\ Cardinality(AtWork(f)') <= Cardinality(AtWork(f)) + 1
        /\ (g # f \/ pc \notin {"validate", "store"} \/ h \in AtWork(f))
             => Cardinality(AtWork(f)') <= Cardinality(AtWork(f))
    BY <1>2, OneMoves
  <2>2. /\ made[f] \in Nat /\ forms[f] \in Nat /\ shown[f] \in Nat
        /\ Cardinality(AtWork(f)) \in Nat /\ Due(f) \in {0, 1} /\ Due(f)' \in {0, 1}
        /\ made[f] + forms[f] + Cardinality(AtWork(f)) + Due(f) <= shown[f]
    BY FormNumbers DEF Due
  <2>3. Cardinality(AtWork(f)') <= Cardinality(AtWork(f)) + used
    BY <1>2, <2>1, <2>2
  <2>. QED
    BY <1>2, <2>1, <2>2, <2>3
<1>3. ASSUME NEW pc, NEW g, hpc' = [hpc EXCEPT ![h] = pc], hlogin' = [hlogin EXCEPT ![h] = g],
             UNCHANGED <<shown, made, forms, upstream>>,
             pc \in {"validate", "store"} => g = hlogin[h] /\ hpc[h] \in {"validate", "store"}
      PROVE  FormInv'
  <2>. SUFFICES ASSUME NEW f \in Logins
                PROVE  IsFiniteSet(AtWork(f)')
                       /\ made'[f] + forms'[f] + Cardinality(AtWork(f)') + Due(f)' <= shown'[f]
    BY DEF FormInv
  <2>1. /\ made[f] \in Nat /\ forms[f] \in Nat /\ Due(f) \in {0, 1} /\ Due(f)' = Due(f)
        /\ made'[f] = made[f] /\ forms'[f] = forms[f]
    BY <1>3, FormNumbers DEF Due
  <2>2. made'[f] + forms'[f] + Due(f)' <= made[f] + forms[f] + Due(f) - 0
    BY <2>1
  <2>3. g = f /\ pc \in {"validate", "store"} => h \in AtWork(f)
    BY <1>3 DEF AtWork, Busy
  <2>4. /\ 0 \in 0..1 /\ made'[f] \in Nat /\ forms'[f] \in Nat /\ UNCHANGED shown
        /\ (g = f /\ pc \in {"validate", "store"} /\ h \notin AtWork(f) => 0 = 1)
    BY <1>3, <2>1, <2>3
  <2>. QED
    BY <1>2, <1>3, <2>2, <2>4
<1>4. hlogin' = hlogin => hlogin' = [hlogin EXCEPT ![h] = hlogin[h]]
  BY <1>1
<1>5. ASSUME NEW f \in Logins, PostForm(h, f) PROVE FormInv'
  <2>1. /\ hpc' = [hpc EXCEPT ![h] = "store"] /\ hlogin' = [hlogin EXCEPT ![h] = f]
        /\ forms[f] > 0 /\ forms' = [forms EXCEPT ![f] = forms[f] - 1] /\ UNCHANGED <<shown, made, upstream>>
    BY <1>5 DEF PostForm, validateCSRFToken, codeVars
  <2>. SUFFICES ASSUME NEW e \in Logins
                PROVE  IsFiniteSet(AtWork(e)')
                       /\ made'[e] + forms'[e] + Cardinality(AtWork(e)') + Due(e)' <= shown'[e]
    BY DEF FormInv
  <2>2. /\ made[e] \in Nat /\ forms[e] \in Nat /\ Due(e) \in {0, 1} /\ Due(e)' = Due(e) /\ made'[e] = made[e]
    BY <2>1, FormNumbers DEF Due
  <2>. DEFINE used == IF e = f THEN 1 ELSE 0
  <2>3. forms'[e] = forms[e] - used /\ forms'[e] \in Nat /\ used \in 0..1
    BY <1>1, <2>1, <2>2
  <2>4. made'[e] + forms'[e] + Due(e)' <= made[e] + forms[e] + Due(e) - used
    BY <2>2, <2>3
  <2>5. f = e => used = 1
    OBVIOUS
  <2>. HIDE DEF used
  <2>. QED
    BY <1>2, <2>1, <2>2, <2>3, <2>4, <2>5
<1>6. ASSUME NEW f \in Logins, CallbackLookup(h, f) PROVE FormInv'
  <2>1. PICK pc \in {"take", "drop"} : hpc' = [hpc EXCEPT ![h] = pc]
    BY <1>6 DEF CallbackLookup
  <2>2. hlogin' = [hlogin EXCEPT ![h] = f] /\ UNCHANGED <<shown, made, forms, upstream>>
    BY <1>6 DEF CallbackLookup, loginVars, codeVars
  <2>. QED
    BY <1>3, <2>1, <2>2
<1>7. CASE CallbackRemove(h)
  <2>1. UNCHANGED <<shown, made, forms, upstream>>
    BY <1>7 DEF CallbackRemove, codeVars
  <2>2. CASE hpc' = [hpc EXCEPT ![h] = "exchange"] /\ UNCHANGED hlogin
    BY <1>3, <1>4, <2>1, <2>2
  <2>3. CASE hpc' = [hpc EXCEPT ![h] = "idle"] /\ hlogin' = [hlogin EXCEPT ![h] = None]
    BY <1>3, <2>1, <2>3
  <2>. QED
    BY <1>7, <2>2, <2>3 DEF CallbackRemove
<1>8. CASE ExchangeCode(h)
  <2>1. UNCHANGED <<shown, made, forms>> /\ hpc[h] = "exchange" /\ hlogin[h] \in Logins
    BY <1>1, <1>8 DEF ExchangeCode, codeVars
  <2>2. CASE Fail(h) /\ UNCHANGED upstream
    BY <1>3, <2>1, <2>2 DEF Fail
  <2>3. CASE /\ upstream[hlogin[h]] = "issued" /\ upstream' = [upstream EXCEPT ![hlogin[h]] = "used"]
             /\ hpc' = [hpc EXCEPT ![h] = "validate"] /\ UNCHANGED hlogin
    <3>. SUFFICES ASSUME NEW e \in Logins
                  PROVE  IsFiniteSet(AtWork(e)')
                         /\ made'[e] + forms'[e] + Cardinality(AtWork(e)') + Due(e)' <= shown'[e]
      BY DEF FormInv
    <3>1. /\ made[e] \in Nat /\ forms[e] \in Nat /\ Due(e) \in {0, 1} /\ made'[e] = made[e] /\ forms'[e] = forms[e]
      BY <2>1, FormNumbers
    <3>. DEFINE used == IF e = hlogin[h] THEN 1 ELSE 0
    <3>2. Due(e)' = Due(e) - used /\ used \in 0..1
      BY <1>1, <2>3 DEF Due
    <3>3. made'[e] + forms'[e] + Due(e)' <= made[e] + forms[e] + Due(e) - used
      BY <3>1, <3>2
    <3>4. hlogin[h] = e => used = 1
      OBVIOUS
    <3>. HIDE DEF used
    <3>. QED
      BY <1>2, <1>4, <2>1, <2>3, <3>1, <3>2, <3>3, <3>4
  <2>. QED
    BY <1>8, <2>2, <2>3 DEF ExchangeCode
<1>9. CASE ValidateIDToken(h)
  <2>1. UNCHANGED <<shown, made, forms, upstream>> /\ hpc[h] = "validate"
    BY <1>9 DEF ValidateIDToken, codeVars
  <2>2. CASE Fail(h)
    BY <1>3, <2>1, <2>2 DEF Fail
  <2>3. CASE hpc' = [hpc EXCEPT ![h] = "store"] /\ UNCHANGED hlogin
    BY <1>3, <1>4, <2>1, <2>3
  <2>. QED
    BY <1>9, <2>2, <2>3 DEF ValidateIDToken
<1>10. CASE StoreCode(h)
  <2>1. /\ hpc[h] = "store" /\ hlogin[h] \in Logins /\ UNCHANGED <<shown, forms, upstream>>
        /\ hpc' = [hpc EXCEPT ![h] = "idle"] /\ hlogin' = [hlogin EXCEPT ![h] = None]
        /\ (made' = made \/ made' = [made EXCEPT ![hlogin[h]] = made[hlogin[h]] + 1])
    BY <1>1, <1>10 DEF StoreCode, loginVars, codeVars
  <2>2. CASE made' = made
    BY <1>3, <2>1, <2>2
  <2>3. CASE made' = [made EXCEPT ![hlogin[h]] = made[hlogin[h]] + 1]
    <3>. SUFFICES ASSUME NEW e \in Logins
                  PROVE  IsFiniteSet(AtWork(e)')
                         /\ made'[e] + forms'[e] + Cardinality(AtWork(e)') + Due(e)' <= shown'[e]
      BY DEF FormInv
    <3>1. /\ made[e] \in Nat /\ forms[e] \in Nat /\ shown[e] \in Nat
          /\ Cardinality(AtWork(e)) \in Nat /\ Due(e) \in {0, 1} /\ Due(e)' = Due(e)
          /\ made[e] + forms[e] + Cardinality(AtWork(e)) + Due(e) <= shown[e]
      BY <2>1, FormNumbers DEF Due
    <3>2. /\ IsFiniteSet(AtWork(e)') /\ Cardinality(AtWork(e)') \in Nat
          /\ Cardinality(AtWork(e)') <= Cardinality(AtWork(e))
          /\ (h \in AtWork(e) => Cardinality(AtWork(e)') = Cardinality(AtWork(e)) - 1)
      <4>1. None # e
        BY ServerAssumption
      <4>. QED
        BY <2>1, <4>1, OneMoves
    <3>3. CASE e = hlogin[h]
      <4>1. h \in AtWork(e) /\ made'[e] = made[e] + 1 /\ forms'[e] = forms[e]
        BY <1>1, <2>1, <2>3, <3>3 DEF AtWork, Busy
      <4>. QED
        BY <2>1, <3>1, <3>2, <4>1
    <3>4. CASE e # hlogin[h]
      <4>1. made'[e] = made[e] /\ forms'[e] = forms[e]
        BY <1>1, <2>1, <2>3, <3>4
      <4>. QED
        BY <2>1, <3>1, <3>2, <4>1
    <3>. QED
      BY <3>3, <3>4
  <2>. QED
    BY <2>1, <2>2, <2>3
<1>. QED
  BY <1>5, <1>6, <1>7, <1>8, <1>9, <1>10 DEF Work

LEMMA FormStep == TInv /\ FormInv /\ [Next]_vars => FormInv'
<1>. SUFFICES ASSUME TInv, FormInv, [Next]_vars PROVE FormInv'  OBVIOUS
<1>1. ASSUME NEW t \in TokenReqs,
             (\E c \in Codes : GetCode(t, c)) \/ (\E n \in Tokens : GetRefresh(t, n))
             \/ DeleteCode(t) \/ DeleteRefresh(t) \/ issueTokens(t)
      PROVE  FormInv'
  BY <1>1, FormStill DEF GetCode, GetRefresh, DeleteCode, DeleteRefresh, issueTokens, loginVars, handlerVars, codeVars
<1>2. CASE Aging \/ Elsewhere \/ UNCHANGED vars
  <2>1. UNCHANGED <<made, forms, shown, upstream, hpc, hlogin>>
    BY <1>2 DEF Aging, CodeExpires, TokenExpires, CleanupCodes, CleanupTokens, Elsewhere, Register, JwksAges,
                CleanupPending, Close, vars, loginVars, handlerVars, codeVars
  <2>. QED
    BY <2>1, FormStill
<1>. QED
  BY <1>1, <1>2, Steps, FormBrowser, FormHandler

(* A form that was shown, or a trip to the identity provider, ends in at   *)
(* most one code (authorize.go:177, authorize_federated.go:207-219).       *)
THEOREM FormsYieldOneCode == Spec => []OneCodePerForm
<1>1. Init => FormInv
  <2>. SUFFICES ASSUME Init, NEW f \in Logins
                PROVE  IsFiniteSet(AtWork(f)) /\ made[f] + forms[f] + Cardinality(AtWork(f)) + Due(f) <= shown[f]
    BY DEF FormInv
  <2>1. AtWork(f) = {}
    BY DEF Init, AtWork, Busy
  <2>2. made[f] = 0 /\ forms[f] = 0 /\ shown[f] = 0 /\ Due(f) = 0
    BY DEF Init, Due
  <2>. QED
    BY <2>1, <2>2, FS_EmptySet
<1>2. ASSUME TInv, FormInv PROVE OneCodePerForm
  <2>. SUFFICES ASSUME NEW f \in Logins PROVE made[f] + forms[f] + Cardinality(AtWork(f)) <= shown[f]
    BY DEF OneCodePerForm, AtWork, Busy
  <2>. QED
    BY <1>2, FormNumbers
<1>. QED
  BY <1>1, <1>2, FormStep, Typed, PTL DEF Spec

-----------------------------------------------------------------------------
(* AuthServer implements GrantService.  What a code carries, said without  *)
(* sets: a step that makes no code only ever copies a scope from there.    *)
Has(c, s) ==
  \/ codes[c] # None /\ s = codes[c].scope
  \/ \E n \in Tokens : /\ tokens[n] # None /\ tokens[n].code = c /\ tokens[n].life # "gone"
                       /\ s = tokens[n].scope
  \/ \E t \in TokenReqs : tpc[t] # "idle" /\ tgrant[t].code = c /\ s = tgrant[t].scope

LEMMA CarriedMembers ==
  ASSUME NEW c \in Codes, NEW s
  PROVE  (s \in Carried(c) <=> Has(c, s)) /\ (s \in Carried(c)' <=> Has(c, s)')
<1>1. s \in Carried(c) <=> Has(c, s)
  BY DEF Carried, Has, Stored, StoredTokens, UnderWay
<1>2. s \in Carried(c)' <=> Has(c, s)'
  BY DEF Carried, Has, Stored, StoredTokens, UnderWay
<1>. QED BY <1>1, <1>2

LEMMA HasShrinks ==
  ASSUME EntriesShrink, \A t \in TokenReqs : tpc'[t] # "idle" => tpc[t] # "idle" /\ tgrant'[t] = tgrant[t],
         NEW c \in Codes, NEW s, Has(c, s)'
  PROVE  Has(c, s)
BY DEF EntriesShrink, Has

LEMMA GetCopies ==
  ASSUME TInv, NEW t \in TokenReqs,
         (\E d \in Codes : GetCode(t, d)) \/ (\E n \in Tokens : GetRefresh(t, n)),
         NEW c \in Codes, NEW s, Has(c, s)'
  PROVE  Has(c, s)
<1>. USE DEF TInv, TypeOK
<1>1. PICK g \in {tgrant'[t]} : TRUE OBVIOUS
<1>2. /\ UNCHANGED <<codes, tokens>> /\ tpc' = [tpc EXCEPT ![t] = "got"]
      /\ \A u \in TokenReqs : u # t => tpc'[u] = tpc[u] /\ tgrant'[u] = tgrant[u]
  BY DEF GetCode, GetRefresh, Hold, codeVars
<1>3. ASSUME NEW d \in Codes, GetCode(t, d) PROVE g.code = c => Has(c, g.scope)
  <2>1. g = [kind |-> "code", id |-> d, code |-> d, scope |-> codes[d].scope] /\ codes[d] # None
    BY <1>1, <1>3 DEF GetCode, Hold
  <2>. QED BY <2>1 DEF Has
<1>4. ASSUME NEW n \in Tokens, GetRefresh(t, n) PROVE g.code = c => Has(c, g.scope)
  <2>1. /\ g = [kind |-> "refresh", id |-> n, code |-> tokens[n].code, scope |-> tokens[n].scope]
        /\ tokens[n] # None /\ tokens[n].life = "live"
    BY <1>1, <1>4 DEF GetRefresh, Hold
  <2>. QED BY <2>1 DEF Has
<1>5. g.code = c => Has(c, g.scope) BY <1>3, <1>4
<1>6. CASE \E u \in TokenReqs : tpc'[u] # "idle" /\ tgrant'[u].code = c /\ s = tgrant'[u].scope
  BY <1>1, <1>2, <1>5, <1>6 DEF Has
<1>7. CASE ~\E u \in TokenReqs : tpc'[u] # "idle" /\ tgrant'[u].code = c /\ s = tgrant'[u].scope
  BY <1>2, <1>7 DEF Has
<1>. QED BY <1>6, <1>7

LEMMA IssueCopies ==
  ASSUME TInv, NEW t \in TokenReqs, issueTokens(t), NEW c \in Codes, NEW s, Has(c, s)'
  PROVE  Has(c, s)
<1>. USE DEF TInv, TypeOK
<1>1. /\ tpc[t] = "issue" /\ UNCHANGED codes
      /\ \A u \in TokenReqs : tpc'[u] # "idle" => tpc[u] # "idle" /\ tgrant'[u] = tgrant[u]
  BY DEF issueTokens, Done, codeVars
<1>2. CASE UNCHANGED tokens
  BY <1>1, <1>2 DEF Has
<1>3. CASE ~UNCHANGED tokens
  <2>. DEFINE r == [code |-> tgrant[t].code, scope |-> tgrant[t].scope, life |-> "live"]
  <2>1. tokens' = [tokens EXCEPT ![issued + 1] = r] BY <1>3 DEF issueTokens
  <2>2. r.code = tgrant[t].code /\ r.scope = tgrant[t].scope OBVIOUS
  <2>. HIDE DEF r
  <2>3. \A n \in Tokens : tokens'[n] = tokens[n] \/ tokens'[n] = r BY <2>1
  <2>. QED BY <1>1, <2>2, <2>3 DEF Has
<1>. QED BY <1>2, <1>3

(* A step that makes no code adds nothing to what any code carries. *)
LEMMA NothingAdded ==
  ASSUME TInv, [Next]_vars, UNCHANGED made, NEW c \in Codes, NEW s, Has(c, s)'
  PROVE  Has(c, s)
<1>1. CASE \/ \E f \in Logins : Browser(f)
           \/ \E h \in Handlers : Work(h)
           \/ Elsewhere
           \/ UNCHANGED vars
  <2>1. UNCHANGED <<codes, tpc, tgrant, tokens>>
    BY <1>1 DEF Browser, handleGet, PostWrongForm, CSRFExpires, ServeFederated, UpstreamLogin, PendingAges,
         Work, PostForm, CallbackLookup, CallbackRemove, ExchangeCode, ValidateIDToken,
         Elsewhere, Register, JwksAges, CleanupPending, Close, vars, codeVars, tokenVars
  <2>. QED BY <2>1 DEF Has
<1>2. ASSUME NEW h \in Handlers, StoreCode(h) PROVE Has(c, s)
  <2>1. UNCHANGED <<tpc, tgrant, tokens>> BY <1>2 DEF StoreCode, tokenVars
  <2>2. hlogin[h] \in Logins /\ made[hlogin[h]] \in Nat
    BY <1>2, ServerAssumption DEF StoreCode, TInv, TypeOK, Shape
  <2>3. UNCHANGED codes BY <1>2, <2>2 DEF StoreCode, codeVars, TInv, TypeOK
  <2>. QED BY <2>1, <2>3 DEF Has
<1>3. ASSUME NEW t \in TokenReqs, DeleteCode(t) \/ DeleteRefresh(t) PROVE Has(c, s)
  BY <1>3, DeleteEntries, HasShrinks
<1>4. CASE Aging
  BY <1>4, AgingEntries, HasShrinks
<1>. QED BY <1>1, <1>2, <1>3, <1>4, GetCopies, IssueCopies, Steps

(* A step that makes a code makes one that carried nothing, and gives it   *)
(* scopes of the user.                                                     *)
LEMMA OneAdded ==
  ASSUME TInv, SInv, [Next]_vars, made' # made
  PROVE  \E d \in Unmade : /\ Unmade' = Unmade \ {d}
                           /\ Carried(d) = {}
                           /\ \E g \in SUBSET UserScopes : Carried(d)' = {g}
                           /\ \A c \in Codes \ {d} : Carried(c)' = Carried(c)
<1>. USE DEF TInv, TypeOK
<1>1. PICK h \in Handlers : StoreCode(h)
  BY Steps DEF Browser, handleGet, PostWrongForm, CSRFExpires, ServeFederated, UpstreamLogin, PendingAges,
       Work, PostForm, CallbackLookup, CallbackRemove, ExchangeCode, ValidateIDToken,
       Elsewhere, Register, JwksAges, CleanupPending, Close, vars, codeVars, tokenVars,
       GetCode, GetRefresh, DeleteCode, DeleteRefresh, issueTokens, Aging, CodeExpires, TokenExpires,
       CleanupCodes, CleanupTokens
<1>2. hlogin[h] \in Logins BY <1>1 DEF StoreCode, Shape
<1>3. UNCHANGED <<tpc, tgrant, tokens>> BY <1>1 DEF StoreCode, tokenVars
<1>4. PICK f \in Logins : f = hlogin[h] BY <1>2
<1>5. PICK g \in SUBSET UserScopes : g = GrantedScopes(f) BY DEF GrantedScopes, FilterScopes
<1>6. PICK r \in CodeRecords : r = [scope |-> g, life |-> "live"]
  BY <1>5, ScopesKnown DEF CodeRecords
<1>7. /\ made[f] < MaxCodes /\ made' = [made EXCEPT ![f] = made[f] + 1]
      /\ codes' = [codes EXCEPT ![<<f, made[f] + 1>>] = r]
  BY <1>1, <1>4, <1>5, <1>6 DEF StoreCode, codeVars
<1>8. made[f] \in Nat /\ made[f] + 1 \in 1..MaxCodes BY <1>7, ServerAssumption
<1>9. PICK d \in Codes : d = <<f, made[f] + 1>> BY <1>8 DEF Codes
<1>10. d \in Unmade BY <1>8, <1>9 DEF Unmade
<1>11. Unmade' = Unmade \ {d}
  <2>1. ASSUME NEW c \in Codes PROVE c \in Unmade' <=> c \in Unmade /\ c # d
    <3>1. PICK l \in Logins, k \in 1..MaxCodes : c = <<l, k>> BY DEF Codes
    <3>2. c = d <=> l = f /\ k = made[f] + 1 BY <1>9, <3>1
    <3>3. c \in Unmade' <=> k > made'[l] BY <3>1 DEF Unmade
    <3>4. c \in Unmade <=> k > made[l] BY <3>1 DEF Unmade
    <3>5. CASE l # f
      BY <1>7, <3>2, <3>3, <3>4, <3>5
    <3>6. CASE l = f
      <4>1. made'[l] = made[f] + 1 BY <1>7, <3>6
      <4>. QED BY <1>8, <3>2, <3>3, <3>4, <3>6, <4>1
    <3>. QED BY <3>5, <3>6
  <2>. QED BY <2>1 DEF Unmade
<1>12. \A s : ~Has(d, s)
  <2>1. /\ codes[d] = None
        /\ \A n \in Tokens : ~TokenOf(n, d)
        /\ \A t \in TokenReqs : ~At(t, d)
    BY <1>8, <1>9, SMTT(30) DEF SInv, OneInv, Fresh
  <2>. QED BY <2>1 DEF Has, TokenOf, At
<1>13. Carried(d) = {} BY <1>12, CarriedMembers
<1>14. Carried(d)' = {g}
  <2>1. codes'[d] = r /\ r # None /\ r.scope = g BY <1>6, <1>7, <1>9, ServerAssumption
  <2>2. \A s : Has(d, s)' <=> s = g BY <1>3, <1>12, <2>1 DEF Has
  <2>. QED BY <2>2, CarriedMembers
<1>15. ASSUME NEW c \in Codes, c # d PROVE Carried(c)' = Carried(c)
  <2>1. codes'[c] = codes[c] BY <1>7, <1>9, <1>15
  <2>2. \A s : Has(c, s)' <=> Has(c, s) BY <1>3, <2>1 DEF Has
  <2>. QED BY <2>2, CarriedMembers
<1>. QED BY <1>10, <1>11, <1>13, <1>14, <1>15

(* Whatever of a grant is left has its one set of scopes. *)
OneScope == \A c \in Codes : \A x, y \in Carried(c) : x = y

LEMMA OneScopeStep == TInv /\ SInv /\ OneScope /\ [Next]_vars => OneScope'
<1>. SUFFICES ASSUME TInv, SInv, OneScope, [Next]_vars, NEW c \in Codes
              PROVE  \A x, y \in Carried(c)' : x = y
  BY DEF OneScope
<1>1. CASE UNCHANGED made
  <2>1. Carried(c)' \subseteq Carried(c) BY <1>1, NothingAdded, CarriedMembers
  <2>. QED BY <2>1 DEF OneScope
<1>2. CASE made' # made
  <2>1. PICK d \in Unmade : /\ \E g \in SUBSET UserScopes : Carried(d)' = {g}
                            /\ \A e \in Codes \ {d} : Carried(e)' = Carried(e)
    BY <1>2, OneAdded
  <2>. QED BY <2>1 DEF OneScope
<1>. QED BY <1>1, <1>2

LEMMA ServiceStep == TInv /\ SInv /\ OneScope /\ [Next]_vars => [Service!Next]_(Service!grants)
<1>. SUFFICES ASSUME TInv, SInv, OneScope, [Next]_vars PROVE Service!Next
  OBVIOUS
<1>1. CASE UNCHANGED made
  <2>1. \A c \in Codes : Carried(c)' \subseteq Carried(c) BY <1>1, NothingAdded, CarriedMembers
  <2>2. Unmade' = Unmade BY <1>1 DEF Unmade
  <2>3. Granted' \in SUBSET Granted BY <2>1 DEF Granted
  <2>4. \A c \in Codes : UNION Carried(c)' = IF c \in Granted' THEN UNION Carried(c) ELSE {}
    <3>. SUFFICES ASSUME NEW c \in Codes
                  PROVE  UNION Carried(c)' = IF c \in Granted' THEN UNION Carried(c) ELSE {}
      OBVIOUS
    <3>1. CASE c \in Granted'
      <4>1. Carried(c)' = Carried(c) BY <2>1, <3>1 DEF OneScope, Granted
      <4>. QED BY <3>1, <4>1
    <3>2. CASE c \notin Granted'
      <4>1. Carried(c)' = {} BY <3>2 DEF Granted
      <4>. QED BY <3>2, <4>1
    <3>. QED BY <3>1, <3>2
  <2>5. GrantScope' = [c \in Codes |-> IF c \in Granted' THEN GrantScope[c] ELSE {}]
    <3>1. GrantScope' = [c \in Codes |-> UNION Carried(c)'] BY DEF GrantScope
    <3>2. \A c \in Codes : GrantScope[c] = UNION Carried(c) BY DEF GrantScope
    <3>. QED BY <2>4, <3>1, <3>2
  <2>. QED BY <2>2, <2>3, <2>5 DEF Service!Next, Service!End
<1>2. CASE made' # made
  <2>1. PICK d \in Unmade : /\ Unmade' = Unmade \ {d}
                            /\ Carried(d) = {}
                            /\ \E g \in SUBSET UserScopes : Carried(d)' = {g}
                            /\ \A c \in Codes \ {d} : Carried(c)' = Carried(c)
    BY <1>2, OneAdded
  <2>2. PICK g \in SUBSET UserScopes : Carried(d)' = {g} BY <2>1
  <2>3. d \in Codes BY DEF Unmade
  <2>4. Granted' = Granted \cup {d} BY <2>1, <2>2, <2>3 DEF Granted
  <2>5. GrantScope' = [GrantScope EXCEPT ![d] = g]
    <3>1. GrantScope' = [c \in Codes |-> UNION Carried(c)'] BY DEF GrantScope
    <3>2. \A c \in Codes : GrantScope[c] = UNION Carried(c) BY DEF GrantScope
    <3>3. UNION Carried(d)' = g BY <2>2
    <3>4. \A c \in Codes : UNION Carried(c)' = IF c = d THEN g ELSE GrantScope[c]
      BY <2>1, <3>2, <3>3
    <3>5. [GrantScope EXCEPT ![d] = g] = [c \in Codes |-> IF c = d THEN g ELSE GrantScope[c]]
      BY DEF GrantScope
    <3>. QED BY <3>1, <3>4, <3>5
  <2>. QED BY <2>1, <2>3, <2>4, <2>5 DEF Service!Next, Service!Grant
<1>. QED BY <1>1, <1>2

(* The authorization server keeps its promise about grants: scopes of the  *)
(* user, fixed when the grant is made, the same after any rotation, and    *)
(* gone for good when its last code, token and request are (token.go:      *)
(* 115-297, storage_memory.go:79-185).                                     *)
THEOREM KeepsPromise == Spec => Promise
<1>1. Init => Service!Init /\ OneScope
  <2>. SUFFICES ASSUME Init PROVE Service!Init /\ OneScope OBVIOUS
  <2>1. \A c \in Codes : \A s : ~Has(c, s) BY DEF Init, Has
  <2>2. \A c \in Codes : Carried(c) = {} BY <2>1, CarriedMembers
  <2>3. Unmade = Codes BY DEF Init, Unmade, Codes
  <2>4. Granted = {} /\ GrantScope = [c \in Codes |-> {}] BY <2>2 DEF Granted, GrantScope
  <2>. QED BY <2>2, <2>3, <2>4 DEF Service!Init, OneScope
<1>. QED BY <1>1, Typed, Storage, OneScopeStep, ServiceStep, PTL DEF Spec, Promise, Service!Spec
=============================================================================
