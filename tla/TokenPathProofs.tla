--------------------------- MODULE TokenPathProofs ---------------------------
(***************************************************************************)
(* Proofs about TokenPath, for any callers, flows and tokens and for every *)
(* configuration of the receiver.                                          *)
(***************************************************************************)
EXTENDS TokenPath, TLAPS

-----------------------------------------------------------------------------
(* Type correctness. *)

LEMMA InitType == Init => TypeOK
BY TokenAssumption DEF Init, TypeOK, Tokens, NoToken, CallerPcs, FlowPcs

LEMMA CallerType == ASSUME TypeOK, NEW c \in Callers, CallerStep(c) PROVE TypeOK'
<1>. USE DEF TypeOK, CallerPcs
<1>1. CASE ReadToken(c)
  BY <1>1 DEF ReadToken, Valid, Returned, Moves, tokenVars, providerVars, flowVars
<1>2. CASE LockToken(c)
  BY <1>2 DEF LockToken, Valid, Returned, Moves, providerVars, flowVars
<1>3. CASE FetchToken(c)
  <2>1. CASE \E t \in Tokens : /\ Issue(t, "client") /\ Returned(c, t)
                               /\ cached' = t /\ currentToken' = t
    BY <1>3, <2>1 DEF FetchToken, Issue, Returned, flowVars
  <2>2. CASE Moves(c, "idle") /\ UNCHANGED <<tokenVars, providerVars>>
    BY <1>3, <2>2 DEF FetchToken, Moves, tokenVars, providerVars, flowVars
  <2>. QED BY <1>3, <2>1, <2>2 DEF FetchToken
<1>4. CASE Refresh(c)
  BY <1>4 DEF Refresh, Valid, Moves, callerVars, providerVars, flowVars
<1>5. CASE RefreshFetched(c)
  <2>1. CASE \E t \in Tokens : Issue(t, "client") /\ cached' = t /\ currentToken' = t
    BY <1>5, <2>1 DEF RefreshFetched, Issue, Moves, flowVars
  <2>2. CASE UNCHANGED <<tokenVars, providerVars>>
    BY <1>5, <2>2 DEF RefreshFetched, Moves, tokenVars, providerVars, flowVars
  <2>. QED BY <1>5, <2>1, <2>2 DEF RefreshFetched
<1>6. CASE Validate(c)
  BY <1>6 DEF Validate, Verdicts, Moves, tokenVars, providerVars, flowVars
<1>7. CASE NextCall(c)
  BY <1>7 DEF NextCall, tokenVars, providerVars, flowVars
<1>. QED BY <1>1, <1>2, <1>3, <1>4, <1>5, <1>6, <1>7 DEF CallerStep

LEMMA FlowType == ASSUME TypeOK, NEW f \in Flows, FlowStep(f) PROVE TypeOK'
<1>. USE DEF TypeOK, FlowPcs, callerVars
<1>1. CASE BuildAuthorizationURL(f)
  BY <1>1 DEF BuildAuthorizationURL, Waiting, tokenVars, providerVars
<1>2. CASE TakeVerifier(f)
  BY <1>2 DEF TakeVerifier, tokenVars, providerVars
<1>3. CASE ClearVerifier(f)
  BY <1>3 DEF ClearVerifier, Waiting, tokenVars, providerVars
<1>4. CASE RequestToken(f)
  <2>1. CASE \E t \in Tokens : /\ sent[f] = f /\ Issue(t, "user")
                               /\ ftok' = [ftok EXCEPT ![f] = t] /\ fpc' = [fpc EXCEPT ![f] = "store"]
    BY <1>4, <2>1 DEF RequestToken, Issue, tokenVars
  <2>2. CASE /\ fpc' = [fpc EXCEPT ![f] = "rejected"] \/ fpc' = [fpc EXCEPT ![f] = "failed"]
             /\ UNCHANGED <<ftok, providerVars>>
    BY <1>4, <2>2 DEF RequestToken, tokenVars, providerVars
  <2>. QED BY <1>4, <2>1, <2>2 DEF RequestToken
<1>5. CASE StoreToken(f)
  BY <1>5 DEF StoreToken, providerVars
<1>. QED BY <1>1, <1>2, <1>3, <1>4, <1>5 DEF FlowStep

LEMMA NextType == TypeOK /\ [Next]_vars => TypeOK'
<1>. SUFFICES ASSUME TypeOK, [Next]_vars PROVE TypeOK' OBVIOUS
<1>1. CASE \E c \in Callers : CallerStep(c) BY <1>1, CallerType
<1>2. CASE \E f \in Flows : FlowStep(f) BY <1>2, FlowType
<1>3. ASSUME NEW t \in Tokens, Ages(t) PROVE TypeOK'
  BY <1>3 DEF Ages, TypeOK, tokenVars, callerVars, flowVars
<1>4. ASSUME NEW t \in Tokens, Revokes(t) PROVE TypeOK'
  BY <1>4 DEF Revokes, TypeOK, tokenVars, callerVars, flowVars
<1>5. CASE UNCHANGED vars
  BY <1>5 DEF vars, TypeOK, tokenVars, providerVars, callerVars, flowVars
<1>. QED BY <1>1, <1>2, <1>3, <1>4, <1>5 DEF Next

(* The type invariant, for the authenticator, its callers and its flows.   *)
THEOREM TypeCorrect == Spec => []TypeOK
BY InitType, NextType, PTL DEF Spec

-----------------------------------------------------------------------------
(* What callers hold.  A token is returned while it is valid; the lock is  *)
(* held by the one caller that waits for the provider, and getToken went   *)
(* to the provider because the current token was not valid any more.       *)
CallerInv ==
  /\ \A t \in Tokens : kind[t] = "none" => age[t] = 0
  /\ \A c \in Callers : pc[c] \in {"have", "ok", "refused", "unchecked"} => taken[c] = 0
  /\ \A c \in Callers : pc[c] = "refused" => tok[c] \in revoked \/ age[tok[c]] = 2
  /\ \A c \in Callers : pc[c] \in {"fetch", "refetch"} => mu = c
  /\ \A c \in Callers : pc[c] = "fetch" => ~Valid(currentToken)

LEMMA InitCaller == Init => CallerInv
BY DEF Init, CallerInv

LEMMA CallerStepInv ==
  ASSUME TypeOK, CallerInv, NEW c \in Callers, CallerStep(c) PROVE CallerInv'
<1>. USE TokenAssumption DEF Configured, TypeOK, CallerInv, Valid
<1>1. CASE ReadToken(c)
  BY <1>1 DEF ReadToken, Returned, Moves, tokenVars, providerVars
<1>2. CASE LockToken(c)
  BY <1>2 DEF LockToken, Returned, Moves, providerVars
<1>3. CASE FetchToken(c)
  <2>1. ASSUME NEW t \in Tokens, Issue(t, "client"), Returned(c, t), currentToken' = t, mu' = None
        PROVE CallerInv'
    BY <1>3, <2>1 DEF FetchToken, Issue, Returned
  <2>2. CASE Moves(c, "idle") /\ UNCHANGED <<tokenVars, providerVars>>
    BY <1>3, <2>2 DEF FetchToken, Moves, tokenVars, providerVars
  <2>. QED BY <1>3, <2>1, <2>2 DEF FetchToken
<1>4. CASE Refresh(c)
  BY <1>4 DEF Refresh, Moves, callerVars, providerVars
<1>5. CASE RefreshFetched(c)
  <2>1. CASE \E t \in Tokens : Issue(t, "client") /\ cached' = t /\ currentToken' = t
    BY <1>5, <2>1 DEF RefreshFetched, Issue, Moves
  <2>2. CASE UNCHANGED <<tokenVars, providerVars>>
    BY <1>5, <2>2 DEF RefreshFetched, Moves, tokenVars, providerVars
  <2>. QED BY <1>5, <2>1, <2>2 DEF RefreshFetched
<1>6. CASE Validate(c)
  <2>1. PICK v \in Verdicts(tok[c]) : Moves(c, v) BY <1>6 DEF Validate
  <2>2. tok[c] \in Tokens /\ age[tok[c]] \in 0..2 BY <1>6 DEF Validate
  <2>3. v = "refused" => tok[c] \in revoked \/ age[tok[c]] = 2
    BY <2>1, <2>2 DEF Verdicts, Signed, Active
  <2>4. v \in {"ok", "refused", "unchecked"} BY <2>1 DEF Verdicts
  <2>. QED BY <1>6, <2>1, <2>3, <2>4 DEF Validate, Moves, tokenVars, providerVars
<1>7. CASE NextCall(c)
  BY <1>7 DEF NextCall, tokenVars, providerVars
<1>. QED BY <1>1, <1>2, <1>3, <1>4, <1>5, <1>6, <1>7 DEF CallerStep

LEMMA FlowStepInv == ASSUME TypeOK, CallerInv, NEW f \in Flows, FlowStep(f) PROVE CallerInv'
<1>. USE TokenAssumption DEF TypeOK, CallerInv, Valid, callerVars
<1>1. CASE BuildAuthorizationURL(f)
  BY <1>1 DEF BuildAuthorizationURL, tokenVars, providerVars
<1>2. CASE TakeVerifier(f)
  BY <1>2 DEF TakeVerifier, tokenVars, providerVars
<1>3. CASE ClearVerifier(f)
  BY <1>3 DEF ClearVerifier, tokenVars, providerVars
<1>4. CASE RequestToken(f)
  BY <1>4 DEF RequestToken, Issue, tokenVars, providerVars
<1>5. CASE StoreToken(f)
  BY <1>5 DEF StoreToken, providerVars
<1>. QED BY <1>1, <1>2, <1>3, <1>4, <1>5 DEF FlowStep

LEMMA NextCaller == TypeOK /\ CallerInv /\ [Next]_vars => CallerInv'
<1>. SUFFICES ASSUME TypeOK, CallerInv, [Next]_vars PROVE CallerInv' OBVIOUS
<1>1. CASE \E c \in Callers : CallerStep(c) BY <1>1, CallerStepInv
<1>2. CASE \E f \in Flows : FlowStep(f) BY <1>2, FlowStepInv
<1>3. ASSUME NEW t \in Tokens, Ages(t) PROVE CallerInv'
  BY <1>3 DEF Ages, TypeOK, CallerInv, Valid, tokenVars, callerVars
<1>4. ASSUME NEW t \in Tokens, Revokes(t) PROVE CallerInv'
  BY <1>4 DEF Revokes, TypeOK, CallerInv, Valid, tokenVars, callerVars
<1>5. CASE UNCHANGED vars
  BY <1>5 DEF vars, CallerInv, Valid, tokenVars, providerVars, callerVars
<1>. QED BY <1>1, <1>2, <1>3, <1>4, <1>5 DEF Next

LEMMA CallersInvariant == Spec => []CallerInv
BY InitCaller, NextCaller, TypeCorrect, PTL DEF Spec

(* Whatever the receiver checks with, it refuses nobody's token as such    *)
(* while that is good and in time.  (A 401 for want of keys or of an       *)
(* introspection endpoint is no verdict on the token: "unchecked".)        *)
THEOREM RefusalsAreLate == Spec => []RefusedOnlyIfLate
<1>1. TypeOK /\ CallerInv => RefusedOnlyIfLate
  BY DEF TypeOK, CallerInv, RefusedOnlyIfLate
<1>. QED BY <1>1, TypeCorrect, CallersInvariant, PTL

(* A user's token is replaced by a Refresh or by another flow only.        *)
THEOREM UserTokensKept == Spec => UserTokenKept
<1>1. ASSUME TypeOK, CallerInv, [Next]_vars,
             kind[currentToken] = "user", Valid(currentToken), currentToken' # currentToken
      PROVE \/ \E c \in Callers : Refresh(c) \/ RefreshFetched(c)
            \/ \E f \in Flows : StoreToken(f)
  <2>1. ASSUME NEW c \in Callers, CallerStep(c) PROVE Refresh(c) \/ RefreshFetched(c)
    <3>1. ~ReadToken(c) BY <1>1 DEF ReadToken, tokenVars
    <3>2. ~LockToken(c) BY <1>1 DEF LockToken
    <3>3. ~FetchToken(c) BY <1>1 DEF FetchToken, CallerInv
    <3>4. ~Validate(c) BY <1>1 DEF Validate, tokenVars
    <3>5. ~NextCall(c) BY <1>1 DEF NextCall, tokenVars
    <3>. QED BY <2>1, <3>1, <3>2, <3>3, <3>4, <3>5 DEF CallerStep
  <2>2. ASSUME NEW f \in Flows, FlowStep(f) PROVE StoreToken(f)
    BY <1>1, <2>2
    DEF FlowStep, BuildAuthorizationURL, TakeVerifier, ClearVerifier, RequestToken, tokenVars
  <2>3. \A t \in Tokens : ~Ages(t) /\ ~Revokes(t) BY <1>1 DEF Ages, Revokes, tokenVars
  <2>4. ~UNCHANGED vars BY <1>1 DEF vars, tokenVars
  <2>. QED BY <1>1, <2>1, <2>2, <2>3, <2>4 DEF Next
<1>2. TypeOK /\ CallerInv /\ [Next]_vars =>
        [kind[currentToken] = "user" /\ Valid(currentToken) /\ currentToken' # currentToken
           => \/ \E c \in Callers : Refresh(c) \/ RefreshFetched(c)
              \/ \E f \in Flows : StoreToken(f)]_vars
  BY <1>1
<1>. QED BY <1>2, TypeCorrect, CallersInvariant, PTL DEF Spec, UserTokenKept

-----------------------------------------------------------------------------
(* The one verifier: it belongs to the flow whose user is away, unless     *)
(* another flow touched it; and what such a flow sent was its own.         *)
FlowInv ==
  \A f \in Flows :
    \/ f \in disturbed
    \/ /\ fpc[f] = "browser" => pkceVerifier = f
       /\ fpc[f] \in {"clear", "request"} => sent[f] = f
       /\ fpc[f] # "rejected"

LEMMA FlowInvStep == ASSUME TypeOK, FlowInv, NEW f \in Flows, FlowStep(f) PROVE FlowInv'
<1>. USE TokenAssumption DEF TypeOK, FlowInv
<1>1. CASE BuildAuthorizationURL(f)
  BY <1>1 DEF BuildAuthorizationURL, Waiting
<1>2. CASE TakeVerifier(f)
  BY <1>2 DEF TakeVerifier
<1>3. CASE ClearVerifier(f)
  BY <1>3 DEF ClearVerifier, Waiting
<1>4. CASE RequestToken(f)
  BY <1>4 DEF RequestToken
<1>5. CASE StoreToken(f)
  BY <1>5 DEF StoreToken
<1>. QED BY <1>1, <1>2, <1>3, <1>4, <1>5 DEF FlowStep

LEMMA NextFlow == TypeOK /\ FlowInv /\ [Next]_vars => FlowInv'
<1>. SUFFICES ASSUME TypeOK, FlowInv, [Next]_vars PROVE FlowInv' OBVIOUS
<1>1. CASE \E f \in Flows : FlowStep(f) BY <1>1, FlowInvStep
<1>2. CASE \E c \in Callers : CallerStep(c)
  <2>1. UNCHANGED <<pkceVerifier, flowVars>>
    BY <1>2 DEF CallerStep, ReadToken, LockToken, FetchToken, Refresh, RefreshFetched, Validate,
                NextCall
  <2>. QED BY <2>1 DEF FlowInv, flowVars
<1>3. CASE \E t \in Tokens : Ages(t) \/ Revokes(t)
  BY <1>3 DEF Ages, Revokes, FlowInv, flowVars
<1>4. CASE UNCHANGED vars
  BY <1>4 DEF vars, FlowInv, flowVars
<1>. QED BY <1>1, <1>2, <1>3, <1>4 DEF Next

(* The exchange of a flow that nothing came in the way of is not rejected. *)
THEOREM RejectionsAreDisturbed == Spec => []RejectedOnlyIfDisturbed
<1>1. Init => FlowInv BY DEF Init, FlowInv
<1>2. FlowInv => RejectedOnlyIfDisturbed BY DEF FlowInv, RejectedOnlyIfDisturbed
<1>. QED BY <1>1, <1>2, NextFlow, TypeCorrect, PTL DEF Spec
=============================================================================
