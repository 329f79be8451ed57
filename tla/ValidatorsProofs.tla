--------------------------- MODULE ValidatorsProofs ---------------------------
(***************************************************************************)
(* What a MultiValidator accepts, for any number of calls, issuers, keys   *)
(* and verifiers and however rotations and refreshes fall.                 *)
(***************************************************************************)
EXTENDS Validators, ClaimsProofs

\* The cached key of an issuer is one it has published, later than every key dropped.
KeysSound ==
    \A i \in Issuers :
        \E n \in 1 .. current[i] :
            /\ fetched[i] = {Keys[i][n]}
            /\ \A k \in dropped \cap KeysOf(i) : \E m \in 1 .. n - 1 : k = Keys[i][m]

\* The token of a call was signed with a key of the issuer it names, not dropped before.
Genuine(c) ==
    token[c].iss \in Issuers /\ token[c].key \in KeysOf(token[c].iss) /\ token[c].key \notin gone[c]

\* A call parses with keys of the issuer its token names, none of which was dropped then;
\* what it verifies is genuine, and the verifiers so far let it pass.
CallsSound ==
    \A c \in Calls :
        /\ stage[c] # "done" => verdict[c] = "none"
        /\ stage[c] = "parse" => /\ Routable(token[c]) /\ passed[c] = 0
                                 /\ keyset[c] \subseteq KeysOf(token[c].iss)
                                 /\ keyset[c] \cap gone[c] = {}
        /\ stage[c] = "verify" => /\ Genuine(c) /\ token[c].aud = Audience[token[c].iss]
                                  /\ passed[c] \in 0 .. Len(VerifiersOf(c))
                                  /\ \A n \in 1 .. passed[c] : "ok" \in Verify(VerifiersOf(c)[n], token[c])
        /\ stage[c] = "start" => passed[c] = 0

\* What a verdict says of the token: an accepted one has passed every verifier, one that
\* was refused by a verifier has not.
Justified(c, v) ==
    /\ v \in {"accepted", "expired_token", "insufficient_scope", "forbidden"} => Genuine(c)
    /\ v \in {"accepted", "insufficient_scope", "forbidden"} => token[c].aud = Audience[token[c].iss]
    /\ v = "accepted" => \A n \in DOMAIN VerifiersOf(c) : "ok" \in Verify(VerifiersOf(c)[n], token[c])
    /\ v = "expired_token" => PastExp(token[c])
    /\ v \in {"insufficient_scope", "forbidden"} =>
          \E n \in DOMAIN VerifiersOf(c) : v \in Verify(VerifiersOf(c)[n], token[c])

VerdictsSound == \A c \in Calls : Justified(c, verdict[c])

IInv == TypeOK /\ KeysSound /\ CallsSound /\ VerdictsSound

LEMMA InitIInv == Init => IInv
<1> SUFFICES ASSUME Init PROVE IInv
  OBVIOUS
<1>1. TypeOK
  BY ValidatorAssumption DEF Init, TypeOK, KeysOf, Verdicts
<1>2. KeysSound
  BY ValidatorAssumption DEF Init, KeysSound
<1>3. CallsSound
  BY DEF Init, CallsSound
<1>4. VerdictsSound
  BY DEF Init, VerdictsSound, Justified
<1> QED
  BY <1>1, <1>2, <1>3, <1>4 DEF IInv

\* A key that was dropped is not in the cache.
LEMMA DroppedIsGone ==
    ASSUME IInv, NEW i \in Issuers
    PROVE  fetched[i] \subseteq KeysOf(i) /\ fetched[i] \cap dropped = {}
<1>1. PICK n \in 1 .. current[i] :
          /\ fetched[i] = {Keys[i][n]}
          /\ \A k \in dropped \cap KeysOf(i) : \E m \in 1 .. n - 1 : k = Keys[i][m]
  BY DEF IInv, KeysSound
<1>2. n \in 1 .. Len(Keys[i]) /\ Keys[i][n] \in KeysOf(i)
  BY ValidatorAssumption DEF IInv, TypeOK, KeysOf
<1>3. \A m \in 1 .. n - 1 : Keys[i][m] # Keys[i][n]
  BY <1>2, ValidatorAssumption
<1> QED
  BY <1>1, <1>2, <1>3

\* Steps of time and of the issuers leave the calls alone.
LEMMA IssuersKeepIInv ==
    ASSUME IInv, Tick \/ Cancel \/ UNCHANGED vars \/ \E i \in Issuers : Rotate(i) \/ Refresh(i)
    PROVE  IInv'
<1> USE DEF IInv
<1>1. UNCHANGED <<token, stage, keyset, gone, passed, verdict>>
  BY DEF Tick, Cancel, Rotate, Refresh, vars
<1>2. CallsSound' /\ VerdictsSound'
  <2>1. CallsSound'
    BY <1>1 DEF CallsSound, Genuine, VerifiersOf
  <2>2. clock' >= clock /\ clock \in Nat /\ clock' \in Nat
    BY DEF Tick, Cancel, Rotate, Refresh, vars, TypeOK
  <2>3. \A c \in Calls : PastExp(token[c]) => PastExp(token[c])'
    BY <1>1, <2>2, ValidatorAssumption DEF PastExp, TypeOK
  <2>4. VerdictsSound'
    BY <1>1, <2>3, Zenon DEF VerdictsSound, Justified, Genuine, VerifiersOf
  <2> QED
    BY <2>1, <2>4
<1>3. CASE Tick \/ Cancel \/ UNCHANGED vars
  <2>1. UNCHANGED <<current, fetched, dropped>> /\ clock' \in Nat
    BY <1>3 DEF Tick, Cancel, vars, TypeOK
  <2>2. alive' \in BOOLEAN
    BY <1>3, Zenon DEF Tick, Cancel, vars, TypeOK
  <2>3. TypeOK' /\ KeysSound'
    BY <1>1, <2>1, <2>2, Zenon DEF TypeOK, KeysSound
  <2> QED
    BY <1>2, <2>3
<1>4. ASSUME NEW i \in Issuers, Rotate(i) PROVE IInv'
  <2>1. /\ UNCHANGED <<clock, alive, fetched, dropped>>
        /\ current' = [current EXCEPT ![i] = current[i] + 1] /\ current[i] < Len(Keys[i])
    BY <1>4 DEF Rotate
  <2>2. TypeOK'
    BY <1>1, <2>1, ValidatorAssumption DEF TypeOK
  <2>3. \A j \in Issuers : 1 .. current[j] \subseteq 1 .. current'[j]
    BY <2>1, ValidatorAssumption DEF TypeOK
  <2>4. KeysSound'
    BY <2>1, <2>3 DEF KeysSound
  <2> QED
    BY <1>2, <2>2, <2>4
<1>5. ASSUME NEW i \in Issuers, Refresh(i) PROVE IInv'
  <2> DEFINE new == Keys[i][current[i]]
  <2>1. /\ UNCHANGED <<clock, alive, current>>
        /\ fetched' = [fetched EXCEPT ![i] = {new}] /\ dropped' = dropped \cup (fetched[i] \ {new})
    BY <1>5 DEF Refresh, Published
  <2>2. new \in KeysOf(i) /\ current[i] \in 1 .. Len(Keys[i])
    BY DEF TypeOK, KeysOf
  <2>3. dropped' \subseteq AllKeys /\ fetched[i] \subseteq KeysOf(i)
    BY <2>1, DroppedIsGone DEF TypeOK, AllKeys
  <2>4. TypeOK'
    BY <1>1, <2>1, <2>2, <2>3 DEF TypeOK
  <2>5. KeysSound'
    <3> SUFFICES ASSUME NEW j \in Issuers
                 PROVE  \E n \in 1 .. current[j] :
                            /\ fetched'[j] = {Keys[j][n]}
                            /\ \A k \in dropped' \cap KeysOf(j) : \E m \in 1 .. n - 1 : k = Keys[j][m]
      BY <2>1 DEF KeysSound
    <3>1. PICK n \in 1 .. current[j] :
              /\ fetched[j] = {Keys[j][n]}
              /\ \A k \in dropped \cap KeysOf(j) : \E m \in 1 .. n - 1 : k = Keys[j][m]
      BY DEF KeysSound
    <3>2. CASE j # i
      <4>1. dropped' \cap KeysOf(j) = dropped \cap KeysOf(j)
        BY <2>1, <2>3, <3>2, ValidatorAssumption
      <4> QED
        BY <2>1, <3>1, <3>2, <4>1, Zenon DEF TypeOK
    <3>3. CASE j = i
      <4>1. fetched'[i] = {Keys[i][current[i]]} /\ current[i] \in 1 .. current[i]
        BY <2>1, <2>2, ValidatorAssumption DEF TypeOK
      <4>2. ASSUME NEW k \in dropped' \cap KeysOf(i)
            PROVE  \E m \in 1 .. current[i] - 1 : k = Keys[i][m]
        <5>1. CASE k \in dropped
          <6>1. PICK m \in 1 .. n - 1 : k = Keys[i][m]
            BY <3>1, <3>3, <4>2, <5>1
          <6>2. m \in 1 .. current[i] - 1
            BY <2>2, <3>3, <6>1, ValidatorAssumption
          <6> QED
            BY <6>1, <6>2
        <5>2. CASE k \in fetched[i] \ {new}
          <6>1. k = Keys[i][n] /\ n # current[i]
            BY <3>1, <3>3, <5>2
          <6>2. n \in 1 .. current[i] - 1
            BY <2>2, <3>3, <6>1, ValidatorAssumption
          <6> QED
            BY <6>1, <6>2
        <5> QED
          BY <2>1, <4>2, <5>1, <5>2
      <4> QED
        BY <3>3, <4>1, <4>2
    <3> QED
      BY <3>2, <3>3
  <2> QED
    BY <1>2, <2>4, <2>5
<1> QED
  BY <1>3, <1>4, <1>5

\* A call returns a verdict that is justified.
LEMMA ReturnKeepsIInv ==
    ASSUME IInv, NEW c \in Calls, NEW v \in Verdicts \ {"none"}, Return(c, v), Justified(c, v)
    PROVE  IInv'
<1> USE DEF IInv, Return
<1>1. TypeOK'
  BY DEF TypeOK
<1>2. KeysSound'
  BY DEF KeysSound
<1>3. CallsSound'
  BY SMTT(30) DEF CallsSound, TypeOK, Routable, Genuine, VerifiersOf
<1>4. VerdictsSound'
  <2> SUFFICES ASSUME NEW q \in Calls PROVE Justified(q, verdict[q])'
    BY DEF VerdictsSound
  <2>1. UNCHANGED <<clock, token, gone>> /\ verdict'[q] = IF q = c THEN v ELSE verdict[q]
    BY DEF TypeOK
  <2>2. Justified(q, verdict'[q])
    BY <2>1 DEF VerdictsSound
  <2> QED
    BY <2>1, <2>2 DEF Justified, Genuine, VerifiersOf, PastExp
<1> QED
  BY <1>1, <1>2, <1>3, <1>4

\* A step that changes nothing that verdicts speak of keeps them justified.
LEMMA VerdictsKept ==
    ASSUME VerdictsSound, UNCHANGED <<clock, token, verdict>>,
           \A q \in Calls : verdict[q] # "none" => gone'[q] = gone[q]
    PROVE  VerdictsSound'
<1> SUFFICES ASSUME NEW q \in Calls PROVE Justified(q, verdict[q])'
  BY DEF VerdictsSound
<1>1. Justified(q, verdict[q])
  BY DEF VerdictsSound
<1> QED
  BY <1>1 DEF Justified, Genuine, VerifiersOf, PastExp

LEMMA GetKeysKeepsIInv ==
    ASSUME IInv, NEW c \in Calls, GetKeys(c)
    PROVE  IInv'
<1> DEFINE i == token[c].iss
<1> USE DEF IInv, GetKeys, Reads
<1>1. i \in Issuers /\ fetched[i] \subseteq KeysOf(i) /\ fetched[i] \cap dropped = {}
  BY DroppedIsGone DEF Routable
<1>2. TypeOK'
  <2>1. fetched[i] \subseteq AllKeys
    BY <1>1 DEF AllKeys
  <2> QED
    BY <2>1 DEF TypeOK
<1>3. KeysSound'
  BY DEF KeysSound
<1>4. CallsSound'
  BY <1>1, SMTT(30) DEF CallsSound, TypeOK, Routable, Genuine, VerifiersOf
<1>5. VerdictsSound'
  <2>1. \A q \in Calls : verdict[q] # "none" => gone'[q] = gone[q]
    BY DEF CallsSound, TypeOK
  <2> QED
    BY <2>1, VerdictsKept
<1> QED
  BY <1>2, <1>3, <1>4, <1>5

\* The token that a call parses, and the keys it has for it.
LEMMA Parsing ==
    ASSUME IInv, NEW c \in Calls, stage[c] = "parse"
    PROVE  /\ token[c] \in Tokens /\ token[c].iss \in Issuers
           /\ token[c].key \in keyset[c] => Genuine(c)
  BY DEF IInv, TypeOK, CallsSound, Routable, Genuine

LEMMA ParseKeepsIInv ==
    ASSUME IInv, NEW c \in Calls, ParseFails(c) \/ ParseOK(c)
    PROVE  IInv'
<1> DEFINE t == token[c]
<1>0. stage[c] = "parse"
  BY DEF ParseFails, ParseOK
<1>1. CASE ParseFails(c)
  <2>1. PICK v \in ParseErrors(t, keyset[c]) : Return(c, v)
    BY <1>1 DEF ParseFails
  <2>2. v \in {"invalid_token", "expired_token"} /\ (v = "expired_token" => t.key \in keyset[c] /\ PastExp(t))
    BY <2>1 DEF ParseErrors
  <2>3. Justified(c, v) /\ v \in Verdicts \ {"none"}
    BY <1>0, <2>2, Parsing DEF Justified, Verdicts
  <2> QED
    BY <2>1, <2>3, ReturnKeepsIInv
<1>2. CASE ParseOK(c)
  <2>1. t.key \in keyset[c] /\ t.aud = Audience[t.iss]
    BY <1>2 DEF ParseOK, ParseErrors
  <2>2. Genuine(c) /\ t.iss \in Issuers
    BY <1>0, <2>1, Parsing
  <2>3. Len(VerifiersOf(c)) \in Nat
    BY <2>2, ValidatorAssumption DEF VerifiersOf
  <2>4. TypeOK' /\ KeysSound'
    BY <1>2, Zenon DEF IInv, ParseOK, TypeOK, KeysSound
  <2>5. CallsSound'
    <3> SUFFICES ASSUME NEW q \in Calls PROVE CallsSound!(q)'
      BY DEF CallsSound
    <3>1. UNCHANGED <<token, keyset, gone, passed, verdict>> /\ stage'[c] = "verify" /\ (q # c => stage'[q] = stage[q])
      BY <1>2 DEF ParseOK, IInv, TypeOK
    <3>2. CallsSound!(q) /\ CallsSound!(c)
      BY DEF IInv, CallsSound
    <3>3. CASE q = c
      BY <1>0, <2>1, <2>2, <2>3, <3>1, <3>2, <3>3 DEF Genuine, VerifiersOf
    <3>4. CASE q # c
      BY <3>1, <3>2, <3>4 DEF Genuine, VerifiersOf, Routable
    <3> QED
      BY <3>3, <3>4
  <2>6. VerdictsSound'
    BY <1>2, VerdictsKept DEF IInv, ParseOK
  <2> QED
    BY <2>4, <2>5, <2>6 DEF IInv
<1> QED
  BY <1>1, <1>2

\* What a verifier returns.
LEMMA VerifyReturns ==
    ASSUME NEW v, NEW t, IsVerifier(v), NEW r \in Verify(v, t)
    PROVE  r \in {"ok", "forbidden", "insufficient_scope", "unclassified"}
  BY DEF Verify, IsVerifier

LEMMA VerifierKeepsIInv ==
    ASSUME IInv, NEW c \in Calls, VerifierPasses(c) \/ VerifierFails(c) \/ Accept(c)
    PROVE  IInv'
<1> DEFINE t == token[c]
           vs == VerifiersOf(c)
           m  == passed[c] + 1
<1>1. /\ stage[c] = "verify" /\ Genuine(c) /\ t.aud = Audience[t.iss]
      /\ passed[c] \in 0 .. Len(vs)
      /\ \A n \in 1 .. passed[c] : "ok" \in Verify(vs[n], t)
  BY DEF VerifierPasses, VerifierFails, Accept, IInv, CallsSound
<1>2. /\ t.iss \in Issuers /\ Len(vs) \in Nat /\ DOMAIN vs = 1 .. Len(vs)
      /\ \A n \in DOMAIN vs : IsVerifier(vs[n])
  BY <1>1, ValidatorAssumption DEF Genuine, VerifiersOf
<1>3. CASE VerifierPasses(c)
  <2>1. passed[c] < Len(vs) /\ "ok" \in Verify(vs[m], t)
    BY <1>3 DEF VerifierPasses, NextOutcomes
  <2>2. TypeOK' /\ KeysSound'
    <3>1. passed' \in [Calls -> Nat]
      BY <1>3 DEF IInv, VerifierPasses, TypeOK
    <3> QED
      BY <1>3, <3>1, Zenon DEF IInv, VerifierPasses, TypeOK, KeysSound
  <2>3. CallsSound'
    <3> SUFFICES ASSUME NEW q \in Calls PROVE CallsSound!(q)'
      BY DEF CallsSound
    <3>1. UNCHANGED <<token, keyset, gone, stage, verdict>> /\ passed'[c] = m /\ (q # c => passed'[q] = passed[q])
      BY <1>3 DEF VerifierPasses, IInv, TypeOK
    <3>2. CallsSound!(q) /\ CallsSound!(c)
      BY DEF IInv, CallsSound
    <3>3. CASE q = c
      <4>1. m \in 0 .. Len(vs) /\ \A n \in 1 .. m : "ok" \in Verify(vs[n], t)
        BY <1>1, <1>2, <2>1
      <4> QED
        BY <1>1, <3>1, <3>2, <3>3, <4>1, Zenon DEF Genuine, VerifiersOf
    <3>4. CASE q # c
      BY <3>1, <3>2, <3>4 DEF Genuine, VerifiersOf, Routable
    <3> QED
      BY <3>3, <3>4
  <2>4. VerdictsSound'
    BY <1>3, VerdictsKept DEF IInv, VerifierPasses
  <2> QED
    BY <2>2, <2>3, <2>4 DEF IInv
<1>4. CASE VerifierFails(c)
  <2>1. PICK v \in Verify(vs[m], t) \ {"ok"} : Return(c, v)
    BY <1>4 DEF VerifierFails, NextOutcomes
  <2>2. m \in DOMAIN vs
    BY <1>1, <1>2, <1>4 DEF VerifierFails
  <2>3. v \in {"forbidden", "insufficient_scope", "unclassified"}
    BY <1>2, <2>1, <2>2, VerifyReturns
  <2>4. Justified(c, v) /\ v \in Verdicts \ {"none"}
    BY <1>1, <2>1, <2>2, <2>3 DEF Justified, Verdicts
  <2> QED
    BY <2>1, <2>4, ReturnKeepsIInv
<1>5. CASE Accept(c)
  <2>1. Return(c, "accepted") /\ passed[c] = Len(vs)
    BY <1>5 DEF Accept
  <2>2. Justified(c, "accepted") /\ "accepted" \in Verdicts \ {"none"}
    BY <1>1, <1>2, <2>1 DEF Justified, Verdicts
  <2> QED
    BY <2>1, <2>2, ReturnKeepsIInv
<1> QED
  BY <1>3, <1>4, <1>5

LEMMA StepKeepsIInv == IInv /\ [Next]_vars => IInv'
<1> SUFFICES ASSUME IInv, [Next]_vars PROVE IInv'
  OBVIOUS
<1>1. ASSUME NEW c \in Calls, Unroutable(c) \/ KeysUnavailable(c) PROVE IInv'
  <2>1. PICK v \in {"missing_token", "invalid_token"} : Return(c, v)
    BY <1>1 DEF Unroutable, KeysUnavailable
  <2>2. Justified(c, v) /\ v \in Verdicts \ {"none"}
    BY DEF Justified, Verdicts
  <2> QED
    BY <2>1, <2>2, ReturnKeepsIInv
<1> QED
  BY <1>1, GetKeysKeepsIInv, ParseKeepsIInv, VerifierKeepsIInv, IssuersKeepIInv DEF Next, Terminating

\* The inductive invariant holds in every reachable state.
THEOREM Invariance == Spec => []IInv
  BY InitIInv, StepKeepsIInv, PTL DEF Spec

\* The state keeps its types: in particular an issuer's cached keys are its own.
THEOREM TypesHold == Spec => []TypeOK
<1>1. IInv => TypeOK
  BY DEF IInv
<1> QED
  BY <1>1, Invariance, PTL

\* MultiValidator.Validate: for any issuers that share no keys, what is accepted was
\* signed with a key of the issuer its iss names and is for that issuer's audience.
THEOREM BoundToIssuerHolds == Spec => []BoundToIssuer
<1>1. IInv => BoundToIssuer
  BY DEF IInv, VerdictsSound, Justified, Genuine, BoundToIssuer, Accepted
<1> QED
  BY <1>1, Invariance, PTL

\* Validator.Validate: no call that reads the key set after a key was dropped accepts it.
THEOREM DroppedKeyRefusedHolds == Spec => []DroppedKeyRefused
<1>1. IInv => DroppedKeyRefused
  BY DEF IInv, VerdictsSound, Justified, Genuine, DroppedKeyRefused, Accepted
<1> QED
  BY <1>1, Invariance, PTL

\* The claims of a token that Claims hands on are where handlers look for them.
LEMMA HandedOn ==
    ASSUME NEW t, NEW k, k \notin NotHandedOn, NEW s \in GetString(t, k)
    PROVE  s \in ClaimStrings(claimsFromToken(t), k)
<1> DEFINE cs == claimsFromToken(t)
<1>1. CASE k = "sub"
  BY <1>1, ClaimsFields, Zenon DEF GetString, ClaimStrings
<1>2. CASE k = "iss"
  BY <1>2, ClaimsFields, Zenon DEF GetString, ClaimStrings
<1>3. CASE k \notin {"sub", "iss"}
  <2>1. k \notin {"jti", "aud", "exp", "nbf", "iat"}
    BY <1>3 DEF GetString, NotHandedOn
  <2>2. HasTyped(t.private, k, "string") /\ s = t.private[k].s
    BY <1>3, <2>1 DEF GetString
  <2>3. CASE k = "email"
    <3>1. cs.Email = t.private["email"].s
      BY <2>2, <2>3, ClaimsFields, Zenon
    <3> QED
      BY <2>2, <2>3, <3>1 DEF ClaimStrings
  <2>4. CASE k # "email"
    <3>1. k \in DOMAIN t.private \ Extracted /\ IsString(t.private[k])
      BY <2>2, <2>4 DEF HasTyped, IsString, Extracted, NotHandedOn
    <3>2. k \in DOMAIN cs.Raw /\ cs.Raw[k] = s
      BY <2>2, <3>1, ClaimsFields, Zenon
    <3>3. ClaimStrings(cs, k) = {cs.Raw[n] : n \in {k} \cap DOMAIN cs.Raw}
      BY <1>3, <2>4, Zenon DEF ClaimStrings
    <3>4. k \in {k} \cap DOMAIN cs.Raw
      BY <3>2, Zenon
    <3> QED
      BY <3>2, <3>3, <3>4, Zenon
  <2> QED
    BY <2>3, <2>4
<1> QED
  BY <1>1, <1>2, <1>3

\* What a verifier demands is in the claims the handlers get.
InClaims(v, t) ==
    /\ v.scopes \subseteq Range(claimsFromToken(t).Scopes)
    /\ \A k \in DOMAIN v.required \ NotHandedOn :
          v.required[k] \in ClaimStrings(claimsFromToken(t), k)

LEMMA PassedInClaims ==
    ASSUME NEW v, NEW t, "ok" \in Verify(v, t), IsVerifier(v)
    PROVE  InClaims(v, t)
<1>0. DOMAIN <<>> = {}
  OBVIOUS
<1>1. CASE v.op = "RequireScopes"
  <2>1. v.scopes \subseteq Range(scopesFromToken(t.private)) /\ v.required = <<>>
    BY <1>1 DEF Verify, IsVerifier
  <2> QED
    BY <1>0, <2>1, ClaimsFields, Zenon DEF InClaims
<1>2. CASE v.op = "VerifyRequiredStringClaims"
  <2>1. /\ v.scopes = {}
        /\ \A k \in DOMAIN v.required : v.required[k] \in GetString(t, k)
    BY <1>2 DEF Verify, IsVerifier
  <2> QED
    BY <2>1, HandedOn, Zenon DEF InClaims
<1>3. CASE v.op = "Custom"
  BY <1>0, <1>3 DEF IsVerifier, InClaims
<1> QED
  BY <1>1, <1>2, <1>3 DEF IsVerifier

\* Validate's loop over Verifiers and claimsFromToken: for any verifiers and any tokens,
\* what the verifiers demand is in the claims of every accepted call, and the scopes in
\* them are those the issuer granted.
THEOREM ClaimsMeetPolicyHolds == Spec => []ClaimsMeetPolicy
<1>1. ASSUME IInv PROVE ClaimsMeetPolicy
  <2> SUFFICES ASSUME NEW c \in Accepted
               PROVE  /\ Range(claimsFromToken(token[c]).Scopes) = GrantedScopes(token[c].private)
                      /\ \A n \in DOMAIN VerifiersOf(c) : InClaims(VerifiersOf(c)[n], token[c])
    BY Zenon DEF ClaimsMeetPolicy, InClaims
  <2> DEFINE t == token[c]
  <2>1. /\ t \in Tokens /\ t.iss \in Issuers
        /\ \A n \in DOMAIN VerifiersOf(c) : "ok" \in Verify(VerifiersOf(c)[n], t)
    BY <1>1 DEF IInv, TypeOK, Accepted, VerdictsSound, Justified, Genuine
  <2>2. \A n \in DOMAIN t.private : IsValue(t.private[n])
    BY <2>1, ValidatorAssumption
  <2>3. Range(claimsFromToken(t).Scopes) = GrantedScopes(t.private)
    BY <2>2, ScopesGranted, ClaimsFields, Zenon
  <2>4. \A n \in DOMAIN VerifiersOf(c) : IsVerifier(VerifiersOf(c)[n])
    BY <2>1, ValidatorAssumption DEF VerifiersOf
  <2> QED
    BY <2>1, <2>3, <2>4, PassedInClaims, Zenon
<1> QED
  BY <1>1, Invariance, PTL

\* Validator.Validate: for any verifiers and any tokens, expired_token, insufficient_scope
\* and forbidden are answered only to genuine tokens, and only for their reasons.
THEOREM RefusedForCauseHolds == Spec => []RefusedForCause
<1>1. ASSUME IInv, NEW c \in Calls
      PROVE  LET t == token[c] IN
             /\ verdict[c] \in {"expired_token", "insufficient_scope", "forbidden"} =>
                   t.iss \in Issuers /\ t.key \in KeysOf(t.iss) /\ t.key \notin gone[c]
             /\ verdict[c] = "expired_token" => t.exp # 0 /\ clock >= t.exp + ClockSkew
             /\ verdict[c] = "insufficient_scope" => t.aud = Audience[t.iss] /\ LacksScope(c)
             /\ verdict[c] = "forbidden" => t.aud = Audience[t.iss] /\ LacksClaim(c)
  <2> DEFINE t == token[c]
             v == verdict[c]
  <2>1. Justified(c, v) /\ t \in Tokens
    BY <1>1 DEF IInv, TypeOK, VerdictsSound
  <2>2. v \in {"expired_token", "insufficient_scope", "forbidden"} => Genuine(c)
    BY <2>1 DEF Justified
  <2>3. v = "expired_token" => t.exp # 0 /\ clock >= t.exp + ClockSkew
    BY <2>1 DEF Justified, PastExp
  <2>4. ASSUME v \in {"insufficient_scope", "forbidden"}
        PROVE  /\ t.aud = Audience[t.iss]
               /\ v = "insufficient_scope" => LacksScope(c)
               /\ v = "forbidden" => LacksClaim(c)
    <3>1. PICK n \in DOMAIN VerifiersOf(c) : v \in Verify(VerifiersOf(c)[n], t)
      BY <2>1, <2>4 DEF Justified
    <3>2. IsVerifier(VerifiersOf(c)[n])
      BY <2>2, <2>4, <3>1, ValidatorAssumption DEF VerifiersOf, Genuine
    <3>3. Range(scopesFromToken(t.private)) = GrantedScopes(t.private)
      BY <2>1, ScopesGranted, ValidatorAssumption
    <3>4. v = "insufficient_scope" => LacksScope(c)
      BY <3>1, <3>2, <3>3 DEF Verify, IsVerifier, LacksScope
    <3>5. v = "forbidden" => LacksClaim(c)
      BY <3>1, <3>2 DEF Verify, IsVerifier, LacksClaim
    <3> QED
      BY <2>1, <2>4, <3>4, <3>5 DEF Justified
  <2> QED
    BY <2>2, <2>3, <2>4 DEF Genuine
<1>2. IInv => RefusedForCause
  BY <1>1, Zenon DEF RefusedForCause
<1> QED
  BY <1>2, Invariance, PTL
=============================================================================
