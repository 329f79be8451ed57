------------------------------ MODULE Validators ------------------------------
(***************************************************************************)
(* MultiValidator routing to per-issuer Validators whose signing keys      *)
(* rotate.  A call reads the issuer's cached key set, parses the token     *)
(* with that set, then runs the verifiers of that issuer one by one, any   *)
(* of which may ask a remote service; time, a rotation and a background    *)
(* refresh may fall between any two of these steps.  An accepted call      *)
(* returns claimsFromToken of the token.                                   *)
(*                                                                         *)
(* External (jwx): while the construction context is alive the JWKS cache  *)
(* refreshes a set at some time, with no upper bound, since                *)
(* MinRefreshInterval only bounds how often;  jwt.Parse checks the         *)
(* signature first and then the claims, in an order that is left open, and *)
(* a claim that is absent is not checked.                                  *)
(***************************************************************************)
EXTENDS Claims, Integers

CONSTANTS
    Calls,      \* Validate calls
    Issuers,    \* the configured issuers
    Audience,   \* ValidatorConfig.Audience of each issuer
    Verifiers,  \* ValidatorConfig.Verifiers of each issuer
    Keys,       \* signing keys of each issuer, in the order it uses them
    Tokens,     \* bearer tokens: [form, sub, iss, jti, aud, key, nbf, exp, private];
                \* nbf and exp 0, sub, iss and jti <<>> if absent
    ClockSkew,  \* ValidatorConfig.ClockSkew
    MaxTime     \* bound on the clock

KeysOf(i) == {Keys[i][n] : n \in 1 .. Len(Keys[i])}
AllKeys   == UNION {KeysOf(i) : i \in Issuers}

\* multivalidator.go:40: "Configured issuers MUST NOT share signing key material".  An issuer
\* publishes a key from the start and does not come back to a retired one.
ASSUME ValidatorAssumption ==
    /\ DOMAIN Keys = Issuers /\ DOMAIN Audience = Issuers /\ DOMAIN Verifiers = Issuers
    /\ \A i, j \in Issuers : i # j => KeysOf(i) \cap KeysOf(j) = {}
    /\ \A i \in Issuers : Len(Keys[i]) \in Nat \ {0}
    /\ \A i \in Issuers : \A m, n \in 1 .. Len(Keys[i]) : m # n => Keys[i][m] # Keys[i][n]
    /\ \A i \in Issuers : /\ Len(Verifiers[i]) \in Nat /\ DOMAIN Verifiers[i] = 1 .. Len(Verifiers[i])
                          /\ \A n \in DOMAIN Verifiers[i] : IsVerifier(Verifiers[i][n])
    /\ ClockSkew \in Nat /\ MaxTime \in Nat
    /\ \A t \in Tokens : /\ t.exp \in Nat /\ t.nbf \in Nat
                         /\ \A n \in DOMAIN t.private : IsValue(t.private[n])

VARIABLES
    clock,    \* time.Now
    alive,    \* the context given to NewValidator is not cancelled
    current,  \* per issuer, the position in Keys of the key it publishes
    fetched,  \* per issuer, the key set in the JWKS cache
    dropped,  \* history: the keys that a refresh has removed from the cache
    token,    \* the bearer token of a call
    stage,    \* "start", "parse", "verify" or "done"
    keyset,   \* the key set the call works with
    gone,     \* history: dropped when the call read its key set
    passed,   \* how many of the issuer's verifiers have let the token pass
    verdict   \* what Validate returned

vars == <<clock, alive, current, fetched, dropped, token, stage, keyset, gone, passed, verdict>>

Verdicts == {"none", "accepted", "missing_token", "invalid_token", "expired_token",
             "forbidden", "insufficient_scope", "unclassified"}

Published(i) == {Keys[i][current[i]]}

\* NewMultiValidator: every issuer's keys are fetched before the first call.
Init ==
    /\ clock = 0 /\ alive = TRUE
    /\ current = [i \in Issuers |-> 1]
    /\ fetched = [i \in Issuers |-> {Keys[i][1]}]
    /\ dropped = {}
    /\ token \in [Calls -> Tokens]
    /\ stage = [c \in Calls |-> "start"]
    /\ keyset = [c \in Calls |-> {}]
    /\ gone = [c \in Calls |-> {}]
    /\ passed = [c \in Calls |-> 0]
    /\ verdict = [c \in Calls |-> "none"]

Tick ==
    /\ clock < MaxTime
    /\ clock' = clock + 1
    /\ UNCHANGED <<alive, current, fetched, dropped, token, stage, keyset, gone, passed, verdict>>

\* An issuer replaces its key.
Rotate(i) ==
    /\ current[i] < Len(Keys[i])
    /\ current' = [current EXCEPT ![i] = @ + 1]
    /\ UNCHANGED <<clock, alive, fetched, dropped, token, stage, keyset, gone, passed, verdict>>

\* The context given to NewValidator is cancelled, which ends the refreshing.
Cancel ==
    /\ alive
    /\ alive' = FALSE
    /\ UNCHANGED <<clock, current, fetched, dropped, token, stage, keyset, gone, passed, verdict>>

\* The JWKS cache fetches an issuer's set; a fetch that fails leaves the old one.
Refresh(i) ==
    /\ alive
    /\ fetched' = [fetched EXCEPT ![i] = Published(i)]
    /\ dropped' = dropped \cup (fetched[i] \ Published(i))
    /\ UNCHANGED <<clock, alive, current, token, stage, keyset, gone, passed, verdict>>

-----------------------------------------------------------------------------
Return(c, v) ==
    /\ stage' = [stage EXCEPT ![c] = "done"]
    /\ verdict' = [verdict EXCEPT ![c] = v]
    /\ keyset' = [keyset EXCEPT ![c] = {}]
    /\ passed' = [passed EXCEPT ![c] = 0]
    /\ UNCHANGED <<clock, alive, current, fetched, dropped, token, gone>>

Routable(t) == t.form = "jwt" /\ t.iss \in Issuers

\* An empty bearer, a token that does not parse, or an issuer that is not configured:
\* no key set is read.
Unroutable(c) ==
    /\ stage[c] = "start"
    /\ ~Routable(token[c])
    /\ Return(c, IF token[c].form = "empty" THEN "missing_token" ELSE "invalid_token")

\* cache.Get fails, on a cancelled context for one.
KeysUnavailable(c) ==
    /\ stage[c] = "start"
    /\ Routable(token[c])
    /\ Return(c, "invalid_token")

Reads(c, keys) ==
    /\ stage[c] = "start"
    /\ Routable(token[c])
    /\ stage' = [stage EXCEPT ![c] = "parse"]
    /\ keyset' = [keyset EXCEPT ![c] = keys]
    /\ gone' = [gone EXCEPT ![c] = dropped]
    /\ UNCHANGED <<clock, alive, current, fetched, dropped, token, passed, verdict>>

\* Faulty variants: one key set for all issuers; the set of NewValidator's first fetch.
GetKeysMerged(c) == Reads(c, UNION {fetched[i] : i \in Issuers})
GetKeysPrimed(c) == Reads(c, {Keys[token[c].iss][1]})

\* The unverified iss selects the Validator, which reads its key set.
GetKeys(c) == Reads(c, fetched[token[c].iss])

PastExp(t)  == t.exp # 0 /\ clock >= t.exp + ClockSkew
EarlyNbf(t) == t.nbf # 0 /\ clock + ClockSkew < t.nbf

\* The errors that jwt.Parse and isExpiredError may make of a token; none if it is in order.
ParseErrors(t, keys) ==
    IF t.key \notin keys THEN {"invalid_token"}
    ELSE {v \in {"expired_token"} : PastExp(t)}
         \cup {v \in {"invalid_token"} : EarlyNbf(t) \/ t.aud # Audience[t.iss]}

ParseFails(c) ==
    /\ stage[c] = "parse"
    /\ \E v \in ParseErrors(token[c], keyset[c]) : Return(c, v)

ParseOK(c) ==
    /\ stage[c] = "parse"
    /\ ParseErrors(token[c], keyset[c]) = {}
    /\ stage' = [stage EXCEPT ![c] = "verify"]
    /\ UNCHANGED <<clock, alive, current, fetched, dropped, token, keyset, gone, passed, verdict>>

\* The verifiers of the issuer, in order, and the one that is next.
VerifiersOf(c) == Verifiers[token[c].iss]
NextOutcomes(c) == Verify(VerifiersOf(c)[passed[c] + 1], token[c])

VerifierPasses(c) ==
    /\ stage[c] = "verify" /\ passed[c] < Len(VerifiersOf(c))
    /\ "ok" \in NextOutcomes(c)
    /\ passed' = [passed EXCEPT ![c] = @ + 1]
    /\ UNCHANGED <<clock, alive, current, fetched, dropped, token, stage, keyset, gone, verdict>>

\* The first failure is returned.
VerifierFails(c) ==
    /\ stage[c] = "verify" /\ passed[c] < Len(VerifiersOf(c))
    /\ \E v \in NextOutcomes(c) \ {"ok"} : Return(c, v)

\* Faulty variant: the verifiers after the first are not run.
AcceptFirst(c) ==
    /\ stage[c] = "verify" /\ passed[c] > 0
    /\ Return(c, "accepted")

\* The loop is over and the claims are returned; the clock is not read again.
Accept(c) ==
    /\ stage[c] = "verify" /\ passed[c] = Len(VerifiersOf(c))
    /\ Return(c, "accepted")

Terminating == (\A c \in Calls : stage[c] = "done") /\ UNCHANGED vars

Next ==
    \/ Tick \/ Cancel
    \/ \E i \in Issuers : Rotate(i) \/ Refresh(i)
    \/ \E c \in Calls : \/ Unroutable(c) \/ KeysUnavailable(c) \/ GetKeys(c)
                        \/ ParseFails(c) \/ ParseOK(c)
                        \/ VerifierPasses(c) \/ VerifierFails(c) \/ Accept(c)
    \/ Terminating

Spec == Init /\ [][Next]_vars

-----------------------------------------------------------------------------
\* The types of the state.
TypeOK ==
    /\ clock \in Nat /\ alive \in BOOLEAN
    /\ DOMAIN current = Issuers /\ DOMAIN fetched = Issuers
    /\ \A i \in Issuers : current[i] \in 1 .. Len(Keys[i]) /\ fetched[i] \subseteq KeysOf(i)
    /\ dropped \subseteq AllKeys
    /\ token \in [Calls -> Tokens]
    /\ stage \in [Calls -> {"start", "parse", "verify", "done"}]
    /\ keyset \in [Calls -> SUBSET AllKeys] /\ gone \in [Calls -> SUBSET AllKeys]
    /\ passed \in [Calls -> Nat]
    /\ verdict \in [Calls -> Verdicts]

Accepted == {c \in Calls : verdict[c] = "accepted"}

\* MultiValidator.Validate: what is accepted was signed with a key of the issuer that its
\* iss names, although that iss was read unverified, and is for that issuer's audience.
BoundToIssuer ==
    \A c \in Accepted :
        LET t == token[c] IN
        t.iss \in Issuers /\ t.key \in KeysOf(t.iss) /\ t.aud = Audience[t.iss]

\* Validator.Validate: once a refresh has dropped a retired key, no call that reads the
\* key set afterwards accepts it; only a call that was already parsing may.
DroppedKeyRefused == \A c \in Accepted : token[c].key \notin gone[c]

\* Validate's loop over Verifiers and claimsFromToken, which read the token separately:
\* what the verifiers of the token's issuer demand is in the claims the handlers get, so
\* that a policy on Claims decides as the verifier did; and the scopes in the claims are
\* those the issuer granted, in either form of the claim.
ClaimsMeetPolicy ==
    \A c \in Accepted :
        LET claims == claimsFromToken(token[c]) IN
        /\ Range(claims.Scopes) = GrantedScopes(token[c].private)
        /\ \A n \in DOMAIN VerifiersOf(c) :
             LET v == VerifiersOf(c)[n] IN
             /\ v.scopes \subseteq Range(claims.Scopes)
             /\ \A k \in DOMAIN v.required \ NotHandedOn : v.required[k] \in ClaimStrings(claims, k)

\* Some verifier of the issuer demands a scope that was not granted, or another claim.
LacksScope(c) ==
    \E n \in DOMAIN VerifiersOf(c) : ~(VerifiersOf(c)[n].scopes \subseteq GrantedScopes(token[c].private))
LacksClaim(c) ==
    \E n \in DOMAIN VerifiersOf(c) :
        \E k \in DOMAIN VerifiersOf(c)[n].required :
            VerifiersOf(c)[n].required[k] \notin GetString(token[c], k)

\* Validator.Validate's errors, on which clients act: re-authenticate on expired_token, ask
\* for more scopes on insufficient_scope.  Each of them is given only to a token that its
\* issuer signed, with a key not dropped before the call, and only for its reason: past exp
\* and the skew, without a scope that some verifier demands, in either form of the claim,
\* or without a claim that one demands.
RefusedForCause ==
    \A c \in Calls :
        LET t == token[c] IN
        /\ verdict[c] \in {"expired_token", "insufficient_scope", "forbidden"} =>
              t.iss \in Issuers /\ t.key \in KeysOf(t.iss) /\ t.key \notin gone[c]
        /\ verdict[c] = "expired_token" => t.exp # 0 /\ clock >= t.exp + ClockSkew
        /\ verdict[c] = "insufficient_scope" => t.aud = Audience[t.iss] /\ LacksScope(c)
        /\ verdict[c] = "forbidden" => t.aud = Audience[t.iss] /\ LacksClaim(c)
=============================================================================
