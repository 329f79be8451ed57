---------------------------- MODULE Introspection ----------------------------
(***************************************************************************)
(* introspection.Validator.Validate with its optional MemoryCache, against *)
(* an authorization server that can revoke tokens.  The server answers at  *)
(* one moment and the validator acts on the answer at a later one, so a    *)
(* revocation, time and other calls fall in between.                       *)
(***************************************************************************)
EXTENDS Claims, Integers

CONSTANTS
    Calls,         \* Validate calls
    Tokens,        \* bearer tokens: [id, body], id 0 for the empty bearer; body is what the
                   \* server says of the token while it is active: iss, aud (a JSON value), exp (0
                   \* for none), sub, jkt, scope, and rest, the members without a field here
    Issuer,        \* Config.Issuer
    Audience,      \* Config.Audience
    CacheSet,      \* whether Config.Cache is set: the cases considered
    Leeway,        \* MemoryCache.leeway
    ClockSkew,     \* Config.ClockSkew
    HTTPTimeout,   \* http.Client.Timeout
    ClaimsChanged, \* whether callers change the claims they were given
    MaxTime        \* bound on the clock

ASSUME IntrospectionAssumption ==
    /\ CacheSet \subseteq BOOLEAN /\ ClaimsChanged \in BOOLEAN
    /\ Leeway \in Nat /\ ClockSkew \in Nat /\ HTTPTimeout \in Nat /\ MaxTime \in Nat
    /\ \A t \in Tokens : t.body.exp \in Nat /\ t.body.scope \in Seq(Range(t.body.scope))

VARIABLES
    cached,   \* whether this validator has a cache
    clock,    \* what now() returns
    revoked,  \* the tokens the server has revoked
    cache,    \* MemoryCache.items: the claims of each cached token
    bearer,   \* the token of a call
    stage,    \* "start", "wait" or "done"
    sentAt,   \* when the request in flight was sent
    answer,   \* the server's answer on its way back
    verdict,  \* what Validate returned
    claims,   \* the claims returned, which belong to the caller
    dead,     \* history: whether the token was revoked before the call began
    doneAt    \* history: when the call accepted the token

vars == <<cached, clock, revoked, cache, bearer, stage, sentAt, answer, verdict, claims, dead, doneAt>>

Answers  == {"none", "active", "inactive", "unavailable"}
Verdicts == {"none", "accepted", "missing_token", "invalid_token", "expired_token", "unavailable"}

\* audience.UnmarshalJSON: a string, an array of strings, or null; a null element of an
\* array is the empty string.
AudDecodes(v) ==
    \/ v.type \in {"string", "null"}
    \/ v.type = "array" /\ \A i \in DOMAIN v.of : v.of[i].type \in {"string", "null"}

audienceContains(v, want) ==
    \/ v.type = "string" /\ v.s = want
    \/ v.type = "array" /\ \E i \in DOMAIN v.of : v.of[i].s = want

\* strings.Fields, here of text that may hold tabs.
Tab       == "\t"
Fields(s) == splitScopes([i \in 1 .. Len(s) |-> IF s[i] = Tab THEN Space ELSE s[i]])

extractedKeys == {"nbf", "token_type", "client_id", "username", "jti", "error", "error_description"}

\* Raw takes the members that decode into a string, as a null does, into the empty one.
claimsFrom(body) ==
    [ Subject      |-> body.sub,
      Issuer       |-> body.iss,
      Audience     |-> body.aud,
      ExpiresAt    |-> body.exp,
      Scopes       |-> Fields(body.scope),
      Confirmation |-> body.jkt,
      Raw          |-> [k \in {n \in DOMAIN body.rest \ extractedKeys : body.rest[n].type \in {"string", "null"}}
                           |-> body.rest[k].s] ]

NoClaims == [Subject |-> <<>>]

Init ==
    /\ cached \in CacheSet
    /\ clock = 0
    /\ revoked = {}
    /\ cache = [t \in {} |-> NoClaims]
    /\ bearer \in [Calls -> Tokens]
    /\ stage = [c \in Calls |-> "start"]
    /\ sentAt = [c \in Calls |-> 0]
    /\ answer = [c \in Calls |-> "none"]
    /\ verdict = [c \in Calls |-> "none"]
    /\ claims = [c \in Calls |-> NoClaims]
    /\ dead = [c \in Calls |-> FALSE]
    /\ doneAt = [c \in Calls |-> 0]

Tick ==
    /\ clock < MaxTime
    /\ \A c \in Calls : stage[c] = "wait" => clock - sentAt[c] < HTTPTimeout
    /\ clock' = clock + 1
    /\ UNCHANGED <<cached, revoked, cache, bearer, stage, sentAt, answer, verdict, claims, dead, doneAt>>

\* The server revokes a token.
Revoke(t) ==
    /\ t.id # 0 /\ t \notin revoked
    /\ revoked' = revoked \cup {t}
    /\ UNCHANGED <<cached, clock, cache, bearer, stage, sentAt, answer, verdict, claims, dead, doneAt>>

\* The endpoint answers: a revoked token is inactive; one past its exp may still be
\* reported active; anything but a decodable 200 is unavailable.
Answer(c) ==
    /\ stage[c] = "wait" /\ answer[c] = "none"
    /\ \E a \in {IF bearer[c] \in revoked THEN "inactive" ELSE "active", "unavailable"} :
         answer' = [answer EXCEPT ![c] = a]
    /\ UNCHANGED <<cached, clock, revoked, cache, bearer, stage, sentAt, verdict, claims, dead, doneAt>>

-----------------------------------------------------------------------------
Return(c, v) ==
    /\ stage' = [stage EXCEPT ![c] = "done"]
    /\ verdict' = [verdict EXCEPT ![c] = v]
    /\ doneAt' = [doneAt EXCEPT ![c] = IF v = "accepted" THEN clock ELSE 0]
    /\ answer' = [answer EXCEPT ![c] = "none"]
    /\ sentAt' = [sentAt EXCEPT ![c] = 0]
    /\ UNCHANGED <<cached, clock, revoked, bearer>>

Begun(c) == dead' = [dead EXCEPT ![c] = bearer[c] \in revoked]

\* Faulty variant: the leeway is added to the expiry.
FreshLate(cs) == clock < cs.ExpiresAt + Leeway

\* MemoryCache.Get's freshness test.
Fresh(cs) == clock < cs.ExpiresAt - Leeway

Hit(t) == cached /\ t \in DOMAIN cache /\ Fresh(cache[t])

ValidateMissing(c) ==
    /\ stage[c] = "start" /\ bearer[c].id = 0
    /\ Return(c, "missing_token")
    /\ UNCHANGED <<cache, claims, dead>>

\* The cached claims are returned, as a copy.
ValidateHit(c) ==
    /\ stage[c] = "start" /\ bearer[c].id # 0
    /\ Hit(bearer[c])
    /\ Return(c, "accepted")
    /\ claims' = [claims EXCEPT ![c] = cache[bearer[c]]]
    /\ Begun(c)
    /\ UNCHANGED cache

\* A stale entry is dropped and the request goes out.
ValidateMiss(c) ==
    /\ stage[c] = "start" /\ bearer[c].id # 0
    /\ ~Hit(bearer[c])
    /\ stage' = [stage EXCEPT ![c] = "wait"]
    /\ sentAt' = [sentAt EXCEPT ![c] = clock]
    /\ cache' = [t \in DOMAIN cache \ {bearer[c]} |-> cache[t]]
    /\ Begun(c)
    /\ UNCHANGED <<cached, clock, revoked, bearer, answer, verdict, claims, doneAt>>

\* Transport error or timeout, or an answer that is not a decodable 200.
ValidateUnavailable(c) ==
    /\ stage[c] = "wait"
    /\ Return(c, "unavailable")
    /\ UNCHANGED <<cache, claims, dead>>

\* The body of an active answer.  One that does not decode is unavailable, above.
Active(c)  == answer[c] = "active" /\ AudDecodes(bearer[c].body.aud)
Trusted(t) == t.body.iss = Issuer /\ audienceContains(t.body.aud, Audience)

\* Inactive, or issuer or audience absent or not the expected one.
ValidateInvalid(c) ==
    /\ answer[c] = "inactive" \/ (Active(c) /\ ~Trusted(bearer[c]))
    /\ Return(c, "invalid_token")
    /\ UNCHANGED <<cache, claims, dead>>

\* Faulty variant: no defence-in-depth check of exp.
ExpiredNever(t) == FALSE

Expired(t) == t.body.exp > 0 /\ clock > t.body.exp + ClockSkew

ValidateExpired(c) ==
    /\ Active(c) /\ Trusted(bearer[c])
    /\ Expired(bearer[c])
    /\ Return(c, "expired_token")
    /\ UNCHANGED <<cache, claims, dead>>

\* Only claims with an expiry are cached.
Cacheable(t) == cached /\ t.body.exp > 0

\* Set stores a copy of the claims that are returned.
ValidateAccepted(c) ==
    /\ Active(c) /\ Trusted(bearer[c])
    /\ ~Expired(bearer[c])
    /\ Return(c, "accepted")
    /\ cache' = IF Cacheable(bearer[c])
                THEN [t \in DOMAIN cache \cup {bearer[c]} |->
                         IF t = bearer[c] THEN claimsFrom(bearer[c].body) ELSE cache[t]]
                ELSE cache
    /\ claims' = [claims EXCEPT ![c] = claimsFrom(bearer[c].body)]
    /\ UNCHANGED dead

\* A caller writes to the Raw map it was given.
Changed(cs) == [cs EXCEPT !.Raw = [k \in DOMAIN @ \cup {"tenant"} |-> <<"x">>]]

\* Faulty variant: the caller's Raw map is the cached one.
CallerChangesShared(c) ==
    /\ ClaimsChanged
    /\ verdict[c] = "accepted" /\ claims[c] # Changed(claims[c])
    /\ claims' = [claims EXCEPT ![c] = Changed(@)]
    /\ cache' = [t \in DOMAIN cache |-> IF t = bearer[c] THEN Changed(cache[t]) ELSE cache[t]]
    /\ UNCHANGED <<cached, clock, revoked, bearer, stage, sentAt, answer, verdict, dead, doneAt>>

\* copyClaims on both boundaries: a caller changes its own copy only.
CallerChanges(c) ==
    /\ ClaimsChanged
    /\ verdict[c] = "accepted" /\ claims[c] # Changed(claims[c])
    /\ claims' = [claims EXCEPT ![c] = Changed(@)]
    /\ UNCHANGED <<cached, clock, revoked, cache, bearer, stage, sentAt, answer, verdict, dead, doneAt>>

Validate(c) ==
    \/ ValidateMissing(c) \/ ValidateHit(c) \/ ValidateMiss(c) \/ ValidateUnavailable(c)
    \/ ValidateInvalid(c) \/ ValidateExpired(c) \/ ValidateAccepted(c)

Terminating == (\A c \in Calls : stage[c] = "done") /\ UNCHANGED vars

Next ==
    \/ Tick
    \/ \E c \in Calls : Validate(c) \/ Answer(c) \/ Revoke(bearer[c]) \/ CallerChanges(c)
    \/ Terminating

Spec == Init /\ [][Next]_vars

-----------------------------------------------------------------------------
TypeOK ==
    /\ cached \in CacheSet
    /\ clock \in Nat
    /\ revoked \subseteq Tokens
    /\ DOMAIN cache \subseteq Tokens
    /\ bearer \in [Calls -> Tokens]
    /\ stage \in [Calls -> {"start", "wait", "done"}]
    /\ sentAt \in [Calls -> Nat]
    /\ answer \in [Calls -> Answers]
    /\ verdict \in [Calls -> Verdicts]
    /\ DOMAIN claims = Calls
    /\ dead \in [Calls -> BOOLEAN]
    /\ doneAt \in [Calls -> Nat]

Accepted == {c \in Calls : verdict[c] = "accepted"}

\* introspection.go:66-69: without a cache a token revoked before the call began is never
\* accepted; with one it is accepted only while an entry for it is fresh, so only while
\* more than the leeway is left until its exp.
RevocationTakesHold ==
    \A c \in Accepted :
        dead[c] => /\ cached /\ bearer[c].body.exp > 0
                   /\ doneAt[c] < bearer[c].body.exp - Leeway

\* introspection.go:214-222: on whichever path, what is accepted is from this issuer, names
\* this audience in whole, alone or in a list, and is no more than ClockSkew past its exp.
AcceptedInTime ==
    \A c \in Accepted :
        LET body == bearer[c].body IN
        /\ body.iss = Issuer
        /\ Audience \in {body.aud.s} \cup {body.aud.of[i].s : i \in DOMAIN body.aud.of}
        /\ body.exp > 0 => doneAt[c] <= body.exp + ClockSkew

\* cache.go:15-18, 22-23, introspection.go:347-377: whatever earlier callers did to their
\* claims, and whether it was introspected or cached, a call that is accepted returns what
\* the server says of its token: each scope of the scope string, cut at white space, the
\* key it is bound to, and no member of its own in Raw that the server did not send.
ClaimsAsIssued ==
    [][\A c \in Calls :
           verdict[c] = "none" /\ verdict'[c] = "accepted" =>
               LET body == bearer[c].body IN
               /\ Range(claims'[c].Scopes) = Words(body.scope, {Space, Tab})
               /\ claims'[c].Subject = body.sub /\ claims'[c].Confirmation = body.jkt
               /\ \A n \in DOMAIN claims'[c].Raw :
                      n \in DOMAIN body.rest /\ body.rest[n].s = claims'[c].Raw[n]]_vars
=============================================================================
