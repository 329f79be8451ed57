------------------------- MODULE IntrospectionProofs -------------------------
(***************************************************************************)
(* What an introspection validator accepts, for any number of calls and    *)
(* tokens, with and without a cache and for every leeway and skew.         *)
(***************************************************************************)
EXTENDS Introspection, ClaimsProofs

\* An entry holds what the server said of its token, which has an expiry and is for this
\* validator; there are none without a cache.
EntriesSound ==
    \A t \in DOMAIN cache :
        cached /\ Trusted(t) /\ t.body.exp > 0 /\ cache[t] = claimsFrom(t.body)

\* A token that was revoked before the call began is not reported active to it.
WaitingSound ==
    \A c \in Calls :
        /\ stage[c] # "wait" => answer[c] = "none"
        /\ stage[c] # "done" => verdict[c] = "none"
        /\ stage[c] = "wait" /\ dead[c] => bearer[c] \in revoked /\ answer[c] # "active"

IInv == TypeOK /\ EntriesSound /\ WaitingSound /\ RevocationTakesHold /\ AcceptedInTime

LEMMA InitIInv == Init => IInv
<1> SUFFICES ASSUME Init PROVE IInv
  OBVIOUS
<1>1. TypeOK
  BY IntrospectionAssumption DEF Init, TypeOK, Answers, Verdicts
<1>2. EntriesSound /\ WaitingSound
  BY DEF Init, EntriesSound, WaitingSound
<1>3. Accepted = {}
  BY DEF Init, Accepted
<1> QED
  BY <1>1, <1>2, <1>3 DEF IInv, RevocationTakesHold, AcceptedInTime

\* A call that returns without accepting keeps what was accepted.
LEMMA RefusalKeepsIInv ==
    ASSUME IInv, NEW c \in Calls, NEW v \in Verdicts \ {"none", "accepted"}, Return(c, v),
           stage[c] # "done", UNCHANGED <<cache, claims, dead>>
    PROVE  IInv'
<1> USE DEF IInv, Return
<1>1. TypeOK'
  BY DEF TypeOK, Answers
<1>2. EntriesSound'
  BY DEF EntriesSound, Trusted
<1>3. WaitingSound'
  BY DEF WaitingSound, TypeOK
<1>4. Accepted' = Accepted
  BY DEF Accepted, TypeOK, WaitingSound
<1>5. \A q \in Accepted : q # c /\ doneAt'[q] = doneAt[q]
  BY DEF Accepted, TypeOK, WaitingSound
<1>6. RevocationTakesHold'
  BY <1>4, <1>5 DEF RevocationTakesHold
<1>7. AcceptedInTime'
  BY <1>4, <1>5, SMTT(30) DEF AcceptedInTime
<1> QED
  BY <1>1, <1>2, <1>3, <1>6, <1>7

\* What makes an audience check succeed names the audience.
LEMMA TrustedNames ==
    ASSUME NEW t, Trusted(t)
    PROVE  /\ t.body.iss = Issuer
           /\ Audience \in {t.body.aud.s} \cup {t.body.aud.of[i].s : i \in DOMAIN t.body.aud.of}
BY DEF Trusted, audienceContains

\* A call that accepts: what it needs of its token, and of one revoked before it began.
LEMMA AcceptKeepsIInv ==
    ASSUME IInv, NEW c \in Calls, Return(c, "accepted"), stage[c] # "done",
           DOMAIN claims' = Calls,
           dead' \in [Calls -> BOOLEAN], \A q \in Calls : q # c => dead'[q] = dead[q],
           DOMAIN cache' \subseteq Tokens, EntriesSound',
           Trusted(bearer[c]),
           bearer[c].body.exp > 0 => clock <= bearer[c].body.exp + ClockSkew,
           dead'[c] => /\ cached /\ bearer[c].body.exp > 0
                       /\ clock < bearer[c].body.exp - Leeway
    PROVE  IInv'
<1> USE DEF IInv, Return
<1>1. TypeOK'
  BY Zenon DEF TypeOK, Answers, Verdicts
<1>2. WaitingSound'
  BY DEF WaitingSound, TypeOK
<1>3. /\ Accepted' = Accepted \cup {c} /\ c \notin Accepted
      /\ \A q \in Accepted : doneAt'[q] = doneAt[q] /\ dead'[q] = dead[q]
      /\ doneAt'[c] = clock
  BY DEF Accepted, TypeOK, WaitingSound
<1>4. RevocationTakesHold'
  BY <1>3 DEF RevocationTakesHold
<1>5. AcceptedInTime'
  <2> SUFFICES ASSUME NEW q \in Accepted'
               PROVE  LET body == bearer[q].body IN
                      /\ body.iss = Issuer
                      /\ Audience \in {body.aud.s} \cup {body.aud.of[i].s : i \in DOMAIN body.aud.of}
                      /\ body.exp > 0 => doneAt'[q] <= body.exp + ClockSkew
    BY Zenon DEF AcceptedInTime
  <2>1. CASE q \in Accepted
    BY <1>3, <2>1 DEF AcceptedInTime
  <2>2. CASE q = c
    BY <1>3, <2>2, TrustedNames, SMTT(30)
  <2> QED
    BY <1>3, <2>1, <2>2, Zenon
<1> QED
  BY <1>1, <1>2, <1>4, <1>5

LEMMA AnswerRecord ==
    ASSUME NEW s, NEW i, NEW a, NEW e, NEW sc, NEW co, NEW r
    PROVE  LET cs == [Subject |-> s, Issuer |-> i, Audience |-> a, ExpiresAt |-> e, Scopes |-> sc,
                      Confirmation |-> co, Raw |-> r]
           IN  cs.ExpiresAt = e /\ cs.Subject = s /\ cs.Confirmation = co /\ cs.Scopes = sc /\ cs.Raw = r
  OBVIOUS

\* The fields of the claims of an answer; they expire when it says the token does.
LEMMA AnswerFields ==
    ASSUME NEW body
    PROVE  /\ claimsFrom(body).ExpiresAt = body.exp
           /\ claimsFrom(body).Subject = body.sub /\ claimsFrom(body).Confirmation = body.jkt
           /\ claimsFrom(body).Scopes = Fields(body.scope)
           /\ claimsFrom(body).Raw =
                [k \in {n \in DOMAIN body.rest \ extractedKeys : body.rest[n].type \in {"string", "null"}}
                     |-> body.rest[k].s]
  BY AnswerRecord, Zenon DEF claimsFrom

\* Raw has no member that the server did not send.
LEMMA AnswerRaw ==
    ASSUME NEW body, NEW n \in DOMAIN claimsFrom(body).Raw
    PROVE  n \in DOMAIN body.rest /\ body.rest[n].s = claimsFrom(body).Raw[n]
<1> DEFINE kept == {m \in DOMAIN body.rest \ extractedKeys : body.rest[m].type \in {"string", "null"}}
           raw == [k \in kept |-> body.rest[k].s]
<1>1. claimsFrom(body).Raw = raw
  BY AnswerFields
<1>2. n \in kept /\ raw[n] = body.rest[n].s
  BY <1>1, Zenon
<1>3. n \in DOMAIN body.rest
  BY <1>2, Zenon
<1> QED
  BY <1>1, <1>2, <1>3, Zenon

LEMMA HitKeepsIInv ==
    ASSUME IInv, NEW c \in Calls, ValidateHit(c)
    PROVE  IInv'
<1> DEFINE t == bearer[c]
<1> USE DEF IInv, ValidateHit
<1>1. /\ stage[c] # "done" /\ cached /\ Trusted(t) /\ t.body.exp > 0 /\ t.body.exp \in Nat
      /\ cache[t] = claimsFrom(t.body) /\ clock < cache[t].ExpiresAt - Leeway
  BY IntrospectionAssumption DEF Hit, EntriesSound, Fresh, TypeOK
<1>2. clock < t.body.exp - Leeway /\ clock <= t.body.exp + ClockSkew
  <2>1. cache[t].ExpiresAt = t.body.exp
    BY <1>1, AnswerFields, Zenon
  <2> QED
    BY <1>1, <2>1, IntrospectionAssumption DEF TypeOK
<1>3. EntriesSound'
  BY DEF EntriesSound, Trusted, Return
<1>4. /\ dead' \in [Calls -> BOOLEAN] /\ DOMAIN claims' = Calls /\ DOMAIN cache' \subseteq Tokens
      /\ \A q \in Calls : q # c => dead'[q] = dead[q]
  BY DEF TypeOK, Begun
<1> QED
  BY <1>1, <1>2, <1>3, <1>4, AcceptKeepsIInv

LEMMA AcceptedKeepsIInv ==
    ASSUME IInv, NEW c \in Calls, ValidateAccepted(c)
    PROVE  IInv'
<1> DEFINE t == bearer[c]
<1> USE DEF IInv, ValidateAccepted
<1>1. answer[c] = "active" /\ stage[c] = "wait" /\ Trusted(t) /\ ~dead[c] /\ t \in Tokens
  BY DEF Active, WaitingSound, TypeOK
<1>2. t.body.exp \in Nat /\ (t.body.exp > 0 => clock <= t.body.exp + ClockSkew)
  BY <1>1, IntrospectionAssumption DEF Expired, TypeOK
<1>3. EntriesSound' /\ DOMAIN cache' \subseteq Tokens
  <2>1. CASE Cacheable(t)
    BY <1>1, <2>1 DEF EntriesSound, Trusted, Return, Cacheable, TypeOK
  <2>2. CASE ~Cacheable(t)
    BY <2>2 DEF EntriesSound, Trusted, Return, TypeOK
  <2> QED
    BY <2>1, <2>2
<1>4. /\ dead' = dead /\ DOMAIN claims' = Calls
      /\ dead' \in [Calls -> BOOLEAN]
  BY DEF TypeOK
<1> QED
  BY <1>1, <1>2, <1>3, <1>4, AcceptKeepsIInv

LEMMA MissKeepsIInv ==
    ASSUME IInv, NEW c \in Calls, ValidateMiss(c)
    PROVE  IInv'
<1> USE DEF IInv, ValidateMiss, Begun
<1>1. TypeOK'
  BY DEF TypeOK
<1>2. EntriesSound'
  BY DEF EntriesSound, Trusted
<1>3. WaitingSound'
  BY Zenon DEF WaitingSound, TypeOK
<1>4. Accepted' = Accepted /\ \A q \in Accepted : dead'[q] = dead[q]
  BY DEF Accepted, WaitingSound, TypeOK
<1>5. RevocationTakesHold'
  BY <1>4 DEF RevocationTakesHold
<1>6. AcceptedInTime'
  BY <1>4 DEF AcceptedInTime
<1> QED
  BY <1>1, <1>2, <1>3, <1>5, <1>6

\* Steps of the environment leave verdicts, entries and deadlines alone.
LEMMA EnvironmentKeepsIInv ==
    ASSUME IInv,
           \/ Tick
           \/ \E c \in Calls : Answer(c) \/ Revoke(bearer[c]) \/ CallerChanges(c)
           \/ UNCHANGED vars
    PROVE  IInv'
<1> USE DEF IInv
<1>1. /\ UNCHANGED <<cached, cache, bearer, stage, sentAt, verdict, dead, doneAt>>
      /\ revoked \subseteq revoked' /\ revoked' \subseteq Tokens
      /\ clock' \in Nat /\ DOMAIN claims' = Calls
  BY DEF Tick, Answer, Revoke, CallerChanges, vars, TypeOK
<1>2. answer' \in [Calls -> Answers]
  BY DEF Tick, Answer, Revoke, CallerChanges, vars, TypeOK, Answers
<1>3. TypeOK'
  BY <1>1, <1>2 DEF TypeOK
<1>4. EntriesSound'
  BY <1>1 DEF EntriesSound, Trusted
<1>5. WaitingSound'
  <2>1. CASE \E c \in Calls : Answer(c)
    BY <1>1, <2>1 DEF Answer, WaitingSound, TypeOK
  <2>2. CASE answer' = answer
    BY <1>1, <2>2 DEF WaitingSound
  <2> QED
    BY <2>1, <2>2 DEF Tick, Revoke, CallerChanges, vars
<1>6. RevocationTakesHold' /\ AcceptedInTime'
  BY <1>1, SMTT(30) DEF RevocationTakesHold, AcceptedInTime, Accepted
<1> QED
  BY <1>3, <1>4, <1>5, <1>6

LEMMA StepKeepsIInv == IInv /\ [Next]_vars => IInv'
<1> SUFFICES ASSUME IInv, [Next]_vars PROVE IInv'
  OBVIOUS
<1>1. ASSUME NEW c \in Calls,
             ValidateMissing(c) \/ ValidateUnavailable(c) \/ ValidateInvalid(c) \/ ValidateExpired(c)
      PROVE  IInv'
  <2>1. stage[c] # "done"
    BY <1>1 DEF ValidateMissing, ValidateUnavailable, ValidateInvalid, ValidateExpired, Active,
                IInv, WaitingSound, TypeOK
  <2>2. /\ \E v \in Verdicts \ {"none", "accepted"} : Return(c, v)
        /\ UNCHANGED <<cache, claims, dead>>
    BY <1>1 DEF ValidateMissing, ValidateUnavailable, ValidateInvalid, ValidateExpired, Verdicts
  <2> QED
    BY <2>1, <2>2, RefusalKeepsIInv
<1>2. ASSUME NEW c \in Calls, ValidateHit(c) \/ ValidateMiss(c) \/ ValidateAccepted(c)
      PROVE  IInv'
  BY <1>2, HitKeepsIInv, MissKeepsIInv, AcceptedKeepsIInv
<1>3. CASE \/ Tick \/ UNCHANGED vars
           \/ \E c \in Calls : Answer(c) \/ Revoke(bearer[c]) \/ CallerChanges(c)
  BY <1>3, EnvironmentKeepsIInv
<1> QED
  BY <1>1, <1>2, <1>3 DEF Next, Validate, Terminating

THEOREM Invariance == Spec => []IInv
  BY InitIInv, StepKeepsIInv, PTL DEF Spec

\* The state keeps the types Init gives it.
THEOREM TypesHold == Spec => []TypeOK
<1>1. IInv => TypeOK
  BY DEF IInv
<1> QED
  BY <1>1, Invariance, PTL

\* introspection.go:66-69: for any number of calls, a token revoked before a call began is
\* accepted only with a cache, and only while more than the leeway is left of it.
THEOREM RevocationHolds == Spec => []RevocationTakesHold
<1>1. IInv => RevocationTakesHold
  BY DEF IInv
<1> QED
  BY <1>1, Invariance, PTL

\* introspection.go:214-222: what is accepted, from the server or from the cache, names this
\* issuer and audience and is at most ClockSkew past its exp.
THEOREM InTimeHolds == Spec => []AcceptedInTime
<1>1. IInv => AcceptedInTime
  BY DEF IInv
<1> QED
  BY <1>1, Invariance, PTL

\* The call takes the claims from the server's answer, or from an entry that equals it.
IssuedClaims ==
    \A c \in Calls :
        verdict[c] = "none" /\ verdict'[c] = "accepted" => claims'[c] = claimsFrom(bearer[c].body)

LEMMA StepIssues == IInv /\ [Next]_vars => [IssuedClaims]_vars
<1> SUFFICES ASSUME IInv, Next PROVE IssuedClaims
  BY DEF vars, IInv, IssuedClaims
<1> SUFFICES ASSUME NEW c \in Calls, verdict[c] = "none", verdict'[c] = "accepted"
             PROVE  claims'[c] = claimsFrom(bearer[c].body)
  BY DEF IssuedClaims
<1> USE DEF IInv, TypeOK
<1>1. ASSUME NEW q \in Calls, Validate(q) PROVE claims'[c] = claimsFrom(bearer[c].body)
  <2>1. q = c
    BY <1>1 DEF Validate, ValidateMissing, ValidateUnavailable, ValidateInvalid, ValidateExpired,
                ValidateHit, ValidateMiss, ValidateAccepted, Return
  <2>2. CASE ValidateHit(c)
    BY <2>2 DEF ValidateHit, Hit, EntriesSound
  <2>3. CASE ValidateAccepted(c)
    BY <2>3 DEF ValidateAccepted
  <2>4. CASE ValidateMissing(c) \/ ValidateUnavailable(c) \/ ValidateInvalid(c) \/ ValidateExpired(c)
             \/ ValidateMiss(c)
    BY <2>4 DEF ValidateMissing, ValidateUnavailable, ValidateInvalid, ValidateExpired,
                ValidateMiss, Return
  <2> QED
    BY <1>1, <2>1, <2>2, <2>3, <2>4 DEF Validate
<1>2. CASE \/ Tick \/ Terminating
           \/ \E q \in Calls : Answer(q) \/ Revoke(bearer[q]) \/ CallerChanges(q)
  BY <1>2 DEF Tick, Terminating, Answer, Revoke, CallerChanges, vars
<1> QED
  BY <1>1, <1>2 DEF Next

\* introspection.go:347-377: Fields finds the words of a scope string, of any length.
LEMMA FieldsWords ==
    ASSUME NEW s, s \in Seq(Range(s))
    PROVE  Range(Fields(s)) = Words(s, {Space, Tab})
<1> DEFINE S == Range(s)
           n == [i \in 1 .. Len(s) |-> IF s[i] = Tab THEN Space ELSE s[i]]
           Bounds(t, seps) ==
               { q \in (DOMAIN t) \X (DOMAIN t) :
                    /\ q[1] <= q[2] /\ \A i \in q[1] .. q[2] : t[i] \notin seps
                    /\ q[1] > 1 => t[q[1] - 1] \in seps
                    /\ q[2] < Len(t) => t[q[2] + 1] \in seps }
<1>1. Len(s) \in Nat /\ DOMAIN s = 1 .. Len(s) /\ \A i \in 1 .. Len(s) : s[i] \in S
  OBVIOUS
<1> HIDE DEF S
<1>2. n \in Seq(S \cup {Space}) /\ Len(n) = Len(s) /\ DOMAIN n = 1 .. Len(s)
  BY <1>1
<1>3. \A i \in 1 .. Len(s) : n[i] \in {Space} <=> s[i] \in {Space, Tab}
  OBVIOUS
<1>4. \A i \in 1 .. Len(s) : n[i] \notin {Space} => n[i] = s[i]
  OBVIOUS
<1> HIDE DEF n
<1>5. Bounds(n, {Space}) = Bounds(s, {Space, Tab})
  <2>1. ASSUME NEW a \in 1 .. Len(s), NEW b \in 1 .. Len(s)
        PROVE  /\ (\A i \in a .. b : n[i] \notin {Space}) <=> (\A i \in a .. b : s[i] \notin {Space, Tab})
               /\ (a > 1 => n[a - 1] \in {Space}) <=> (a > 1 => s[a - 1] \in {Space, Tab})
               /\ (b < Len(s) => n[b + 1] \in {Space}) <=> (b < Len(s) => s[b + 1] \in {Space, Tab})
    BY <1>1, <1>3
  <2> QED
    BY <1>1, <1>2, <2>1, ZenonT(60)
<1>6. ASSUME NEW p \in Bounds(n, {Space}) PROVE SubSeq(n, p[1], p[2]) = SubSeq(s, p[1], p[2])
  <2> DEFINE a == p[1]
             b == p[2]
             T == S \cup {Space}
  <2>1. a \in 1 .. Len(s) /\ b \in 1 .. Len(s) /\ a <= b /\ \A i \in a .. b : n[i] \notin {Space}
    BY <1>1, <1>2, <1>6
  <2> HIDE DEF a, b, Bounds
  <2>2. \A i \in a .. b : n[i] = s[i] /\ s[i] \in T
    BY <1>1, <1>4, <2>1
  <2>3. /\ SubSeq(n, a, b) \in Seq(T) /\ Len(SubSeq(n, a, b)) = b - a + 1
        /\ \A i \in 1 .. b - a + 1 : SubSeq(n, a, b)[i] = n[a + i - 1]
    BY <1>1, <2>1, <2>2
  <2>4. /\ SubSeq(s, a, b) \in Seq(T) /\ Len(SubSeq(s, a, b)) = b - a + 1
        /\ \A i \in 1 .. b - a + 1 : SubSeq(s, a, b)[i] = s[a + i - 1]
    BY <1>1, <2>1, <2>2
  <2>5. \A i \in 1 .. b - a + 1 : n[a + i - 1] = s[a + i - 1]
    BY <1>1, <2>1, <2>2
  <2>6. SubSeq(n, a, b) = SubSeq(s, a, b)
    BY <2>3, <2>4, <2>5, SMTT(30)
  <2> QED
    BY <2>6 DEF a, b
<1>7. Words(n, {Space}) = Words(s, {Space, Tab})
  <2>1. Words(n, {Space}) = {SubSeq(n, p[1], p[2]) : p \in Bounds(n, {Space})}
    BY DEF Words
  <2>2. Words(s, {Space, Tab}) = {SubSeq(s, p[1], p[2]) : p \in Bounds(s, {Space, Tab})}
    BY DEF Words
  <2> HIDE DEF Bounds
  <2> QED
    BY <1>5, <1>6, <2>1, <2>2, Zenon
<1>8. Range(splitScopes(n)) = Words(n, {Space})
  BY <1>2, SplitScopesWords, Zenon
<1> QED
  BY <1>7, <1>8 DEF Fields, n

\* cache.go:15-18, 22-23, introspection.go:347-377: whatever callers do to the claims they
\* were given, and however many calls share an entry, a call that accepts returns what the
\* server says of its token.
THEOREM ClaimsAsIssuedHolds == Spec => ClaimsAsIssued
<1> DEFINE AsIssued(c) ==
               verdict[c] = "none" /\ verdict'[c] = "accepted" =>
               LET body == bearer[c].body IN
               /\ Range(claims'[c].Scopes) = Words(body.scope, {Space, Tab})
               /\ claims'[c].Subject = body.sub /\ claims'[c].Confirmation = body.jkt
               /\ \A n \in DOMAIN claims'[c].Raw :
                      n \in DOMAIN body.rest /\ body.rest[n].s = claims'[c].Raw[n]
<1>1. IInv /\ [Next]_vars => [\A c \in Calls : AsIssued(c)]_vars
  <2> SUFFICES ASSUME IInv, [IssuedClaims]_vars, NEW c \in Calls, ~UNCHANGED vars,
                      verdict[c] = "none", verdict'[c] = "accepted"
               PROVE  AsIssued(c)
    BY StepIssues, Zenon
  <2> DEFINE body == bearer[c].body
  <2>1. claims'[c] = claimsFrom(body) /\ bearer[c] \in Tokens
    BY DEF IssuedClaims, IInv, TypeOK
  <2>2. Range(Fields(body.scope)) = Words(body.scope, {Space, Tab})
    BY <2>1, IntrospectionAssumption, FieldsWords, Zenon
  <2>3. \A n \in DOMAIN claimsFrom(body).Raw :
            n \in DOMAIN body.rest /\ body.rest[n].s = claimsFrom(body).Raw[n]
    BY AnswerRaw
  <2> QED
    BY <2>1, <2>2, <2>3, AnswerFields, ZenonT(60)
<1> QED
  BY <1>1, Invariance, PTL DEF Spec, ClaimsAsIssued
=============================================================================
