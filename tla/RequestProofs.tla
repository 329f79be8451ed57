----------------------------- MODULE RequestProofs -----------------------------
(***************************************************************************)
(* Around a request: the exchange of its token for one of a downstream,    *)
(* and the HTTP middleware it came through, whose client may retry.        *)
(***************************************************************************)
EXTENDS Exchanger, HTTPMiddleware, TLAPS

(***************************************************************************)
(* Token exchange for any number of calls and requests: the joined cache   *)
(* key tells callers apart, a token from the cache is live and its own     *)
(* caller's, and each call leaves one audit event.                         *)
(***************************************************************************)
-----------------------------------------------------------------------------
\* The key.

Separated(s) == s \in Seq(Char) /\ \A i \in DOMAIN s : s[i] # "|"

Join(s, a) == s \o Sep \o a

\* What follows the last separator can be read off the joined text.
LEMMA LastPart ==
    ASSUME NEW s \in Seq(Char), NEW t \in Seq(Char), NEW a, NEW b,
           Separated(a), Separated(b), Join(s, a) = Join(t, b)
    PROVE  s = t /\ a = b
<1> DEFINE x == s \o Sep \o a
           y == t \o Sep \o b
<1>0. x = y
  BY DEF Join
<1> USE <1>0 DEF Separated, Sep
<1>1. /\ Len(x) = Len(s) + 1 + Len(a) /\ Len(y) = Len(t) + 1 + Len(b)
      /\ x[Len(s) + 1] = "|" /\ y[Len(t) + 1] = "|"
  OBVIOUS
<1>2. /\ \A i \in 1 .. Len(a) : x[Len(s) + 1 + i] = a[i]
      /\ \A i \in 1 .. Len(b) : y[Len(t) + 1 + i] = b[i]
  OBVIOUS
<1>3. /\ \A i \in 1 .. Len(s) : x[i] = s[i]
      /\ \A i \in 1 .. Len(t) : y[i] = t[i]
  OBVIOUS
<1>4. Len(s) = Len(t)
  <2>1. ~(Len(s) < Len(t))
    <3> SUFFICES ASSUME Len(s) < Len(t) PROVE FALSE
      OBVIOUS
    <3> DEFINE i == Len(t) - Len(s)
    <3>1. i \in 1 .. Len(a) /\ Len(s) + 1 + i = Len(t) + 1
      BY <1>1
    <3>2. a[i] = "|"
      BY <1>1, <1>2, <3>1, Zenon
    <3> QED
      BY <3>1, <3>2
  <2>2. ~(Len(t) < Len(s))
    <3> SUFFICES ASSUME Len(t) < Len(s) PROVE FALSE
      OBVIOUS
    <3> DEFINE i == Len(s) - Len(t)
    <3>1. i \in 1 .. Len(b) /\ Len(t) + 1 + i = Len(s) + 1
      BY <1>1
    <3>2. b[i] = "|"
      BY <1>1, <1>2, <3>1, SMTT(30)
    <3> QED
      BY <3>1, <3>2
  <2> QED
    BY <2>1, <2>2
<1>5. Len(a) = Len(b)
  BY <1>1, <1>4
<1>6. s = t
  <2>1. \A i \in 1 .. Len(s) : s[i] = t[i]
    BY <1>3, <1>4
  <2> QED
    BY <1>4, <2>1
<1>7. a = b
  <2>1. \A i \in 1 .. Len(a) : a[i] = b[i]
    BY <1>2, <1>4, <1>5, Zenon
  <2> QED
    BY <1>5, <2>1
<1> QED
  BY <1>6, <1>7

LEMMA Triples ==
    ASSUME NEW a, NEW b, NEW c, NEW x, NEW y, NEW z, <<a, b, c>> = <<x, y, z>>
    PROVE  a = x /\ b = y /\ c = z
  OBVIOUS

LEMMA SepIsText == Sep \in Seq(Char)
  BY DEF Sep, Char

\* Two requests that are alike in all that the key is meant to keep apart.
SameCaller(q, r) ==
    /\ q.kind = r.kind /\ q.Subject = r.Subject
    /\ q.Audience = r.Audience /\ sorted(q.Scope) = sorted(r.Scope)
    /\ r.kind = "exchange" => /\ q.SubjectTokenType = r.SubjectTokenType
                              /\ q.RequestedTokenType = r.RequestedTokenType

\* exchanger.go:251-254: requests with one key agree in subject, audience, scopes and, in
\* an exchange, token types, whatever separators the subjects hold.
THEOREM KeyTellsCallers ==
    ASSUME NEW q \in Requests, NEW r \in Requests, cacheKey(q) = cacheKey(r)
    PROVE  SameCaller(q, r)
<1> DEFINE typed(z, type) == IF z.kind = "provide" THEN <<>> ELSE type
           two(z)   == z.Subject \o Sep \o z.Audience
           three(z) == two(z) \o Sep \o typed(z, z.SubjectTokenType)
           four(z)  == three(z) \o Sep \o typed(z, z.RequestedTokenType)
<1>1. q.kind = r.kind /\ sorted(q.Scope) = sorted(r.Scope) /\ four(q) = four(r)
  <2> DEFINE S(z) == sorted(z.Scope)
  <2>1. <<q.kind, four(q), S(q)>> = <<r.kind, four(r), S(r)>>
    BY Zenon DEF cacheKey
  <2> HIDE DEF four, S
  <2>2. q.kind = r.kind /\ S(q) = S(r) /\ four(q) = four(r)
    BY <2>1, Triples, Zenon
  <2> QED
    BY <2>2 DEF S
<1>2. ASSUME NEW z \in Requests
      PROVE  /\ z.Subject \in Seq(Char) /\ Separated(z.Audience)
             /\ Separated(typed(z, z.SubjectTokenType)) /\ Separated(typed(z, z.RequestedTokenType))
             /\ two(z) \in Seq(Char) /\ three(z) \in Seq(Char)
  <2>1. z.Subject \in Seq(Char) /\ Separated(z.Audience)
    BY RequestsAssumption DEF Separated
  <2>2. Separated(typed(z, z.SubjectTokenType)) /\ Separated(typed(z, z.RequestedTokenType))
    <3>1. Separated(<<>>) /\ Separated(z.SubjectTokenType) /\ Separated(z.RequestedTokenType)
      BY RequestsAssumption DEF Separated
    <3> QED
      BY <3>1, Zenon
  <2> HIDE DEF typed
  <2> QED
    BY <2>1, <2>2, SepIsText DEF Separated
<1> HIDE DEF typed, two, three
<1>3. three(q) = three(r) /\ typed(q, q.RequestedTokenType) = typed(r, r.RequestedTokenType)
  <2> DEFINE a == typed(q, q.RequestedTokenType)
             b == typed(r, r.RequestedTokenType)
  <2>1. /\ three(q) \in Seq(Char) /\ three(r) \in Seq(Char) /\ Separated(a) /\ Separated(b)
        /\ Join(three(q), a) = Join(three(r), b)
    BY <1>1, <1>2 DEF Join
  <2> HIDE DEF a, b
  <2>2. three(q) = three(r) /\ a = b
    BY <2>1, LastPart
  <2> QED
    BY <2>2 DEF a, b
<1>4. two(q) = two(r) /\ typed(q, q.SubjectTokenType) = typed(r, r.SubjectTokenType)
  <2> DEFINE a == typed(q, q.SubjectTokenType)
             b == typed(r, r.SubjectTokenType)
  <2>1. /\ two(q) \in Seq(Char) /\ two(r) \in Seq(Char) /\ Separated(a) /\ Separated(b)
        /\ Join(two(q), a) = Join(two(r), b)
    BY <1>2, <1>3 DEF three, Join
  <2> HIDE DEF a, b
  <2>2. two(q) = two(r) /\ a = b
    BY <2>1, LastPart
  <2> QED
    BY <2>2 DEF a, b
<1>5. q.Subject = r.Subject /\ q.Audience = r.Audience
  <2>1. Join(q.Subject, q.Audience) = Join(r.Subject, r.Audience)
    BY <1>4 DEF two, Join
  <2> QED
    BY <1>2, <2>1, LastPart
<1> QED
  BY <1>1, <1>3, <1>4, <1>5 DEF SameCaller, typed

-----------------------------------------------------------------------------
\* The calls.

\* An entry was put under its own key by a call that is done, and outlives what its issuer
\* granted by no more than a POST can take.
EntriesSound ==
    \A k \in DOMAIN cache :
        LET tok == cache[k] IN
        /\ cacheKey(tok.for) = k /\ Cacheable(tok.for) /\ tok.for.SubjectToken # Nil
        /\ tok.ExpiresAt <= tok.issued + tok.life + HTTPTimeout
        /\ stage[tok.by] = "done"

\* What a call may be given at time at: its own token, or one from the cache.
Right(c, tok, at) ==
    IF tok.by = c THEN tok.for = req[c]
    ELSE /\ Cacheable(req[c]) /\ cacheKey(tok.for) = cacheKey(req[c])
         /\ Cacheable(tok.for) /\ tok.for.SubjectToken # Nil
         /\ at < tok.ExpiresAt - Leeway
         /\ tok.ExpiresAt <= tok.issued + tok.life + HTTPTimeout

ResultsSound ==
    \A c \in Calls :
        Served(c) => req[c].SubjectToken # Nil /\ Right(c, result[c], doneAt[c])

\* A POST is in flight no longer than its timeout, and its answer was sent meanwhile.
FlightSound ==
    \A c \in Calls :
        /\ stage[c] \in {"post", "wait"} => req[c].SubjectToken # Nil
        /\ stage[c] = "wait" => sentAt[c] <= clock /\ clock <= sentAt[c] + HTTPTimeout
        /\ answer[c] # <<>> => stage[c] = "wait"
        /\ answer[c] # <<>> /\ answer[c].kind = "issued" => sentAt[c] <= answer[c].issued
        /\ stage[c] # "done" => result[c] = <<>> /\ events[c] = <<>>

IInv == TypeOK /\ EntriesSound /\ ResultsSound /\ FlightSound /\ AuditedOnce

LEMMA InitIInv == Init => IInv
<1> SUFFICES ASSUME Init PROVE IInv
  OBVIOUS
<1>1. TypeOK
  BY DEF Init, TypeOK
<1>2. EntriesSound /\ ResultsSound /\ FlightSound /\ AuditedOnce
  BY DEF Init, EntriesSound, ResultsSound, FlightSound, AuditedOnce, Served
<1> QED
  BY <1>1, <1>2 DEF IInv

\* A call returns: with a token that is right for it and a granted event, or with none.
LEMMA FinishKeepsIInv ==
    ASSUME IInv, NEW c \in Calls, NEW tok \in Token \cup {<<>>}, NEW logged \in Seq(Outcomes),
           Finish(c, tok, logged), stage[c] # "done",
           DOMAIN cache' \subseteq Keys, cache' \in [DOMAIN cache' -> Token], EntriesSound',
           answer' \in [Calls -> [kind : {"issued"} \cup Refusals, issued : Nat, life : Nat] \cup {<<>>}],
           answer'[c] = <<>>, \A q \in Calls : q # c => answer'[q] = answer[q],
           tok # <<>> => req[c].SubjectToken # Nil /\ Right(c, tok, clock),
           req[c].SubjectToken # Nil =>
               Len(logged) = 1 /\ (logged[1] = "granted" <=> tok # <<>>)
    PROVE  IInv'
<1> USE DEF IInv, Finish
<1>1. TypeOK'
  <2>1. events[c] \o logged \in Seq(Outcomes)
    BY DEF TypeOK
  <2> QED
    BY <2>1, Zenon DEF TypeOK
<1>2. ResultsSound'
  <2> SUFFICES ASSUME NEW q \in Calls, Served(q)'
               PROVE  req[q].SubjectToken # Nil /\ Right(q, result'[q], doneAt'[q])
    BY DEF ResultsSound, Right
  <2>1. CASE q = c
    BY <2>1 DEF TypeOK, Served
  <2>2. CASE q # c
    BY <2>2 DEF TypeOK, Served, ResultsSound
  <2> QED
    BY <2>1, <2>2
<1>3. FlightSound'
  BY DEF TypeOK, FlightSound
<1>4. AuditedOnce'
  <2> SUFFICES ASSUME NEW q \in Calls, req[q].SubjectToken # Nil
               PROVE  IF stage'[q] = "done"
                      THEN Len(events'[q]) = 1 /\ (events'[q][1] = "granted" <=> result'[q] # <<>>)
                      ELSE events'[q] = <<>>
    BY DEF AuditedOnce
  <2>1. CASE q = c
    <3>1. events'[c] = logged /\ result'[c] = tok /\ stage'[c] = "done"
      <4>1. events[c] = <<>> /\ <<>> \o logged = logged
        BY DEF FlightSound
      <4> QED
        BY <4>1 DEF TypeOK
    <3> QED
      BY <2>1, <3>1
  <2>2. CASE q # c
    BY <2>2 DEF TypeOK, AuditedOnce
  <2> QED
    BY <2>1, <2>2
<1> QED
  BY <1>1, <1>2, <1>3, <1>4

\* A return that leaves the cache as it is needs no more than the right token and event.
LEMMA PlainFinishKeepsIInv ==
    ASSUME IInv, NEW c \in Calls, NEW tok \in Token \cup {<<>>}, NEW logged \in Seq(Outcomes),
           Finish(c, tok, logged), stage[c] # "done", UNCHANGED cache,
           (answer' = answer /\ answer[c] = <<>>) \/ answer' = [answer EXCEPT ![c] = <<>>],
           tok # <<>> => req[c].SubjectToken # Nil /\ Right(c, tok, clock),
           req[c].SubjectToken # Nil =>
               Len(logged) = 1 /\ (logged[1] = "granted" <=> tok # <<>>)
    PROVE  IInv'
<1>1. DOMAIN cache' \subseteq Keys /\ cache' \in [DOMAIN cache' -> Token]
  BY DEF IInv, TypeOK
<1>2. EntriesSound'
  <2>1. \A k \in DOMAIN cache : cache[k].by \in Calls
    BY DEF IInv, TypeOK, Token
  <2> QED
    BY <2>1 DEF IInv, EntriesSound, Finish, TypeOK
<1>3. /\ answer' \in [Calls -> [kind : {"issued"} \cup Refusals, issued : Nat, life : Nat] \cup {<<>>}]
      /\ answer'[c] = <<>> /\ \A q \in Calls : q # c => answer'[q] = answer[q]
  BY Zenon DEF IInv, TypeOK
<1> QED
  BY <1>1, <1>2, <1>3, FinishKeepsIInv, Zenon

LEMMA TokenIsSome ==
    ASSUME NEW tok \in Token
    PROVE  tok # <<>>
<1>1. DOMAIN tok = {"for", "by", "issued", "life", "ExpiresAt", "Scopes"}
  BY DEF Token
<1>2. DOMAIN <<>> = {}
  OBVIOUS
<1> QED
  BY <1>1, <1>2

LEMMA HitKeepsIInv ==
    ASSUME IInv, NEW c \in Calls, CacheHit(c)
    PROVE  IInv'
<1> DEFINE tok == cache[cacheKey(req[c])]
<1>1. /\ stage[c] # "done" /\ answer[c] = <<>> /\ req[c].SubjectToken # Nil
      /\ Finish(c, tok, <<"granted">>) /\ UNCHANGED <<cache, answer>>
  BY DEF CacheHit, IInv, FlightSound, TypeOK
<1>2. cacheKey(req[c]) \in DOMAIN cache /\ Cacheable(req[c]) /\ clock < tok.ExpiresAt - Leeway
  BY DEF CacheHit, Hit, Fresh
<1>3. tok \in Token /\ tok # <<>>
  BY <1>2, TokenIsSome DEF IInv, TypeOK
<1>4. Right(c, tok, clock)
  <2>1. tok.by # c
    BY <1>1, <1>2 DEF IInv, EntriesSound
  <2> QED
    BY <1>2, <2>1 DEF IInv, EntriesSound, Right
<1>5. <<"granted">> \in Seq(Outcomes) /\ Len(<<"granted">>) = 1 /\ <<"granted">>[1] = "granted"
  BY DEF Outcomes
<1> HIDE DEF tok
<1> QED
  BY <1>1, <1>3, <1>4, <1>5, PlainFinishKeepsIInv

LEMMA NoTokenKeepsIInv ==
    ASSUME IInv, NEW c \in Calls,
           NoSubjectToken(c) \/ Unavailable(c) \/ ReceiveRefusal(c)
    PROVE  IInv'
<1>1. \A o \in {"error", "denied"} :
          <<o>> \in Seq(Outcomes) /\ Len(<<o>>) = 1 /\ <<o>>[1] # "granted"
  BY DEF Outcomes
<1>2. CASE NoSubjectToken(c)
  <2>1. /\ stage[c] # "done" /\ answer[c] = <<>> /\ req[c].SubjectToken = Nil
        /\ Finish(c, <<>>, <<>>) /\ UNCHANGED <<cache, answer>> /\ <<>> \in Seq(Outcomes)
    BY <1>2 DEF NoSubjectToken, IInv, FlightSound, TypeOK
  <2> QED
    BY <2>1, PlainFinishKeepsIInv, Zenon
<1>3. CASE Unavailable(c)
  <2>1. /\ stage[c] # "done" /\ Finish(c, <<>>, <<"error">>) /\ UNCHANGED cache
        /\ answer' = [answer EXCEPT ![c] = <<>>]
    BY <1>3 DEF Unavailable
  <2> QED
    BY <1>1, <2>1, PlainFinishKeepsIInv, Zenon
<1>4. CASE ReceiveRefusal(c)
  <2>1. /\ stage[c] # "done" /\ UNCHANGED cache
        /\ answer' = [answer EXCEPT ![c] = <<>>]
        /\ Finish(c, <<>>, <<"error">>) \/ Finish(c, <<>>, <<"denied">>)
    BY <1>4 DEF ReceiveRefusal, Answered
  <2> QED
    BY <1>1, <2>1, PlainFinishKeepsIInv, Zenon
<1> QED
  BY <1>2, <1>3, <1>4

LEMMA ReceiveKeepsIInv ==
    ASSUME IInv, NEW c \in Calls, ReceiveToken(c)
    PROVE  IInv'
<1> DEFINE tok == issuedToken(c)
           key == cacheKey(req[c])
           put == Cacheable(req[c]) /\ tok.ExpiresAt # 0
<1>1. /\ stage[c] = "wait" /\ answer[c] # <<>> /\ answer[c].kind = "issued"
      /\ req[c].SubjectToken # Nil /\ req[c] \in Requests /\ clock \in Nat
      /\ answer[c] \in [kind : {"issued"} \cup Refusals, issued : Nat, life : Nat]
  BY DEF ReceiveToken, Answered, IInv, FlightSound, TypeOK
<1>2. /\ tok \in Token /\ tok # <<>> /\ tok.for = req[c] /\ tok.by = c
      /\ tok.issued = answer[c].issued /\ tok.life = answer[c].life
      /\ tok.ExpiresAt = Expiry(answer[c].life)
  <2>1. Expiry(answer[c].life) \in Nat
    BY <1>1 DEF Expiry
  <2> QED
    BY <1>1, <2>1 DEF issuedToken, Token
<1>3. tok.ExpiresAt <= tok.issued + tok.life + HTTPTimeout
  <2>1. sentAt[c] \in Nat /\ sentAt[c] <= answer[c].issued /\ clock <= sentAt[c] + HTTPTimeout
    BY <1>1, Zenon DEF IInv, FlightSound, TypeOK
  <2> QED
    BY <1>1, <1>2, <2>1, ExchangeAssumption DEF Expiry
<1>4. /\ Finish(c, tok, <<"granted">>) /\ answer' = [answer EXCEPT ![c] = <<>>]
      /\ cache' = IF put THEN Put(cache, key, tok) ELSE cache
  BY DEF ReceiveToken
<1>5. Right(c, tok, clock)
  BY <1>2 DEF Right
<1>6. <<"granted">> \in Seq(Outcomes) /\ Len(<<"granted">>) = 1 /\ <<"granted">>[1] = "granted"
  BY DEF Outcomes
<1>7. key \in Keys
  BY <1>1 DEF Keys
<1> HIDE DEF tok, key
<1>8. CASE put
  <2>1. DOMAIN cache' = DOMAIN cache \cup {key}
    BY <1>4, <1>8 DEF Put
  <2>2. \A k \in DOMAIN cache' : cache'[k] = IF k = key THEN tok ELSE cache[k]
    BY <1>4, <1>8 DEF Put
  <2>3. DOMAIN cache' \subseteq Keys /\ cache' \in [DOMAIN cache' -> Token]
    BY <1>2, <1>4, <1>7, <1>8, <2>1 DEF IInv, TypeOK, Put
  <2>4. EntriesSound'
    <3> SUFFICES ASSUME NEW k \in DOMAIN cache'
                 PROVE  /\ cacheKey(cache'[k].for) = k /\ Cacheable(cache'[k].for)
                        /\ cache'[k].for.SubjectToken # Nil
                        /\ cache'[k].ExpiresAt <= cache'[k].issued + cache'[k].life + HTTPTimeout
                        /\ stage'[cache'[k].by] = "done"
      BY DEF EntriesSound, Cacheable
    <3>1. CASE k = key
      BY <1>1, <1>2, <1>3, <1>4, <1>8, <2>2, <3>1 DEF key, Finish, IInv, TypeOK
    <3>2. CASE k # key
      <4>1. cache'[k] = cache[k] /\ k \in DOMAIN cache
        BY <2>1, <2>2, <3>2
      <4>2. cache[k].by \in Calls
        BY <4>1 DEF IInv, TypeOK, Token
      <4> QED
        BY <1>4, <4>1, <4>2 DEF IInv, EntriesSound, Finish, TypeOK
    <3> QED
      BY <3>1, <3>2
  <2>5. /\ answer' \in [Calls -> [kind : {"issued"} \cup Refusals, issued : Nat, life : Nat] \cup {<<>>}]
        /\ answer'[c] = <<>> /\ \A q \in Calls : q # c => answer'[q] = answer[q]
    BY <1>4 DEF IInv, TypeOK
  <2> QED
    BY <1>1, <1>2, <1>4, <1>5, <1>6, <2>3, <2>4, <2>5, FinishKeepsIInv, Zenon
<1>9. CASE ~put
  BY <1>1, <1>2, <1>4, <1>5, <1>6, <1>9, PlainFinishKeepsIInv, Zenon
<1> QED
  BY <1>8, <1>9

LEMMA MissKeepsIInv ==
    ASSUME IInv, NEW c \in Calls, CacheMiss(c)
    PROVE  IInv'
<1> USE DEF IInv, CacheMiss
<1>1. /\ DOMAIN cache' \subseteq DOMAIN cache
      /\ \A k \in DOMAIN cache' : cache'[k] = cache[k]
      /\ cache' \in [DOMAIN cache' -> Token]
  BY DEF Without, TypeOK
<1>2. TypeOK'
  BY <1>1 DEF TypeOK
<1>3. EntriesSound'
  <2>1. \A k \in DOMAIN cache : cache[k].by \in Calls /\ stage[cache[k].by] = "done"
    BY DEF TypeOK, Token, EntriesSound
  <2>2. \A k \in DOMAIN cache : stage'[cache[k].by] = "done"
    BY <2>1 DEF TypeOK
  <2> SUFFICES ASSUME NEW k \in DOMAIN cache'
               PROVE  LET tok == cache'[k] IN
                      /\ cacheKey(tok.for) = k /\ Cacheable(tok.for) /\ tok.for.SubjectToken # Nil
                      /\ tok.ExpiresAt <= tok.issued + tok.life + HTTPTimeout
                      /\ stage'[tok.by] = "done"
    BY Zenon DEF EntriesSound
  <2>3. k \in DOMAIN cache /\ cache'[k] = cache[k]
    BY <1>1
  <2> QED
    BY <2>2, <2>3, Zenon DEF EntriesSound
<1>4. ResultsSound'
  BY DEF ResultsSound, Served, Right, TypeOK
<1>5. FlightSound' /\ AuditedOnce'
  BY DEF FlightSound, AuditedOnce, TypeOK
<1> QED
  BY <1>2, <1>3, <1>4, <1>5

\* Steps between a call's start and its return that leave the cache alone.
LEMMA ProgressKeepsIInv ==
    ASSUME IInv, NEW c \in Calls,
           \/ Post(c) \/ ReceiveIDJAG(c) \/ ReceiveNonceDemand(c)
           \/ ASIssues(c) \/ ASRefuses(c)
    PROVE  IInv'
<1> USE DEF IInv
<1>1. /\ stage[c] \in {"post", "wait"} /\ stage' \in [Calls -> {"start", "post", "wait", "done"}]
      /\ stage'[c] \in {"post", "wait"} /\ \A q \in Calls : q # c => stage'[q] = stage[q]
      /\ UNCHANGED <<clock, cache, req, result, doneAt, events>>
  BY Zenon DEF Post, ReceiveIDJAG, ReceiveNonceDemand, ASIssues, ASRefuses, Answered, TypeOK
<1>2. TypeOK'
  <2>1. leg' \in [Calls -> {1, 2}]
    <3>1. CASE ReceiveIDJAG(c)
      <4>1. leg[c] + 1 = 2
        <5>1. leg[c] \in {1, 2} /\ leg[c] < Legs(req[c])
          BY <3>1 DEF ReceiveIDJAG, TypeOK
        <5>2. Legs(req[c]) \in {1, 2}
          BY Zenon DEF Legs
        <5> QED
          BY <5>1, <5>2
      <4> QED
        BY <3>1, <4>1 DEF ReceiveIDJAG, TypeOK
    <3> QED
      BY <3>1 DEF Post, ReceiveNonceDemand, ASIssues, ASRefuses, TypeOK
  <2>2. attempt' \in [Calls -> {0, 1}] /\ sentAt' \in [Calls -> Nat]
    <3>1. CASE Post(c)
      BY <3>1 DEF Post, TypeOK
    <3>2. CASE ASIssues(c) \/ ASRefuses(c)
      <4>1. attempt' = attempt /\ sentAt' = sentAt
        BY <3>2, Zenon DEF ASIssues, ASRefuses
      <4> QED
        BY <4>1 DEF TypeOK
    <3>3. CASE ReceiveIDJAG(c) \/ ReceiveNonceDemand(c)
      BY <3>3, Zenon DEF ReceiveIDJAG, ReceiveNonceDemand, TypeOK
    <3> QED
      BY <3>1, <3>2, <3>3
  <2>3. answer' \in [Calls -> [kind : {"issued"} \cup Refusals, issued : Nat, life : Nat] \cup {<<>>}]
    <3>1. CASE Post(c) \/ ReceiveIDJAG(c) \/ ReceiveNonceDemand(c)
      BY <3>1 DEF Post, ReceiveIDJAG, ReceiveNonceDemand, TypeOK
    <3>2. CASE ASIssues(c)
      <4>1. PICK life \in Lifetimes :
                answer' = [answer EXCEPT ![c] = [kind |-> "issued", issued |-> clock, life |-> life]]
        BY <3>2, Zenon DEF ASIssues
      <4> QED
        BY <4>1, ExchangeAssumption DEF TypeOK
    <3>3. CASE ASRefuses(c)
      <4>1. PICK kind \in Refusals :
                answer' = [answer EXCEPT ![c] = [kind |-> kind, issued |-> 0, life |-> 0]]
        BY <3>3, Zenon DEF ASRefuses
      <4> QED
        BY <4>1 DEF TypeOK
    <3> QED
      BY <3>1, <3>2, <3>3
  <2> QED
    BY <1>1, <2>1, <2>2, <2>3 DEF TypeOK
<1>3. EntriesSound'
  <2>1. \A k \in DOMAIN cache : cache[k].by \in Calls
    BY DEF TypeOK, Token
  <2> QED
    BY <1>1, <2>1 DEF EntriesSound, Cacheable
<1>4. ResultsSound'
  BY <1>1, Zenon DEF ResultsSound, Served, Right
<1>5. FlightSound'
  <2>1. CASE Post(c)
    BY <2>1, ExchangeAssumption, SMTT(30) DEF Post, FlightSound, TypeOK
  <2>2. CASE ReceiveIDJAG(c) \/ ReceiveNonceDemand(c)
    BY <2>2, SMTT(30) DEF ReceiveIDJAG, ReceiveNonceDemand, Answered, FlightSound, TypeOK
  <2>3. CASE ASIssues(c)
    BY <2>3, SMTT(30) DEF ASIssues, FlightSound, TypeOK
  <2>4. CASE ASRefuses(c)
    BY <2>4, SMTT(30) DEF ASRefuses, Refusals, FlightSound, TypeOK
  <2> QED
    BY <2>1, <2>2, <2>3, <2>4
<1>6. AuditedOnce'
  BY <1>1 DEF AuditedOnce
<1> QED
  BY <1>2, <1>3, <1>4, <1>5, <1>6

LEMMA TickKeepsIInv ==
    ASSUME IInv, Tick
    PROVE  IInv'
<1> USE DEF IInv, Tick
<1>1. TypeOK'
  BY DEF TypeOK
<1>2. EntriesSound' /\ ResultsSound' /\ AuditedOnce'
  BY SMTT(30) DEF EntriesSound, ResultsSound, AuditedOnce, Served, Right, Cacheable
<1>3. FlightSound'
  BY ExchangeAssumption DEF FlightSound, TypeOK
<1> QED
  BY <1>1, <1>2, <1>3

\* A caller's write reaches no part of a token but its scopes.
LEMMA CallerKeepsIInv ==
    ASSUME IInv, NEW c \in Calls, CallerChanges(c)
    PROVE  IInv'
<1> USE DEF IInv
<1>1. UNCHANGED <<clock, req, stage, leg, attempt, sentAt, answer, doneAt, events>>
  BY DEF CallerChanges
<1>2. ASSUME NEW tok \in Token
      PROVE  LET new == [tok EXCEPT !.Scopes = "changed"] IN
             /\ new \in Token /\ new.for = tok.for /\ new.by = tok.by /\ new.issued = tok.issued
             /\ new.life = tok.life /\ new.ExpiresAt = tok.ExpiresAt
  BY DEF Token
<1>3. /\ DOMAIN cache' = DOMAIN cache
      /\ \A k \in DOMAIN cache :
            cache'[k] = cache[k] \/ cache'[k] = [cache[k] EXCEPT !.Scopes = "changed"]
      /\ \A k \in DOMAIN cache : cache[k] \in Token
  BY DEF CallerChanges, TypeOK
<1>4. cache' = [k \in DOMAIN cache |-> cache'[k]]
  BY DEF CallerChanges
<1>5. cache' \in [DOMAIN cache' -> Token]
  <2>1. \A k \in DOMAIN cache : cache'[k] \in Token
    BY <1>2, <1>3
  <2> QED
    BY <1>3, <1>4, <2>1
<1>6. /\ result[c] # <<>> /\ result[c] \in Token
      /\ result' = [result EXCEPT ![c] = [result[c] EXCEPT !.Scopes = "changed"]]
  BY DEF CallerChanges, TypeOK
<1>7. result' \in [Calls -> Token \cup {<<>>}] /\ result'[c] \in Token
  BY <1>2, <1>6 DEF TypeOK
<1>8. TypeOK'
  BY <1>1, <1>3, <1>5, <1>7 DEF TypeOK
<1>9. EntriesSound'
  <2>1. \A k \in DOMAIN cache :
            /\ cache'[k].for = cache[k].for /\ cache'[k].by = cache[k].by
            /\ cache'[k].issued = cache[k].issued /\ cache'[k].life = cache[k].life
            /\ cache'[k].ExpiresAt = cache[k].ExpiresAt
    BY <1>2, <1>3, ZenonT(40)
  <2> QED
    BY <1>1, <1>3, <2>1 DEF EntriesSound, Cacheable
<1>10. ResultsSound'
  <2> SUFFICES ASSUME NEW q \in Calls, Served(q)'
               PROVE  req[q].SubjectToken # Nil /\ Right(q, result'[q], doneAt[q])
    BY <1>1 DEF ResultsSound, Right
  <2>1. Served(q) /\ result[q] # <<>>
    BY <1>1, <1>6 DEF Served, TypeOK
  <2>2. req[q].SubjectToken # Nil /\ Right(q, result[q], doneAt[q])
    BY <2>1 DEF ResultsSound
  <2>3. /\ result'[q].for = result[q].for /\ result'[q].by = result[q].by
        /\ result'[q].issued = result[q].issued /\ result'[q].life = result[q].life
        /\ result'[q].ExpiresAt = result[q].ExpiresAt
    BY <1>2, <1>6 DEF TypeOK
  <2> QED
    BY <2>2, <2>3 DEF Right
<1>11. FlightSound'
  BY <1>1, <1>6 DEF FlightSound, CallerChanges, TypeOK
<1>12. AuditedOnce'
  <2>1. \A q \in Calls : (result'[q] # <<>>) <=> (result[q] # <<>>)
    BY <1>6, <1>7, TokenIsSome, Zenon DEF TypeOK
  <2> QED
    BY <1>1, <2>1 DEF AuditedOnce
<1> QED
  BY <1>8, <1>9, <1>10, <1>11, <1>12

LEMMA StepKeepsIInv == IInv /\ [Next]_vars => IInv'
<1> SUFFICES ASSUME IInv, [Next]_vars PROVE IInv'
  OBVIOUS
<1>1. ASSUME NEW c \in Calls, Client(c) \/ Server(c) \/ CallerChanges(c) PROVE IInv'
  BY <1>1, HitKeepsIInv, NoTokenKeepsIInv, ReceiveKeepsIInv, MissKeepsIInv, ProgressKeepsIInv,
     CallerKeepsIInv DEF Client, Server
<1>2. CASE UNCHANGED vars
  BY <1>2, SMTT(30) DEF vars, IInv, TypeOK, EntriesSound, ResultsSound, FlightSound, AuditedOnce, Served,
              Right, Cacheable
<1> QED
  BY <1>1, <1>2, TickKeepsIInv DEF Next, Terminating

\* The inductive invariant holds in every reachable state.
THEOREM Invariance == Spec => []IInv
  BY InitIInv, StepKeepsIInv, PTL DEF Spec

\* The state keeps its types; a call makes at most two attempts at an endpoint and
\* visits at most two endpoints (exchanger.go:181-184).
THEOREM TypesHold == Spec => []TypeOK
<1>1. IInv => TypeOK
  BY DEF IInv
<1> QED
  BY <1>1, Invariance, PTL

\* cache.go:16-17, exchanger.go:58, 62: with a leeway no shorter than the HTTP timeout, no
\* call is ever served a cached token that has expired at its issuer.
THEOREM CachedTokenLiveHolds == Spec => []CachedTokenLive
<1>1. ASSUME IInv PROVE CachedTokenLive
  <2> SUFFICES ASSUME HTTPTimeout <= Leeway, NEW c \in Calls, FromCache(c)
               PROVE  doneAt[c] < result[c].issued + result[c].life
    BY SMTT(30) DEF CachedTokenLive
  <2>1. /\ doneAt[c] < result[c].ExpiresAt - Leeway
        /\ result[c].ExpiresAt <= result[c].issued + result[c].life + HTTPTimeout
    BY <1>1 DEF FromCache, IInv, ResultsSound, Right
  <2>2. result[c] \in Token /\ doneAt[c] \in Nat
    BY <1>1 DEF IInv, TypeOK, FromCache, Served
  <2>3. result[c].issued \in Nat /\ result[c].life \in Nat /\ result[c].ExpiresAt \in Nat
    BY <2>2 DEF Token
  <2> QED
    BY <2>1, <2>2, <2>3, ExchangeAssumption
<1> QED
  BY <1>1, Invariance, PTL

\* ARCHITECTURE.md:363-365, exchanger.go:251-254: no call is ever served a token that was
\* issued for another caller, audience, set of scopes or, in an exchange, token types.
THEOREM ServedOwnCallerHolds == Spec => []ServedOwnCaller
<1>1. ASSUME IInv PROVE ServedOwnCaller
  <2> SUFFICES ASSUME NEW c \in Calls, Served(c)
               PROVE  LET q == result[c].for
                          r == req[c]
                      IN  /\ q.kind = r.kind /\ q.SubjectToken.sub = r.SubjectToken.sub
                          /\ q.Audience = r.Audience /\ sorted(q.Scope) = sorted(r.Scope)
                          /\ r.kind = "exchange" => /\ q.SubjectTokenType = r.SubjectTokenType
                                                    /\ q.RequestedTokenType = r.RequestedTokenType
                          /\ r.Subject = <<>> => result[c].by = c
    BY DEF ServedOwnCaller
  <2> DEFINE q == result[c].for
             r == req[c]
  <2>1. r.SubjectToken # Nil /\ Right(c, result[c], doneAt[c])
    BY <1>1 DEF IInv, ResultsSound
  <2>2. q \in Requests /\ r \in Requests
    BY <1>1 DEF IInv, TypeOK, Token, Served
  <2>3. CASE result[c].by = c
    BY <2>1, <2>3 DEF Right
  <2>4. CASE result[c].by # c
    <3>1. Cacheable(r) /\ Cacheable(q) /\ cacheKey(q) = cacheKey(r) /\ q.SubjectToken # Nil
      BY <2>1, <2>4 DEF Right
    <3>2. SameCaller(q, r)
      BY <2>2, <3>1, KeyTellsCallers
    <3>3. q.Subject = q.SubjectToken.sub /\ r.Subject = r.SubjectToken.sub /\ r.Subject # <<>>
      BY <2>1, <2>2, <3>1, RequestsAssumption DEF Cacheable
    <3> QED
      BY <3>2, <3>3, Zenon DEF SameCaller
  <2> QED
    BY <2>3, <2>4, SMTT(30)
<1> QED
  BY <1>1, Invariance, PTL

\* exchanger.go:77-78: every call with a subject token that returns has recorded one event,
\* granted exactly when it returned a token.
THEOREM AuditedOnceHolds == Spec => []AuditedOnce
<1>1. IInv => AuditedOnce
  BY DEF IInv
<1> QED
  BY <1>1, Invariance, PTL

-----------------------------------------------------------------------------
(***************************************************************************)
(* The middleware.                                                         *)
(***************************************************************************)
\* Nonces, seen from the current second: none is of a later one.
Stamps == [issued : {i \in Int : i <= 0}, mac : BOOLEAN]

Strays == [nonce : Stamps, window : Int, recorded : BOOLEAN]

Schemes == {"", "Bearer", "DPoP"}

Parameters == {"", "invalid_token", "insufficient_scope", "invalid_dpop_proof", "use_dpop_nonce"}

Written == [status : Nat, scheme : Schemes, error : Parameters]

Replies == [status : Nat, scheme : Schemes, error : Parameters, nonce : Stamps, RetryAfter : Nat]

MiddlewareType ==
    /\ env \in Setting /\ now \in 0 .. TicksPerSecond - 1
    /\ held \in Stamps /\ nonce \in Stamps
    /\ client \in {"idle", "sent", "served"}
    /\ wait \in Nat /\ told \in BOOLEAN /\ block \in Nat
    /\ bearer \in {"valid"} \cup TokenErrors
    /\ window \in Int /\ recorded \in BOOLEAN /\ copies \in Nat
    /\ stray \in Strays \cup {<<>>}
    /\ resp \in Replies \cup {<<>>}
    /\ age \in Nat /\ challenges \in 0 .. 2
    /\ answered \in BOOLEAN /\ late \in {"no", "edge", "yes"}

\* writeAuthError: never a 200, and a nonce challenge for that error only.
LEMMA StatusIs ==
    ASSUME NEW code \in TokenErrors \cup {"use_dpop_nonce", "invalid_dpop_proof", "rate_limit_exceeded"},
           code # "unclassified"
    PROVE  HTTPStatus(code) \in {401, 403, 429, 503}
<1>1. CASE code \in {"missing_token", "invalid_token", "expired_token", "invalid_dpop_proof", "use_dpop_nonce"}
  <2>1. code \notin {"forbidden", "insufficient_scope"} /\ code # "rate_limit_exceeded" /\ code # "introspection_unavailable"
    BY <1>1
  <2>2. HTTPStatus(code) = 401
    BY <1>1, <2>1, Zenon DEF HTTPStatus
  <2> QED
    BY <2>2
<1>2. CASE code \in {"forbidden", "insufficient_scope"}
  <2>1. code \notin {"missing_token", "invalid_token", "expired_token", "invalid_dpop_proof", "use_dpop_nonce"}
        /\ code # "rate_limit_exceeded" /\ code # "introspection_unavailable"
    BY <1>2
  <2>2. HTTPStatus(code) = 403
    BY <1>2, <2>1, Zenon DEF HTTPStatus
  <2> QED
    BY <2>2
<1>3. CASE code = "rate_limit_exceeded"
  <2>1. code \notin {"missing_token", "invalid_token", "expired_token", "invalid_dpop_proof", "use_dpop_nonce"}
        /\ code \notin {"forbidden", "insufficient_scope"} /\ code # "introspection_unavailable"
    BY <1>3
  <2>2. HTTPStatus(code) = 429
    BY <1>3, <2>1, ZenonT(60) DEF HTTPStatus
  <2> QED
    BY <2>2
<1>4. CASE code = "introspection_unavailable"
  <2>1. code \notin {"missing_token", "invalid_token", "expired_token", "invalid_dpop_proof", "use_dpop_nonce"}
        /\ code \notin {"forbidden", "insufficient_scope"} /\ code # "rate_limit_exceeded"
    BY <1>4
  <2>2. HTTPStatus(code) = 503
    BY <1>4, <2>1, Zenon DEF HTTPStatus
  <2> QED
    BY <2>2
<1> QED
  BY <1>1, <1>2, <1>3, <1>4 DEF TokenErrors

LEMMA ChallengeIs ==
    ASSUME NEW code \in TokenErrors \cup {"use_dpop_nonce", "invalid_dpop_proof", "rate_limit_exceeded"}
    PROVE  /\ buildWWWAuthenticate(code)[1] \in Schemes /\ buildWWWAuthenticate(code)[2] \in Parameters
           /\ buildWWWAuthenticate(code)[2] = "use_dpop_nonce" <=> code = "use_dpop_nonce"
<1> DEFINE Invalid == {"invalid_token", "expired_token"}
           DPoP == {"invalid_dpop_proof", "use_dpop_nonce"}
           none == ""
<1>0. none \in Schemes /\ none \in Parameters /\ none # "use_dpop_nonce"
  BY Zenon DEF Schemes, Parameters
<1>5. /\ "Bearer" \in Schemes /\ "DPoP" \in Schemes
      /\ {"invalid_token", "insufficient_scope"} \cup DPoP \subseteq Parameters
  BY DEF Schemes, Parameters
<1>1. CASE code \in Invalid
  <2>1. code # "insufficient_scope" /\ code \notin DPoP /\ code # "use_dpop_nonce"
    BY <1>1
  <2>2. buildWWWAuthenticate(code) = <<"Bearer", "invalid_token">>
    BY <1>1, <2>1, Zenon DEF buildWWWAuthenticate
  <2> QED
    BY <1>5, <2>1, <2>2
<1>2. CASE code = "insufficient_scope"
  <2>1. code \notin Invalid /\ code \notin DPoP /\ code # "use_dpop_nonce"
    BY <1>2
  <2>2. buildWWWAuthenticate(code) = <<"Bearer", code>>
    BY <1>2, <2>1, Zenon DEF buildWWWAuthenticate
  <2> QED
    BY <1>2, <1>5, <2>1, <2>2
<1>3. CASE code \in DPoP
  <2>1. code \notin Invalid /\ code # "insufficient_scope"
    BY <1>3
  <2>2. buildWWWAuthenticate(code) = <<"DPoP", code>>
    BY <1>3, <2>1, Zenon DEF buildWWWAuthenticate
  <2> QED
    BY <1>3, <1>5, <2>1, <2>2
<1>4. CASE code \notin Invalid /\ code # "insufficient_scope" /\ code \notin DPoP
  <2>1. buildWWWAuthenticate(code) = <<"Bearer", none>>
    BY <1>4, Zenon DEF buildWWWAuthenticate
  <2>2. code # "use_dpop_nonce"
    BY <1>4
  <2> HIDE DEF none
  <2> QED
    BY <1>0, <1>5, <2>1, <2>2
<1> QED
  BY <1>1, <1>2, <1>3, <1>4

LEMMA WrittenIs ==
    ASSUME NEW code \in TokenErrors \cup {"use_dpop_nonce", "invalid_dpop_proof", "rate_limit_exceeded"}
    PROVE  /\ writeAuthError(code) \in Written /\ writeAuthError(code).status # 200
           /\ writeAuthError(code).error = "use_dpop_nonce" <=> code = "use_dpop_nonce"
<1> DEFINE none == ""
           w == writeAuthError(code)
<1>0. none \in Schemes /\ none \in Parameters /\ none # "use_dpop_nonce"
  BY Zenon DEF Schemes, Parameters
<1>1. CASE code = "unclassified"
  <2>1. w = [status |-> 500, scheme |-> none, error |-> none]
    BY <1>1, Zenon DEF writeAuthError
  <2>2. code # "use_dpop_nonce"
    BY <1>1
  <2> HIDE DEF none, w
  <2>3. w \in Written /\ w.status = 500 /\ w.error = none
    BY <1>0, <2>1 DEF Written
  <2>4. w.status # 200
    BY <2>3
  <2> QED
    BY <1>0, <2>2, <2>3, <2>4, Zenon DEF w
<1>2. CASE code # "unclassified"
  <2> DEFINE c == buildWWWAuthenticate(code)
             s == HTTPStatus(code)
  <2>1. w = [status |-> s, scheme |-> c[1], error |-> c[2]]
    BY <1>2, Zenon DEF writeAuthError
  <2>2. s \in {401, 403, 429, 503}
    BY <1>2, StatusIs
  <2>3. c[1] \in Schemes /\ c[2] \in Parameters /\ (c[2] = "use_dpop_nonce" <=> code = "use_dpop_nonce")
    BY ChallengeIs, Zenon
  <2> HIDE DEF none, w, c, s
  <2>4. w \in Written /\ w.status = s /\ w.error = c[2]
    BY <2>1, <2>2, <2>3 DEF Written
  <2>5. w.status # 200
    BY <2>2, <2>4
  <2> QED
    BY <2>3, <2>4, <2>5, Zenon DEF w
<1> QED
  BY <1>1, <1>2

LEMMA OKIs == OK \in Written /\ OK.status = 200 /\ OK.error # "use_dpop_nonce"
<1> DEFINE none == ""
<1>0. none \in Schemes /\ none \in Parameters /\ none # "use_dpop_nonce"
  BY Zenon DEF Schemes, Parameters
<1>1. OK = [status |-> 200, scheme |-> none, error |-> none]
  BY Zenon DEF OK
<1> HIDE DEF none
<1>2. OK \in Written /\ OK.status = 200 /\ OK.error = none
  BY <1>0, <1>1 DEF Written
<1> QED
  BY <1>0, <1>2, Zenon

\* An answer is dropped, or it is on its way back.
Replied(w, n, r) ==
    /\ client = "sent" /\ resp = <<>>
    /\ resp' \in Replies /\ resp' # <<>>
    /\ resp'.status = w.status /\ resp'.error = w.error /\ resp'.nonce = n /\ resp'.RetryAfter = r
    /\ age' = IF w.error = "use_dpop_nonce" THEN 0 ELSE age

LEMMA AnswerIs ==
    ASSUME NEW w \in Written, NEW n \in Stamps, NEW r \in Nat, Answer(w, n, r), copies \in Nat
    PROVE  /\ UNCHANGED <<env, now, held, client, wait, told, bearer, nonce, window, stray, challenges>> /\ answered' = TRUE
           /\ copies' \in Nat
           /\ UNCHANGED <<resp, age>> \/ Replied(w, n, r)
<1>1. UNCHANGED <<env, now, held, client, wait, told, bearer, nonce, window, stray, challenges>> /\ answered' = TRUE /\ copies' \in Nat
  BY DEF Answer
<1> DEFINE a == [ status |-> w.status, scheme |-> w.scheme, error |-> w.error, nonce |-> n, RetryAfter |-> r ]
<1>2. /\ a \in Replies /\ a.status = w.status /\ a.error = w.error /\ a.nonce = n /\ a.RetryAfter = r
  BY DEF Written, Replies
<1>3. a # <<>>
  <2>1. DOMAIN a = {"status", "scheme", "error", "nonce", "RetryAfter"}
    BY Zenon
  <2>2. DOMAIN <<>> = {}
    OBVIOUS
  <2> QED
    BY <2>1, <2>2
<1>4. CASE client = "sent" /\ resp = <<>>
  <2>1. resp' = a /\ age' = IF w.error = "use_dpop_nonce" /\ resp' # resp THEN 0 ELSE age
    BY <1>4, Zenon DEF Answer
  <2> HIDE DEF a
  <2> QED
    BY <1>1, <1>2, <1>3, <1>4, <2>1, Zenon DEF Replied
<1>5. CASE ~(client = "sent" /\ resp = <<>>)
  <2>1. resp' = resp
    BY <1>5, Zenon DEF Answer
  <2>2. age' = IF w.error = "use_dpop_nonce" /\ resp' # resp THEN 0 ELSE age
    BY Zenon DEF Answer
  <2> QED
    BY <1>1, <2>1, <2>2, Zenon
<1> QED
  BY <1>4, <1>5, Zenon

LEMMA NonceStamps ==
    ASSUME now \in 0 .. TicksPerSecond - 1
    PROVE  NoNonce \in Stamps /\ Issue(now) \in Stamps /\ IssueNonce \subseteq {NoNonce, Issue(now)}
<1>1. now \div TicksPerSecond = 0
  BY NonceAssumption
<1>2. Issue(now) = [issued |-> 0, mac |-> TRUE]
  BY <1>1, Zenon DEF Issue
<1>3. IssueNonce \subseteq {NoNonce, Issue(now)}
  BY Zenon DEF IssueNonce
<1> QED
  BY <1>2, <1>3 DEF NoNonce, Stamps

\* setRetryAfter rounds up.
LEMMA RetryAfterRounds ==
    ASSUME NEW d \in Nat
    PROVE  setRetryAfter(d) \in Nat /\ d <= setRetryAfter(d) * TicksPerSecond
<1> DEFINE T == TicksPerSecond
           m == d + T - 1
<1>1. T \in Nat \ {0} /\ m \in Nat
  BY NonceAssumption
<1>2. m \div T \in Nat /\ m < ((m \div T) + 1) * T
  <2> HIDE DEF m, T
  <2> QED
    BY <1>1
<1>3. d <= (m \div T) * T
  <2> DEFINE q == m \div T
             x == q * T
  <2>1. q \in Nat /\ x \in Nat /\ (q + 1) * T = x + T
    <3> HIDE DEF m
    <3>1. q \in Nat
      BY <1>2
    <3> HIDE DEF q, T
    <3> QED
      BY <1>1, <3>1
  <2>2. m < x + T
    BY <1>2, <2>1
  <2>3. d + T - 1 < x + T
    BY <2>2
  <2> HIDE DEF x, q
  <2>4. d <= x
    BY <1>1, <2>1, <2>3
  <2> QED
    BY <2>4 DEF x, q
<1> QED
  BY <1>2, <1>3 DEF setRetryAfter

\* A request no copy of which runs the handler again, but for the last instant of its window.
Settled(n, w, rec) == rec \/ w < 0 \/ ~Validate(n, now)

LEMMA EnforceIs ==
    ASSUME NEW n, NEW w \in Int, NEW rec \in BOOLEAN
    PROVE  /\ Enforce(n, w, rec) = "use_dpop_nonce" => ~Validate(n, now)
           /\ Enforce(n, w, rec) # "ok" => Settled(n, w, rec)
           /\ Enforce(n, w, rec) = "ok" /\ Settled(n, w, rec) => rec /\ w = 0
<1>1. CASE w < 0
  BY <1>1 DEF Enforce, Settled
<1>2. CASE ~(w < 0) /\ ~Validate(n, now)
  BY <1>2 DEF Enforce, Settled
<1>3. CASE ~(w < 0) /\ Validate(n, now)
  <2>1. Enforce(n, w, rec) = IF rec /\ w > 0 THEN "invalid_dpop_proof" ELSE "ok"
    BY <1>3, Zenon DEF Enforce
  <2>2. ~(w > 0) => w = 0
    BY <1>3
  <2>3. "invalid_dpop_proof" # "ok" /\ "invalid_dpop_proof" # "use_dpop_nonce" /\ "ok" # "use_dpop_nonce"
    OBVIOUS
  <2> QED
    BY <1>3, <2>1, <2>2, <2>3, Zenon DEF Settled
<1> QED
  BY <1>1, <1>2, <1>3

\* What a pass through the middleware does: it may record the proof, and if it runs the
\* handler the limiter may change.
Passes ==
    \/ recorded' \in {recorded, TRUE} /\ UNCHANGED <<block, late>>
    \/ /\ recorded' = TRUE /\ block' \in Nat /\ Enforce(nonce, window, recorded) = "ok" /\ bearer = "valid"
       /\ late' = Ran(window, recorded, answered)

\* What comes with an answer.
Justified(w, n, r) ==
    /\ w.status = 200 => r = 0 /\ w.error # "use_dpop_nonce"
    /\ r > 0 => block' = block /\ block <= r * TicksPerSecond
    /\ w.error = "use_dpop_nonce" => ~Validate(nonce, now) /\ n \in {NoNonce, Issue(now)}

PassIs ==
    /\ UNCHANGED <<env, now, held, client, wait, told, bearer, nonce, window, stray, challenges>> /\ answered' = TRUE
    /\ copies' \in Nat
    /\ Passes
    /\ bearer = "valid" => Settled(nonce, window, recorded')
    /\ \/ UNCHANGED <<resp, age>>
       \/ \E w \in Written, n \in Stamps, r \in Nat : Replied(w, n, r) /\ Justified(w, n, r)

LEMMA PassedBy ==
    ASSUME copies \in Nat, NEW w \in Written, NEW n \in Stamps, NEW r \in Nat, Answer(w, n, r), Passes, Justified(w, n, r),
           bearer = "valid" => Settled(nonce, window, recorded')
    PROVE  PassIs
<1>1. /\ UNCHANGED <<env, now, held, client, wait, told, bearer, nonce, window, stray, challenges>> /\ answered' = TRUE
      /\ copies' \in Nat
      /\ UNCHANGED <<resp, age>> \/ Replied(w, n, r)
  BY AnswerIs, Zenon
<1> QED
  BY <1>1, Zenon DEF PassIs

LEMMA HandlePasses ==
    ASSUME MiddlewareType, Handle
    PROVE  PassIs
<1>1. copies \in Nat /\ now \in 0 .. TicksPerSecond - 1 /\ bearer \in {"valid"} \cup TokenErrors /\ block \in Nat
      /\ window \in Int /\ recorded \in BOOLEAN
  BY Zenon DEF MiddlewareType
<1>2. NoNonce \in Stamps /\ Issue(now) \in Stamps /\ IssueNonce \subseteq {NoNonce, Issue(now)}
  BY <1>1, NonceStamps, Zenon
<1>3. 0 \in Nat /\ ~(0 > 0)
  OBVIOUS
<1> DEFINE verdict == Enforce(nonce, window, recorded)
<1>4. (verdict = "use_dpop_nonce" => ~Validate(nonce, now)) /\ (verdict # "ok" => Settled(nonce, window, recorded))
  BY <1>1, EnforceIs, Zenon
<1> HIDE DEF verdict
<1>5. ASSUME NEW code \in TokenErrors \cup {"use_dpop_nonce", "invalid_dpop_proof", "rate_limit_exceeded"},
             NEW n \in Stamps, Answer(writeAuthError(code), n, 0), UNCHANGED <<block, recorded, late>>,
             bearer = "valid" => verdict # "ok",
             code = "use_dpop_nonce" => ~Validate(nonce, now) /\ n \in {NoNonce, Issue(now)}
      PROVE  PassIs
  <2>1. /\ writeAuthError(code) \in Written /\ writeAuthError(code).status # 200
        /\ writeAuthError(code).error = "use_dpop_nonce" <=> code = "use_dpop_nonce"
    BY WrittenIs, Zenon
  <2>2. Passes /\ Justified(writeAuthError(code), n, 0)
    BY <1>3, <1>5, <2>1, Zenon DEF Passes, Justified
  <2>3. bearer = "valid" => Settled(nonce, window, recorded')
    BY <1>4, <1>5, Zenon
  <2> QED
    BY <1>1, <1>3, <1>5, <2>1, <2>2, <2>3, PassedBy, Zenon
<1>6. "use_dpop_nonce" # "ok" /\ "invalid_dpop_proof" # "ok" /\ "missing_token" # "valid"
  OBVIOUS
<1>7. CASE HandleMissing
  <2>1. "missing_token" \in TokenErrors /\ "missing_token" # "use_dpop_nonce"
    BY DEF TokenErrors
  <2> QED
    BY <1>2, <1>5, <1>6, <1>7, <2>1, Zenon DEF HandleMissing
<1>8. CASE HandleInvalid
  <2>1. bearer \in TokenErrors /\ bearer # "use_dpop_nonce" /\ bearer # "valid"
    BY <1>1, <1>8 DEF TokenErrors, HandleInvalid
  <2> QED
    BY <1>2, <1>5, <1>8, <2>1, Zenon DEF HandleInvalid
<1>9. CASE HandleNonce
  <2>1. PICK n \in IssueNonce : Answer(writeAuthError("use_dpop_nonce"), n, 0)
    BY <1>9, Zenon DEF HandleNonce
  <2>2. n \in Stamps /\ n \in {NoNonce, Issue(now)} /\ "use_dpop_nonce" \in {"use_dpop_nonce", "invalid_dpop_proof", "rate_limit_exceeded"}
    BY <1>2, <2>1, Zenon
  <2>3. verdict = "use_dpop_nonce" /\ UNCHANGED <<block, recorded, late>>
    BY <1>9, Zenon DEF HandleNonce, verdict
  <2> QED
    BY <1>4, <1>5, <1>6, <2>1, <2>2, <2>3, Zenon
<1>10. CASE HandleRefused
  <2>1. "invalid_dpop_proof" # "use_dpop_nonce" /\ "invalid_dpop_proof" \in {"use_dpop_nonce", "invalid_dpop_proof", "rate_limit_exceeded"}
    OBVIOUS
  <2>2. verdict = "invalid_dpop_proof" /\ UNCHANGED <<block, recorded, late>> /\ Answer(writeAuthError("invalid_dpop_proof"), NoNonce, 0)
    BY <1>10, Zenon DEF HandleRefused, verdict
  <2> QED
    BY <1>2, <1>5, <1>6, <2>1, <2>2, Zenon
<1>11. CASE HandleLimited
  <2> DEFINE w == writeAuthError("rate_limit_exceeded")
             r == setRetryAfter(block)
  <2>1. "rate_limit_exceeded" # "use_dpop_nonce" /\ "rate_limit_exceeded" \in {"use_dpop_nonce", "invalid_dpop_proof", "rate_limit_exceeded"}
    OBVIOUS
  <2>2. w \in Written /\ w.status # 200 /\ (w.error = "use_dpop_nonce" <=> "rate_limit_exceeded" = "use_dpop_nonce")
    BY <2>1, WrittenIs, Zenon
  <2>3. r \in Nat /\ block <= r * TicksPerSecond
    BY <1>1, RetryAfterRounds
  <2>4. Answer(w, NoNonce, r) /\ recorded' = TRUE /\ UNCHANGED <<block, late>>
    BY <1>11, Zenon DEF HandleLimited
  <2> HIDE DEF w, r
  <2>5. Passes /\ Justified(w, NoNonce, r) /\ Settled(nonce, window, recorded')
    BY <2>1, <2>2, <2>3, <2>4, Zenon DEF Passes, Justified, Settled
  <2> QED
    BY <1>1, <1>2, <2>2, <2>3, <2>4, <2>5, PassedBy, Zenon
<1>12. CASE HandleServe
  <2>1. PICK n \in IssueNonce : Answer(OK, n, 0)
    BY <1>12, Zenon DEF HandleServe
  <2>2. n \in Stamps
    BY <1>2, <2>1, Zenon
  <2>3. /\ recorded' = TRUE /\ Allow /\ bearer = "valid" /\ Enforce(nonce, window, recorded) = "ok"
        /\ late' = Ran(window, recorded, answered)
    BY <1>12, Zenon DEF HandleServe
  <2>4. block' \in Nat
    <3>1. block' \in 0 .. MaxBlock \/ block' \in {0}
      BY <2>3, Zenon DEF Allow
    <3> QED
      BY <3>1, MiddlewareAssumption
  <2>5. Passes /\ Justified(OK, n, 0) /\ Settled(nonce, window, recorded')
    BY <1>3, <2>3, <2>4, OKIs, Zenon DEF Passes, Justified, Settled
  <2>6. OK \in Written /\ 0 \in Nat /\ copies \in Nat
    BY <1>1, OKIs
  <2> QED
    BY <2>1, <2>2, <2>5, <2>6, PassedBy, Zenon
<1> QED
  BY <1>7, <1>8, <1>9, <1>10, <1>11, <1>12 DEF Handle

-----------------------------------------------------------------------------
\* What the server has answered is settled, and so is a request the client has moved on from;
\* Retry-After covers the limiter's wait while nothing has run the handler out of turn.
FinalInv ==
    /\ MiddlewareType
    /\ client # "sent" => resp = <<>>
    /\ resp # <<>> => answered
    /\ client # "sent" /\ copies > 0 => answered
    /\ answered /\ bearer = "valid" => Settled(nonce, window, recorded)
    /\ stray # <<>> => Settled(stray.nonce, stray.window, stray.recorded)
    /\ late # "yes"
    /\ resp # <<>> /\ resp.status = 200 => resp.RetryAfter = 0
    /\ resp # <<>> /\ resp.RetryAfter > 0 /\ late = "no" => block <= resp.RetryAfter * TicksPerSecond
    /\ told => client = "idle" /\ answered
    /\ told /\ late = "no" => block <= wait

LEMMA AgedStamps == ASSUME NEW n \in Stamps, NEW t PROVE Aged(n, t) \in Stamps
BY DEF Stamps, Earlier, Aged

\* The clock's tick, and the second that ends with it.
LEMMA SecondEnds ==
    ASSUME NEW t \in 0 .. TicksPerSecond - 1
    PROVE  \/ t + 1 < TicksPerSecond /\ (t + 1) % TicksPerSecond = t + 1
           \/ t + 1 = TicksPerSecond /\ (t + 1) % TicksPerSecond = 0
BY NonceAssumption

\* A nonce that is not valid does not become valid: it is never of a later second.
LEMMA StaleStays ==
    ASSUME NEW n \in Stamps, NEW t \in 0 .. TicksPerSecond - 1, ~Validate(n, t)
    PROVE  ~Validate(Aged(n, (t + 1) % TicksPerSecond), (t + 1) % TicksPerSecond)
<1> DEFINE T == TicksPerSecond
           i == n.issued
           q == NonceLifetime \div T
           b == Aged(n, (t + 1) % T)
<1>1. i \in Int /\ i <= 0 /\ n.mac \in BOOLEAN /\ T \in Nat \ {0} /\ NonceLifetime \in Nat /\ NonceFutureTL \in Nat
  BY NonceAssumption DEF Stamps
<1>2. q \in Nat /\ NonceLifetime < (q + 1) * T
  <2> HIDE DEF T
  <2> QED
    BY <1>1
<1>3. CASE ~n.mac
  <2>1. b = n
    BY <1>3, Zenon DEF Aged, Earlier
  <2> QED
    BY <1>3, <2>1, Zenon DEF Validate
<1>4. CASE n.mac
  <2> DEFINE x == i * T
  <2>1. x \in Int /\ x <= 0
    <3> HIDE DEF i, T
    <3> QED
      BY <1>1
  <2>2. t - x > NonceLifetime
    <3>1. ~(t - x <= NonceLifetime /\ x <= t + NonceFutureTL)
      BY <1>4, Zenon DEF Validate
    <3> HIDE DEF x
    <3> QED
      BY <1>1, <2>1, <3>1
  <2>3. CASE t + 1 < T /\ (t + 1) % T = t + 1
    <3>1. t + 1 # 0
      OBVIOUS
    <3>2. b = n
      BY <2>3, <3>1, Zenon DEF Aged
    <3>3. ~((t + 1) - x <= NonceLifetime)
      <4> HIDE DEF x
      <4> QED
        BY <1>1, <2>1, <2>2
    <3> QED
      BY <2>3, <3>2, <3>3, Zenon DEF Validate
  <2>4. CASE t + 1 = T /\ (t + 1) % T = 0
    <3>1. b = Earlier(n)
      BY <2>4, Zenon DEF Aged
    <3>2. CASE i > Oldest
      <4>1. b = [n EXCEPT !.issued = @ - 1]
        BY <1>4, <3>1, <3>2, Zenon DEF Earlier
      <4>2. b.issued = i - 1
        BY <4>1 DEF Stamps
      <4>3. b.issued * T = x - T
        BY <1>1, <4>2
      <4> HIDE DEF x
      <4>4. ~(0 - (x - T) <= NonceLifetime)
        BY <1>1, <2>1, <2>2, <2>4
      <4> QED
        BY <2>4, <4>3, <4>4, Zenon DEF Validate
    <3>3. CASE ~(i > Oldest)
      <4>1. b = n
        BY <3>1, <3>3, Zenon DEF Earlier
      <4>2. i <= -(q + 2)
        <5>1. ~(i > -(q + 2))
          BY <3>3, Zenon DEF Oldest
        <5> HIDE DEF i, q
        <5> QED
          BY <1>1, <1>2, <5>1
      <4> DEFINE k == -i
                 y == k * T
                 z == (q + 1) * T
      <4> HIDE DEF i, q, T
      <4>3. k \in Nat /\ k >= q + 1 /\ y = -(i * T)
        BY <1>1, <1>2, <4>2
      <4>4. y \in Int /\ z \in Int /\ y >= z
        <5> HIDE DEF k
        <5> QED
          BY <1>1, <1>2, <4>3
      <4>5. y = -x /\ NonceLifetime < z
        BY <1>2, <4>3
      <4> HIDE DEF x, y, z
      <4>6. ~(0 - x <= NonceLifetime)
        BY <1>1, <2>1, <4>4, <4>5
      <4> QED
        BY <2>4, <4>1, <4>6, Zenon DEF Validate, x, i, T
    <3> QED
      BY <3>2, <3>3
  <2> QED
    BY <2>3, <2>4, SecondEnds
<1> QED
  BY <1>1, <1>3, <1>4

LEMMA NotEmpty == <<>> \notin Replies /\ <<>> \notin Strays
<1>1. DOMAIN <<>> = {}
  OBVIOUS
<1>2. <<>> \notin Replies
  BY <1>1, SMTT(30) DEF Replies
<1>3. <<>> \notin Strays
  BY <1>1, SMTT(30) DEF Strays
<1> QED
  BY <1>2, <1>3

LEMMA ElapseType ==
    ASSUME MiddlewareType, Elapse
    PROVE  /\ MiddlewareType'
           /\ (resp' = <<>>) <=> (resp = <<>>)
           /\ resp # <<>> => /\ resp'.status = resp.status /\ resp'.RetryAfter = resp.RetryAfter
                             /\ resp'.error = resp.error /\ resp'.nonce = Aged(resp.nonce, now')
           /\ (stray' = <<>>) <=> (stray = <<>>)
           /\ stray # <<>> => /\ stray'.nonce = Aged(stray.nonce, now') /\ stray'.window = Closer(stray.window)
                              /\ stray'.recorded = stray.recorded
<1>1. now' \in 0 .. TicksPerSecond - 1
  BY NonceAssumption DEF Elapse, MiddlewareType
<1>2. age' \in Nat /\ wait' \in Nat /\ block' \in Nat /\ window' \in Int
  BY DEF Elapse, Less, Closer, MiddlewareType
<1>3. held' \in Stamps /\ nonce' \in Stamps
  BY AgedStamps, Zenon DEF Elapse, MiddlewareType
<1>4. /\ resp' \in Replies \cup {<<>>}
      /\ (resp' = <<>>) <=> (resp = <<>>)
      /\ resp # <<>> => /\ resp'.status = resp.status /\ resp'.RetryAfter = resp.RetryAfter
                        /\ resp'.error = resp.error /\ resp'.nonce = Aged(resp.nonce, now')
  <2>1. CASE resp = <<>>
    <3>1. resp' = resp
      BY <2>1, Zenon DEF Elapse
    <3> QED
      BY <2>1, <3>1, Zenon DEF MiddlewareType
  <2>2. CASE resp # <<>>
    <3> DEFINE b == Aged(resp.nonce, now')
    <3>1. resp \in Replies /\ resp' = [resp EXCEPT !.nonce = b]
      BY <2>2, Zenon DEF Elapse, MiddlewareType
    <3>2. b \in Stamps
      <4>1. resp.nonce \in Stamps
        BY <3>1 DEF Replies
      <4> QED
        BY <4>1, AgedStamps, Zenon
    <3> HIDE DEF b
    <3>3. /\ resp' \in Replies /\ resp'.status = resp.status /\ resp'.RetryAfter = resp.RetryAfter
          /\ resp'.error = resp.error /\ resp'.nonce = b
      BY <3>1, <3>2 DEF Replies
    <3> QED
      BY <2>2, <3>3, NotEmpty, Zenon DEF b
  <2> QED
    BY <2>1, <2>2
<1>5. /\ stray' \in Strays \cup {<<>>}
      /\ (stray' = <<>>) <=> (stray = <<>>)
      /\ stray # <<>> => /\ stray'.nonce = Aged(stray.nonce, now') /\ stray'.window = Closer(stray.window)
                         /\ stray'.recorded = stray.recorded
  <2>1. CASE stray = <<>>
    <3>1. stray' = stray
      BY <2>1, Zenon DEF Elapse
    <3> QED
      BY <2>1, <3>1, Zenon DEF MiddlewareType
  <2>2. CASE stray # <<>>
    <3> DEFINE b == Aged(stray.nonce, now')
               c == Closer(stray.window)
    <3>1. stray \in Strays /\ stray' = [stray EXCEPT !.nonce = b, !.window = c]
      BY <2>2, Zenon DEF Elapse, MiddlewareType
    <3>2. b \in Stamps /\ c \in Int
      <4>1. stray.nonce \in Stamps /\ stray.window \in Int
        BY <3>1 DEF Strays
      <4>2. c \in Int
        BY <4>1 DEF Closer
      <4> QED
        BY <4>1, <4>2, AgedStamps, Zenon
    <3> HIDE DEF b, c
    <3>3. stray' \in Strays /\ stray'.nonce = b /\ stray'.window = c /\ stray'.recorded = stray.recorded
      BY <3>1, <3>2, Zenon DEF Strays
    <3> QED
      BY <2>2, <3>3, NotEmpty, Zenon DEF b, c
  <2> QED
    BY <2>1, <2>2
<1>6. UNCHANGED <<env, client, told, bearer, recorded, copies, challenges, answered, late>>
  BY DEF Elapse
<1> QED
  BY <1>1, <1>2, <1>3, <1>4, <1>5, <1>6, Zenon DEF MiddlewareType

\* Time does not unsettle a request.
LEMMA SettledStays ==
    ASSUME NEW n \in Stamps, NEW w \in Int, NEW rec \in BOOLEAN, NEW t \in 0 .. TicksPerSecond - 1,
           rec \/ w < 0 \/ ~Validate(n, t)
    PROVE  rec \/ Closer(w) < 0 \/ ~Validate(Aged(n, (t + 1) % TicksPerSecond), (t + 1) % TicksPerSecond)
<1>1. CASE w < 0
  BY <1>1 DEF Closer
<1>2. CASE ~Validate(n, t)
  BY <1>2, StaleStays, Zenon
<1> QED
  BY <1>1, <1>2, Zenon

LEMMA FinalElapse == ASSUME FinalInv, Elapse PROVE FinalInv'
<1>1. /\ MiddlewareType'
      /\ (resp' = <<>>) <=> (resp = <<>>)
      /\ resp # <<>> => resp'.status = resp.status /\ resp'.RetryAfter = resp.RetryAfter /\ resp'.error = resp.error
      /\ (stray' = <<>>) <=> (stray = <<>>)
      /\ stray # <<>> => /\ stray'.nonce = Aged(stray.nonce, now') /\ stray'.window = Closer(stray.window)
                         /\ stray'.recorded = stray.recorded
  <2>1. MiddlewareType
    BY Zenon DEF FinalInv
  <2> QED
    BY <2>1, ElapseType, Zenon
<1>2. /\ wait \in Nat /\ block \in Nat /\ wait' = Less(wait) /\ block' = Less(block)
      /\ UNCHANGED <<client, told, bearer, recorded, copies, answered, late>>
      /\ now' = (now + 1) % TicksPerSecond /\ nonce' = Aged(nonce, now') /\ window' = Closer(window)
  BY Zenon DEF FinalInv, MiddlewareType, Elapse
<1>3. block' <= block /\ (block <= wait => block' <= wait') /\ block' \in Nat
  BY <1>2 DEF Less
<1>4. resp # <<>> /\ resp.RetryAfter > 0 /\ late = "no" => block' <= resp.RetryAfter * TicksPerSecond
  <2> SUFFICES ASSUME resp # <<>>, resp.RetryAfter > 0, late = "no" PROVE block' <= resp.RetryAfter * TicksPerSecond
    OBVIOUS
  <2> DEFINE x == resp.RetryAfter * TicksPerSecond
  <2>1. resp \in Replies
    BY Zenon DEF FinalInv, MiddlewareType
  <2>2. x \in Int
    BY <2>1, NonceAssumption DEF Replies
  <2>3. block <= x
    BY Zenon DEF FinalInv
  <2> HIDE DEF x
  <2>4. block' <= x
    BY <1>2, <1>3, <2>2, <2>3
  <2> QED
    BY <2>4 DEF x
<1>5. answered /\ bearer = "valid" => Settled(nonce, window, recorded)'
  <2>1. nonce \in Stamps /\ window \in Int /\ recorded \in BOOLEAN /\ now \in 0 .. TicksPerSecond - 1
    BY Zenon DEF FinalInv, MiddlewareType
  <2>2. answered /\ bearer = "valid" => recorded \/ window < 0 \/ ~Validate(nonce, now)
    BY Zenon DEF FinalInv, Settled
  <2> QED
    BY <1>2, <2>1, <2>2, SettledStays, Zenon DEF Settled
<1>6. stray # <<>> => Settled(stray.nonce, stray.window, stray.recorded)'
  <2> SUFFICES ASSUME stray # <<>> PROVE Settled(stray.nonce, stray.window, stray.recorded)'
    OBVIOUS
  <2>1. stray \in Strays /\ now \in 0 .. TicksPerSecond - 1
    BY Zenon DEF FinalInv, MiddlewareType
  <2>2. stray.nonce \in Stamps /\ stray.window \in Int /\ stray.recorded \in BOOLEAN
    BY <2>1 DEF Strays
  <2>3. stray.recorded \/ stray.window < 0 \/ ~Validate(stray.nonce, now)
    BY Zenon DEF FinalInv, Settled
  <2>4. \/ stray.recorded \/ Closer(stray.window) < 0
        \/ ~Validate(Aged(stray.nonce, (now + 1) % TicksPerSecond), (now + 1) % TicksPerSecond)
    BY <2>1, <2>2, <2>3, SettledStays, Zenon
  <2> QED
    BY <1>1, <1>2, <2>4, Zenon DEF Settled
<1> QED
  BY <1>1, <1>2, <1>3, <1>4, <1>5, <1>6, Zenon DEF FinalInv

LEMMA FinalClient ==
    ASSUME FinalInv, Send \/ Network \/ Receive \/ GiveUp \/ NextRequest
    PROVE  FinalInv'
<1>0. "idle" # "sent" /\ "idle" # "served" /\ "sent" # "served" /\ "no" # "yes"
  OBVIOUS
<1>1. CASE Send
  <2>1. /\ client = "idle" /\ client' = "sent" /\ resp' = resp /\ told' = FALSE
        /\ answered' = FALSE /\ late' = "no" /\ window' = IATLeeway - now /\ nonce' = held /\ recorded' = FALSE /\ copies' = 1
        /\ UNCHANGED <<env, now, held, wait, block, resp, age, challenges>>
    BY <1>1, Zenon DEF Send
  <2>2. stray' = stray \/ (copies > 0 /\ bearer = "valid" /\ stray' = [nonce |-> nonce, window |-> window, recorded |-> recorded])
    BY <1>1, Zenon DEF Send
  <2>3. /\ stray' \in Strays \cup {<<>>}
        /\ stray' # <<>> => Settled(stray.nonce, stray.window, stray.recorded)'
    <3>1. CASE stray' = stray
      BY <2>1, <3>1, Zenon DEF FinalInv, MiddlewareType, Settled
    <3>2. CASE copies > 0 /\ bearer = "valid" /\ stray' = [nonce |-> nonce, window |-> window, recorded |-> recorded]
      <4>1. nonce \in Stamps /\ window \in Int /\ recorded \in BOOLEAN
        BY Zenon DEF FinalInv, MiddlewareType
      <4>2. Settled(nonce, window, recorded)
        BY <1>0, <2>1, <3>2, Zenon DEF FinalInv
      <4>3. stray' \in Strays /\ stray'.nonce = nonce /\ stray'.window = window /\ stray'.recorded = recorded
        BY <3>2, <4>1 DEF Strays
      <4> QED
        BY <2>1, <4>2, <4>3, Zenon DEF Settled
    <3> QED
      BY <2>2, <3>1, <3>2
  <2>4. MiddlewareType'
    <3>1. bearer' \in {"valid"} \cup TokenErrors
      BY <1>1, Zenon DEF FinalInv, MiddlewareType, Setting, Send
    <3>2. window' \in Int /\ copies' \in Nat
      BY <2>1, MiddlewareAssumption, NonceAssumption DEF FinalInv, MiddlewareType
    <3> QED
      BY <2>1, <2>3, <3>1, <3>2, Zenon DEF FinalInv, MiddlewareType
  <2>5. resp' = <<>>
    BY <1>0, <2>1, Zenon DEF FinalInv
  <2> QED
    BY <1>0, <2>1, <2>3, <2>4, <2>5, Zenon DEF FinalInv
<1>2. CASE Network
  <2>1. copies' \in Nat /\ (resp' = resp \/ resp' = <<>>) /\ (client # "sent" /\ copies' > 0 => copies > 0)
    BY <1>2 DEF Network, Lose, LoseReply, Repeat, FinalInv, MiddlewareType
  <2>2. UNCHANGED <<env, now, held, client, wait, told, block, bearer, nonce, window, recorded, stray, age, challenges,
                    answered, late>>
    BY <1>2, Zenon DEF Network
  <2>3. MiddlewareType'
    BY <2>1, <2>2, Zenon DEF FinalInv, MiddlewareType
  <2>4. /\ answered' /\ bearer' = "valid" => Settled(nonce, window, recorded)'
        /\ stray' # <<>> => Settled(stray.nonce, stray.window, stray.recorded)'
    BY <2>2, Zenon DEF FinalInv, Settled
  <2>5. /\ client' # "sent" => resp' = <<>>
        /\ resp' # <<>> => answered'
        /\ client' # "sent" /\ copies' > 0 => answered'
        /\ resp' # <<>> /\ resp'.status = 200 => resp'.RetryAfter = 0
        /\ resp' # <<>> /\ resp'.RetryAfter > 0 /\ late' = "no" => block' <= resp'.RetryAfter * TicksPerSecond
    BY <2>1, <2>2, Zenon DEF FinalInv
  <2> QED
    BY <2>2, <2>3, <2>4, <2>5, Zenon DEF FinalInv
<1>3. CASE Receive
  <2>1. /\ client = "sent" /\ resp # <<>> /\ resp' = <<>> /\ client' = IF resp.status = 200 THEN "served" ELSE "idle"
        /\ wait' = resp.RetryAfter * TicksPerSecond
        /\ told' = (resp.RetryAfter > 0)
        /\ held' = IF resp.nonce = NoNonce THEN held ELSE resp.nonce
        /\ challenges' = IF resp.error # "use_dpop_nonce" \/ resp.nonce = NoNonce THEN 0
                         ELSE IF challenges < 2 THEN challenges + 1 ELSE 2
        /\ UNCHANGED <<env, now, block, bearer, nonce, window, recorded, copies, stray, age, answered, late>>
    BY <1>3, Zenon DEF Receive
  <2>2. resp \in Replies
    BY <2>1, Zenon DEF FinalInv, MiddlewareType
  <2>3. resp.RetryAfter \in Nat /\ wait' \in Nat /\ resp.nonce \in Stamps /\ challenges' \in 0 .. 2
    <3>1. challenges \in 0 .. 2
      BY DEF FinalInv, MiddlewareType
    <3>2. resp.RetryAfter \in Nat /\ resp.nonce \in Stamps
      BY <2>2 DEF Replies
    <3>3. wait' \in Nat
      BY <2>1, <3>2, NonceAssumption
    <3>4. challenges' \in {0, challenges + 1, 2} /\ (challenges' = challenges + 1 => challenges < 2 \/ challenges' \in {0, 2})
      BY <2>1
    <3>5. challenges' \in 0 .. 2
      BY <3>1, <3>4
    <3> QED
      BY <3>2, <3>3, <3>5
  <2>4. told' \in BOOLEAN /\ held' \in Stamps /\ client' \in {"idle", "sent", "served"}
    <3>1. told' \in BOOLEAN
      <4>1. told' = (resp.RetryAfter > 0)
        BY <2>1, Zenon
      <4>2. (resp.RetryAfter > 0) \in BOOLEAN
        BY <2>3
      <4> QED
        BY <4>1, <4>2, Zenon
    <3>2. held' \in Stamps
      BY <2>1, <2>3, Zenon DEF FinalInv, MiddlewareType
    <3>3. client' \in {"idle", "sent", "served"}
      BY <2>1, Zenon
    <3> QED
      BY <3>1, <3>2, <3>3, Zenon
  <2>5. MiddlewareType'
    BY <2>1, <2>3, <2>4, Zenon DEF FinalInv, MiddlewareType
  <2>6. answered'
    BY <2>1, Zenon DEF FinalInv
  <2>7. (told' => client' = "idle") /\ (told' /\ late' = "no" => block' <= wait')
    <3>1. ~(0 > 0)
      OBVIOUS
    <3> QED
      BY <2>1, <3>1, Zenon DEF FinalInv
  <2> QED
    BY <2>1, <2>5, <2>6, <2>7, Zenon DEF FinalInv, Settled
<1>4. CASE GiveUp
  <2>1. /\ client = "sent" /\ resp = <<>> /\ copies = 0 /\ client' = "idle" /\ challenges' = 0
        /\ UNCHANGED <<env, now, held, wait, told, block, bearer, nonce, window, recorded, copies, stray, resp, age,
                       answered, late>>
    BY <1>4, Zenon DEF GiveUp
  <2>2. MiddlewareType'
    <3>1. 0 \in 0 .. 2 /\ "idle" \in {"idle", "sent", "served"}
      OBVIOUS
    <3> QED
      BY <2>1, <3>1, Zenon DEF FinalInv, MiddlewareType
  <2>3. ~(copies' > 0) /\ ~told'
    BY <1>0, <2>1 DEF FinalInv
  <2> QED
    BY <2>1, <2>2, <2>3, Zenon DEF FinalInv, Settled
<1>5. CASE NextRequest
  <2>1. /\ client = "served" /\ client' = "idle"
        /\ UNCHANGED <<env, now, held, wait, told, block, bearer, nonce, window, recorded, copies, stray, resp, age,
                       challenges, answered, late>>
    BY <1>5, Zenon DEF NextRequest
  <2>2. MiddlewareType'
    BY <2>1, Zenon DEF FinalInv, MiddlewareType
  <2> QED
    BY <1>0, <2>1, <2>2, Zenon DEF FinalInv, Settled
<1> QED
  BY <1>1, <1>2, <1>3, <1>4, <1>5

LEMMA RanIs ==
    ASSUME NEW w \in Int, NEW rec \in BOOLEAN, NEW before \in BOOLEAN, late \in {"no", "edge", "yes"}, late # "yes",
           before => rec /\ w = 0
    PROVE  /\ Ran(w, rec, before) \in {"no", "edge", "yes"} /\ Ran(w, rec, before) # "yes"
           /\ before => Ran(w, rec, before) # "no"
<1>1. "edge" # "yes" /\ "edge" # "no"
  OBVIOUS
<1>2. CASE rec /\ w = 0
  <2>1. Ran(w, rec, before) = "edge"
    BY <1>2, Zenon DEF Ran
  <2> QED
    BY <1>1, <2>1, Zenon
<1>3. CASE ~(rec /\ w = 0)
  <2>1. Ran(w, rec, before) = late
    BY <1>3, Zenon DEF Ran
  <2> QED
    BY <1>3, <2>1, Zenon
<1> QED
  BY <1>2, <1>3

LEMMA FinalPassed == ASSUME FinalInv, PassIs PROVE FinalInv'
<1>1. UNCHANGED <<env, now, held, client, wait, told, bearer, nonce, window, stray, challenges>> /\ answered' = TRUE /\ copies' \in Nat
  BY Zenon DEF PassIs
<1>2. bearer = "valid" => Settled(nonce, window, recorded)'
  BY <1>1, Zenon DEF PassIs, Settled
<1>3. /\ window \in Int /\ recorded \in BOOLEAN /\ answered \in BOOLEAN /\ late \in {"no", "edge", "yes"} /\ late # "yes"
      /\ block \in Nat
  BY Zenon DEF FinalInv, MiddlewareType
<1>4. /\ recorded' \in BOOLEAN /\ block' \in Nat /\ late' \in {"no", "edge", "yes"} /\ late' # "yes"
      /\ answered /\ late' = "no" => late = "no" /\ block' = block
  <2>1. CASE recorded' \in {recorded, TRUE} /\ UNCHANGED <<block, late>>
    <3>1. TRUE \in BOOLEAN
      OBVIOUS
    <3> QED
      BY <1>3, <2>1, <3>1, Zenon
  <2>2. CASE /\ recorded' = TRUE /\ block' \in Nat /\ Enforce(nonce, window, recorded) = "ok" /\ bearer = "valid"
             /\ late' = Ran(window, recorded, answered)
    <3>1. answered => recorded /\ window = 0
      <4>1. answered => Settled(nonce, window, recorded)
        BY <2>2, Zenon DEF FinalInv
      <4> QED
        BY <1>3, <2>2, <4>1, EnforceIs, Zenon
    <3>2. late' \in {"no", "edge", "yes"} /\ late' # "yes" /\ (answered => late' # "no")
      BY <1>3, <2>2, <3>1, RanIs, Zenon
    <3>3. TRUE \in BOOLEAN
      OBVIOUS
    <3> QED
      BY <2>2, <3>2, <3>3, Zenon
  <2> QED
    BY <2>1, <2>2, Zenon DEF PassIs, Passes
<1>5. told' => client' = "idle" /\ (late' = "no" => block' <= wait')
  BY <1>1, <1>4, Zenon DEF FinalInv
<1>6. CASE UNCHANGED <<resp, age>>
  <2>1. MiddlewareType'
    BY <1>1, <1>4, <1>6, Zenon DEF FinalInv, MiddlewareType
  <2>2. resp' # <<>> /\ resp'.RetryAfter > 0 /\ late' = "no" => block' <= resp'.RetryAfter * TicksPerSecond
    BY <1>4, <1>6, Zenon DEF FinalInv
  <2> QED
    BY <1>1, <1>2, <1>4, <1>5, <1>6, <2>1, <2>2, Zenon DEF FinalInv, Settled
<1>7. ASSUME NEW w \in Written, NEW n \in Stamps, NEW r \in Nat, Replied(w, n, r), Justified(w, n, r)
      PROVE  FinalInv'
  <2>1. age' \in Nat
    BY <1>7 DEF Replied, FinalInv, MiddlewareType
  <2>2. MiddlewareType'
    BY <1>1, <1>4, <1>7, <2>1, Zenon DEF FinalInv, MiddlewareType, Replied
  <2>3. client = "sent"
    BY <1>7, Zenon DEF Replied
  <2>4. resp'.status = w.status /\ resp'.RetryAfter = r
    BY <1>7, Zenon DEF Replied
  <2>5. w.status = 200 => r = 0
    BY <1>7, Zenon DEF Justified
  <2>6. r > 0 => block' <= r * TicksPerSecond
    BY <1>7, Zenon DEF Justified
  <2>7. stray' # <<>> => Settled(stray.nonce, stray.window, stray.recorded)'
    BY <1>1, Zenon DEF FinalInv, Settled
  <2>8. /\ resp'.status = 200 => resp'.RetryAfter = 0
        /\ resp'.RetryAfter > 0 => block' <= resp'.RetryAfter * TicksPerSecond
    BY <2>4, <2>5, <2>6, Zenon
  <2> QED
    BY <1>1, <1>2, <1>4, <1>5, <2>2, <2>3, <2>7, <2>8, Zenon DEF FinalInv
<1> QED
  BY <1>6, <1>7, Zenon DEF PassIs

\* A copy of an earlier request changes nothing before the last instant of its window.
LEMMA StrayIs ==
    ASSUME FinalInv, HandleStray
    PROVE  /\ UNCHANGED <<env, now, held, client, wait, told, bearer, nonce, window, recorded, copies, resp, age,
                          challenges, answered>>
           /\ stray' = <<>> \/ (stray' \in Strays /\ stray'.recorded)
           /\ UNCHANGED <<block, late>> \/ (block' \in Nat /\ late' = "edge")
<1>1. stray \in Strays /\ stray # <<>> /\ Settled(stray.nonce, stray.window, stray.recorded)
  BY Zenon DEF FinalInv, MiddlewareType, HandleStray
<1>2. stray.window \in Int /\ stray.recorded \in BOOLEAN
  BY <1>1 DEF Strays
<1> DEFINE verdict == Enforce(stray.nonce, stray.window, stray.recorded)
<1>3. verdict = "ok" => stray.recorded /\ stray.window = 0
  BY <1>1, <1>2, EnforceIs, Zenon
<1>4. \/ verdict # "ok" /\ stray' = <<>> /\ UNCHANGED <<block, late>>
      \/ /\ verdict = "ok"
         /\ stray' \in {<<>>, [stray EXCEPT !.recorded = TRUE]}
         /\ \/ block > 0 /\ UNCHANGED <<block, late>>
            \/ Allow /\ late' = Ran(stray.window, stray.recorded, TRUE)
  BY Zenon DEF HandleStray
<1>5. [stray EXCEPT !.recorded = TRUE] \in Strays /\ [stray EXCEPT !.recorded = TRUE].recorded
  BY <1>1, Zenon DEF Strays
<1>6. Allow => block' \in Nat
  <2>1. Allow => block' \in 0 .. MaxBlock \/ block' \in {0}
    BY Zenon DEF Allow
  <2> QED
    BY <2>1, MiddlewareAssumption
<1>7. stray.recorded /\ stray.window = 0 => Ran(stray.window, stray.recorded, TRUE) = "edge"
  BY Zenon DEF Ran
<1>8. UNCHANGED <<env, now, held, client, wait, told, bearer, nonce, window, recorded, copies, resp, age, challenges, answered>>
  BY Zenon DEF HandleStray
<1> HIDE DEF verdict
<1> QED
  BY <1>3, <1>4, <1>5, <1>6, <1>7, <1>8, Zenon

LEMMA FinalStray == ASSUME FinalInv, HandleStray PROVE FinalInv'
<1>1. /\ UNCHANGED <<env, now, held, client, wait, told, bearer, nonce, window, recorded, copies, resp, age,
                     challenges, answered>>
      /\ stray' = <<>> \/ (stray' \in Strays /\ stray'.recorded)
      /\ UNCHANGED <<block, late>> \/ (block' \in Nat /\ late' = "edge")
  BY StrayIs, Zenon
<1>2. "edge" # "no" /\ "edge" # "yes"
  OBVIOUS
<1>3. stray' # <<>> => Settled(stray.nonce, stray.window, stray.recorded)'
  BY <1>1, Zenon DEF Settled
<1>4. MiddlewareType'
  BY <1>1, Zenon DEF FinalInv, MiddlewareType
<1>5. late' # "yes" /\ (late' = "no" => late = "no" /\ block' = block)
  BY <1>1, <1>2, Zenon DEF FinalInv
<1> QED
  BY <1>1, <1>3, <1>4, <1>5, Zenon DEF FinalInv, Settled

LEMMA FinalInvariant == HTTPSpec => []FinalInv
<1>1. HTTPInit => FinalInv
  <2> SUFFICES ASSUME HTTPInit PROVE FinalInv
    OBVIOUS
  <2>1. block \in Nat
    <3>1. block \in 0 .. MaxBlock \/ block \in {0}
      BY Zenon DEF HTTPInit
    <3> QED
      BY <3>1, MiddlewareAssumption
  <2>2. NoNonce \in Stamps /\ 0 \in 0 .. TicksPerSecond - 1 /\ 0 \in 0 .. 2 /\ 0 \in Nat /\ ~(0 > 0) /\ -1 \in Int
    BY NonceAssumption DEF NoNonce, Stamps
  <2>3. "no" # "yes"
    OBVIOUS
  <2> QED
    BY <2>1, <2>2, <2>3, MiddlewareAssumption, Zenon DEF HTTPInit, FinalInv, MiddlewareType
<1>2. FinalInv /\ [HTTPNext]_httpVars => FinalInv'
  <2> SUFFICES ASSUME FinalInv, [HTTPNext]_httpVars PROVE FinalInv'
    OBVIOUS
  <2>1. CASE UNCHANGED httpVars
    <3>1. MiddlewareType'
      BY <2>1, Zenon DEF httpVars, FinalInv, MiddlewareType
    <3>2. /\ answered' /\ bearer' = "valid" => Settled(nonce, window, recorded)'
          /\ stray' # <<>> => Settled(stray.nonce, stray.window, stray.recorded)'
      BY <2>1, Zenon DEF httpVars, FinalInv, Settled
    <3> QED
      BY <2>1, <3>1, <3>2, Zenon DEF httpVars, FinalInv
  <2>2. CASE Handle
    <3>1. MiddlewareType
      BY Zenon DEF FinalInv
    <3> QED
      BY <2>2, <3>1, HandlePasses, FinalPassed
  <2> QED
    BY <2>1, <2>2, FinalElapse, FinalClient, FinalStray DEF HTTPNext
<1> QED
  BY <1>1, <1>2, PTL DEF HTTPSpec

\* middleware.go:107-136, proof.go:133-139, replay.go:49: for every leeway, lifetime, setting
\* and schedule, once the server has answered a request, copies of it that come later run the
\* handler at the last instant of the proof's window only.
THEOREM AnswerIsFinalHolds == HTTPSpec => []AnswerIsFinal
<1>1. FinalInv => AnswerIsFinal
  BY Zenon DEF FinalInv, AnswerIsFinal
<1> QED
  BY <1>1, FinalInvariant, PTL

\* middleware.go:277-290: for every number of ticks in a second and every wait, a client that
\* has waited for as long as Retry-After told it is admitted by the limiter, unless a copy of
\* a request of its own came at the last instant of its window.
THEOREM RetryAfterEnoughHolds == HTTPSpec => []RetryAfterEnough
<1>1. FinalInv => RetryAfterEnough
  <2> SUFFICES ASSUME FinalInv, client = "idle", told, wait = 0, late # "edge" PROVE block = 0
    BY Zenon DEF RetryAfterEnough
  <2>1. late = "no" /\ block \in Nat
    BY Zenon DEF FinalInv, MiddlewareType
  <2>2. block <= wait
    BY <2>1, Zenon DEF FinalInv
  <2> QED
    BY <2>1, <2>2
<1> QED
  BY <1>1, FinalInvariant, PTL

-----------------------------------------------------------------------------
\* A nonce n of the current or an earlier second, at tick t, a ticks after it was issued.
FreshAt(n, t, a) ==
    /\ n.mac
    /\ n.issued * TicksPerSecond <= t
    /\ t - n.issued * TicksPerSecond <= a + TicksPerSecond - 1

\* The answer to a challenge arrives while a second is left of the nonce's lifetime.
InTime == MaxRTT + TicksPerSecond - 1 <= NonceLifetime

LEMMA FreshIsValid ==
    ASSUME InTime, NEW n \in Stamps, NEW t \in Nat, NEW a \in Nat, a <= MaxRTT, FreshAt(n, t, a)
    PROVE  Validate(n, t)
<1> DEFINE x == n.issued * TicksPerSecond
<1>1. x \in Int
  BY NonceAssumption DEF Stamps
<1>2. n.mac /\ x <= t /\ t - x <= a + TicksPerSecond - 1
  BY Zenon DEF FreshAt
<1> HIDE DEF x
<1>3. t - x <= NonceLifetime /\ x <= t + NonceFutureTL
  BY <1>1, <1>2, NonceAssumption, MiddlewareAssumption DEF InTime
<1> QED
  BY <1>2, <1>3, Zenon DEF Validate, x

\* A nonce just issued.
LEMMA IssuedFresh ==
    ASSUME NEW t \in 0 .. TicksPerSecond - 1
    PROVE  FreshAt(Issue(t), t, 0)
<1>1. t \div TicksPerSecond = 0
  BY NonceAssumption
<1>2. Issue(t).issued = 0 /\ Issue(t).mac = TRUE
  BY <1>1 DEF Issue
<1>3. 0 * TicksPerSecond = 0
  BY NonceAssumption
<1>4. Issue(t).issued * TicksPerSecond = 0
  BY <1>2, <1>3
<1> QED
  BY <1>2, <1>4, NonceAssumption DEF FreshAt

\* A fresh nonce is not one of the oldest.
LEMMA FreshIsRecent ==
    ASSUME InTime, NEW n \in Stamps, NEW t \in Nat, NEW a \in Nat, a <= MaxRTT, FreshAt(n, t, a)
    PROVE  n.issued > Oldest
<1> DEFINE i == n.issued
           T == TicksPerSecond
           q == NonceLifetime \div T
<1>1. i \in Int /\ T \in Nat \ {0} /\ NonceLifetime \in Nat
  BY NonceAssumption DEF Stamps
<1>2. q \in Nat /\ NonceLifetime < (q + 1) * T
  <2> HIDE DEF T
  <2> QED
    BY <1>1
<1>3. t - i * T <= a + T - 1
  BY Zenon DEF FreshAt
<1>4. - (i * T) <= NonceLifetime
  <2> DEFINE x == i * T
  <2>1. x \in Int
    <3> HIDE DEF i, T
    <3> QED
      BY <1>1
  <2>2. t - x <= a + T - 1
    BY <1>3
  <2> HIDE DEF x
  <2> QED
    <3>1. - x <= NonceLifetime
      BY <1>1, <2>1, <2>2, MiddlewareAssumption DEF InTime
    <3> QED
      BY <3>1 DEF x
<1> HIDE DEF i, T, q
<1>5. i > -(q + 2)
  <2> SUFFICES ASSUME ~(i > -(q + 2)) PROVE FALSE
    OBVIOUS
  <2> DEFINE k == -i
  <2>1. k \in Nat /\ k >= q + 1
    BY <1>1, <1>2
  <2>2. k * T = - (i * T)
    BY <1>1
  <2> HIDE DEF k
  <2>3. k * T >= (q + 1) * T
    BY <1>1, <1>2, <2>1
  <2> DEFINE y == k * T
             z == (q + 1) * T
             x == i * T
  <2>4. y \in Int /\ z \in Int /\ x \in Int
    BY <1>1, <1>2, <2>1
  <2>5. y >= z /\ y = -x /\ -x <= NonceLifetime /\ NonceLifetime < z
    BY <1>2, <1>4, <2>2, <2>3
  <2> HIDE DEF x, y, z
  <2> QED
    BY <1>1, <2>4, <2>5
<1> QED
  BY <1>5 DEF Oldest, i, q, T

\* The second's end moves the nonces one back, and a fresh nonce stays as old as it is.
LEMMA FreshAges ==
    ASSUME InTime, NEW n \in Stamps, NEW t \in 0 .. TicksPerSecond - 1, NEW a \in Nat, a < MaxRTT, FreshAt(n, t, a)
    PROVE  FreshAt(Aged(n, (t + 1) % TicksPerSecond), (t + 1) % TicksPerSecond, a + 1)
<1> DEFINE T == TicksPerSecond
           x == n.issued * T
<1>1. x \in Int /\ T \in Nat \ {0}
  BY NonceAssumption DEF Stamps
<1>2. n.mac /\ x <= t /\ t - x <= a + T - 1
  BY Zenon DEF FreshAt
<1>3. CASE t + 1 < T /\ (t + 1) % T = t + 1
  <2>1. t + 1 # 0
    OBVIOUS
  <2>2. Aged(n, (t + 1) % T) = n
    BY <1>3, <2>1, Zenon DEF Aged
  <2> HIDE DEF x
  <2>3. x <= t + 1 /\ (t + 1) - x <= (a + 1) + T - 1
    BY <1>1, <1>2
  <2> QED
    BY <1>2, <1>3, <2>2, <2>3, Zenon DEF FreshAt, x
<1>4. CASE t + 1 = T /\ (t + 1) % T = 0
  <2>1. t \in Nat /\ a <= MaxRTT
    BY MiddlewareAssumption
  <2>2. n.issued > Oldest
    BY <2>1, FreshIsRecent
  <2>3. Aged(n, (t + 1) % T) = [n EXCEPT !.issued = @ - 1]
    BY <1>2, <1>4, <2>2, Zenon DEF Aged, Earlier
  <2> DEFINE b == Aged(n, (t + 1) % T)
  <2> HIDE DEF b
  <2>4. b.issued = n.issued - 1 /\ b.mac = n.mac
    BY <2>3 DEF Stamps, b
  <2>5. b.issued * T = x - T
    BY <1>1, <2>4 DEF Stamps
  <2> HIDE DEF x, T
  <2>6. x - T <= 0 /\ 0 - (x - T) <= (a + 1) + T - 1
    BY <1>1, <1>2, <1>4
  <2>7. b.mac /\ b.issued * T <= (t + 1) % T /\ ((t + 1) % T) - b.issued * T <= (a + 1) + T - 1
    BY <1>2, <1>4, <2>4, <2>5, <2>6
  <2> QED
    BY <2>7, Zenon DEF FreshAt, T, b
<1> QED
  BY <1>3, <1>4, SecondEnds

-----------------------------------------------------------------------------
\* A nonce challenge on its way to the client.
Asks == resp # <<>> /\ resp.error = "use_dpop_nonce"

\* The client that answers a challenge holds, or has sent, the nonce that came with it, and no
\* second challenge is on its way.
Answers(h, n) ==
    \/ client = "idle" /\ FreshAt(h, now, age)
    \/ client = "sent" /\ FreshAt(n, now, age) /\ ~Asks

FreshInv ==
    /\ Asks => resp.status # 200
    /\ Challenged => age <= MaxRTT
    /\ InTime =>
        /\ challenges <= 1
        /\ challenges = 1 => Answers(held, nonce)
        /\ Asks /\ resp.nonce # NoNonce => FreshAt(resp.nonce, now, age)

LEMMA FreshElapse == ASSUME FinalInv, FreshInv, Elapse PROVE FreshInv'
<1>1. MiddlewareType
  BY Zenon DEF FinalInv
<1>2. /\ age \in Nat /\ now \in 0 .. TicksPerSecond - 1 /\ challenges \in 0 .. 2 /\ MaxRTT \in Nat
      /\ held \in Stamps /\ nonce \in Stamps /\ (resp # <<>> => resp \in Replies)
  BY <1>1, MiddlewareAssumption, Zenon DEF MiddlewareType
<1>3. /\ (resp' = <<>>) <=> (resp = <<>>)
      /\ resp # <<>> => /\ resp'.status = resp.status /\ resp'.error = resp.error
                        /\ resp'.nonce = Aged(resp.nonce, now')
  BY <1>1, ElapseType, Zenon
<1>4. /\ Challenged => age < MaxRTT
      /\ age' = IF Challenged THEN age + 1 ELSE 0
      /\ now' = (now + 1) % TicksPerSecond
      /\ UNCHANGED <<client, challenges>>
  BY DEF Elapse
<1>5. (Asks' <=> Asks) /\ (Challenged' <=> Challenged) /\ (Asks' => resp'.status = resp.status)
  BY <1>3, <1>4, Zenon DEF Asks, Challenged
<1>6. Challenged' => age' <= MaxRTT
  BY <1>2, <1>4, <1>5
<1>7. /\ held' = Aged(held, now') /\ nonce' = Aged(nonce, now')
      /\ resp # <<>> => resp'.nonce = Aged(resp.nonce, now')
  BY <1>3, Zenon DEF Elapse
<1>8. ASSUME InTime, Challenged, NEW n \in Stamps, FreshAt(n, now, age) PROVE FreshAt(Aged(n, now'), now', age')
  <2>1. FreshAt(Aged(n, (now + 1) % TicksPerSecond), (now + 1) % TicksPerSecond, age + 1)
    BY <1>2, <1>4, <1>8, FreshAges, Zenon
  <2> QED
    BY <1>4, <1>8, <2>1, Zenon
<1>9. ASSUME InTime, challenges = 1 PROVE Answers(held, nonce)'
  <2>1. Challenged
    BY <1>9 DEF Challenged
  <2>2. Answers(held, nonce)
    BY <1>9, Zenon DEF FreshInv
  <2>3. CASE client = "idle" /\ FreshAt(held, now, age)
    <3>1. FreshAt(held', now', age')
      BY <1>2, <1>7, <1>8, <1>9, <2>1, <2>3, Zenon
    <3> QED
      BY <1>4, <2>3, <3>1, Zenon DEF Answers
  <2>4. CASE client = "sent" /\ FreshAt(nonce, now, age) /\ ~Asks
    <3>1. FreshAt(nonce', now', age')
      BY <1>2, <1>7, <1>8, <1>9, <2>1, <2>4, Zenon
    <3> QED
      BY <1>4, <1>5, <2>4, <3>1, Zenon DEF Answers
  <2> QED
    BY <2>2, <2>3, <2>4, Zenon DEF Answers
<1>10. ASSUME InTime, Asks, resp'.nonce # NoNonce PROVE FreshAt(resp'.nonce, now', age')
  <2>1. resp # <<>> /\ Challenged
    BY <1>10, Zenon DEF Asks, Challenged
  <2>2. resp'.nonce = Aged(resp.nonce, now') /\ resp.nonce \in Stamps
    <3>1. resp \in Replies
      BY <1>2, <2>1, Zenon
    <3>2. resp.nonce \in Stamps
      BY <3>1 DEF Replies
    <3> QED
      BY <1>7, <2>1, <3>2, Zenon
  <2>3. resp.nonce # NoNonce
    <3>1. Aged(NoNonce, now') = NoNonce
      <4>1. ~NoNonce.mac
        BY DEF NoNonce
      <4> QED
        BY <4>1, Zenon DEF Aged, Earlier
    <3> QED
      BY <1>10, <2>2, <3>1, Zenon
  <2>4. FreshAt(resp.nonce, now, age)
    BY <1>10, <2>3, Zenon DEF FreshInv
  <2> QED
    BY <1>8, <1>10, <2>1, <2>2, <2>4, Zenon
<1> QED
  BY <1>4, <1>5, <1>6, <1>9, <1>10, Zenon DEF FreshInv

LEMMA FreshClient ==
    ASSUME FinalInv, FreshInv, Send \/ Network \/ Receive \/ GiveUp \/ NextRequest
    PROVE  FreshInv'
<1>1. challenges \in 0 .. 2 /\ challenges \in Nat
  BY DEF FinalInv, MiddlewareType
<1>2. ~(0 > 0) /\ 0 <= 1 /\ 0 # 1 /\ "idle" # "sent" /\ "idle" # "served" /\ "sent" # "served"
  OBVIOUS
<1>3. CASE Send
  <2>1. client = "idle" /\ client' = "sent" /\ nonce' = held /\ UNCHANGED <<held, now, resp, age, challenges>>
    BY <1>3 DEF Send
  <2>2. resp = <<>>
    BY <1>2, <2>1, Zenon DEF FinalInv
  <2>3. ~Asks /\ ~Asks'
    BY <2>1, <2>2, Zenon DEF Asks
  <2>4. InTime /\ challenges = 1 => FreshAt(nonce', now', age')
    BY <1>2, <2>1, Zenon DEF FreshInv, Answers
  <2>5. Challenged' <=> Challenged
    BY <2>1, Zenon DEF Challenged
  <2> QED
    BY <2>1, <2>3, <2>4, <2>5, Zenon DEF FreshInv, Answers
<1>4. CASE Network
  <2>1. UNCHANGED <<held, client, nonce, now, age, challenges>> /\ (resp' = resp \/ resp' = <<>>)
    BY <1>4 DEF Network, Lose, LoseReply, Repeat
  <2>2. Asks' => Asks /\ resp' = resp
    BY <2>1, Zenon DEF Asks
  <2>3. Challenged' => Challenged
    BY <1>1, <2>1, <2>2, Zenon DEF Challenged, Asks
  <2> QED
    BY <2>1, <2>2, <2>3, Zenon DEF FreshInv, Answers
<1>5. CASE Receive
  <2>1. /\ client = "sent" /\ resp # <<>> /\ resp' = <<>> /\ client' = IF resp.status = 200 THEN "served" ELSE "idle"
        /\ held' = IF resp.nonce = NoNonce THEN held ELSE resp.nonce
        /\ challenges' = IF resp.error # "use_dpop_nonce" \/ resp.nonce = NoNonce THEN 0
                         ELSE IF challenges < 2 THEN challenges + 1 ELSE 2
        /\ UNCHANGED <<now, age, nonce>>
    BY <1>5, Zenon DEF Receive
  <2>2. ~Asks'
    BY <2>1, Zenon DEF Asks
  <2>3. CASE Asks /\ resp.nonce # NoNonce
    <3>1. Challenged
      BY <2>3, Zenon DEF Challenged, Asks
    <3>2. ASSUME InTime PROVE challenges = 0 /\ FreshAt(held', now', age')
      <4>1. challenges # 1
        BY <1>2, <2>1, <2>3, <3>2, Zenon DEF FreshInv, Answers
      <4>2. challenges <= 1
        BY <3>2, Zenon DEF FreshInv
      <4>3. challenges = 0
        BY <1>1, <4>1, <4>2
      <4>4. FreshAt(held', now', age')
        BY <2>1, <2>3, <3>2, Zenon DEF FreshInv
      <4> QED
        BY <4>3, <4>4
    <3>3. resp.status # 200
      BY <2>3, Zenon DEF FreshInv
    <3> QED
      BY <2>1, <2>2, <3>1, <3>2, <3>3 DEF FreshInv, Answers
  <2>4. CASE ~(Asks /\ resp.nonce # NoNonce)
    <3>1. challenges' = 0
      BY <2>1, <2>4, Zenon DEF Asks
    <3>2. ~Challenged'
      BY <1>2, <2>1, <3>1, Zenon DEF Challenged
    <3> QED
      BY <1>2, <2>2, <3>1, <3>2, Zenon DEF FreshInv
  <2> QED
    BY <2>3, <2>4
<1>6. CASE GiveUp
  <2>1. challenges' = 0 /\ resp = <<>> /\ resp' = resp
    BY <1>6 DEF GiveUp
  <2>2. ~Asks' /\ ~Challenged'
    BY <1>2, <2>1, Zenon DEF Asks, Challenged
  <2> QED
    BY <1>2, <2>1, <2>2, Zenon DEF FreshInv
<1>7. CASE NextRequest
  <2>1. client = "served" /\ UNCHANGED <<held, nonce, now, age, resp, challenges>>
    BY <1>7 DEF NextRequest
  <2>2. InTime => challenges # 1
    BY <1>2, <2>1, Zenon DEF FreshInv, Answers
  <2>3. (Asks' <=> Asks) /\ (Challenged' <=> Challenged)
    BY <2>1, Zenon DEF Asks, Challenged
  <2> QED
    BY <2>1, <2>2, <2>3, Zenon DEF FreshInv
<1> QED
  BY <1>3, <1>4, <1>5, <1>6, <1>7

\* A client that answers a challenge in time is not challenged again: its nonce is valid.
LEMMA FreshPassed == ASSUME FinalInv, FreshInv, PassIs PROVE FreshInv'
<1>1. UNCHANGED <<now, held, client, nonce, challenges>>
  BY Zenon DEF PassIs
<1>2. /\ age \in Nat /\ now \in 0 .. TicksPerSecond - 1 /\ now \in Nat /\ challenges \in 0 .. 2 /\ nonce \in Stamps
      /\ MaxRTT \in Nat
  BY NonceAssumption, MiddlewareAssumption DEF FinalInv, MiddlewareType
<1>3. CASE UNCHANGED <<resp, age>>
  <2>1. (Asks' <=> Asks) /\ (Challenged' <=> Challenged)
    BY <1>1, <1>3, Zenon DEF Asks, Challenged
  <2>2. Answers(held, nonce)' <=> Answers(held, nonce)
    BY <1>1, <1>3, <2>1, Zenon DEF Answers
  <2> QED
    BY <1>1, <1>3, <2>1, <2>2, Zenon DEF FreshInv
<1>4. ASSUME NEW w \in Written, NEW n \in Stamps, NEW r \in Nat, Replied(w, n, r), Justified(w, n, r)
      PROVE  FreshInv'
  <2>1. client = "sent" /\ resp = <<>> /\ "sent" # "idle" /\ resp' # <<>> /\ resp'.status = w.status
        /\ resp'.error = w.error /\ resp'.nonce = n
    BY <1>4 DEF Replied
  <2>2. ~Asks /\ (Challenged <=> challenges > 0)
    BY <2>1, Zenon DEF Asks, Challenged
  <2>3. (Asks' <=> w.error = "use_dpop_nonce") /\ (Challenged' <=> challenges > 0 \/ w.error = "use_dpop_nonce")
    BY <1>1, <2>1, Zenon DEF Asks, Challenged
  <2>4. Asks' => resp'.status # 200
    BY <1>4, <2>1, <2>3, Zenon DEF Justified
  <2>5. CASE w.error = "use_dpop_nonce"
    <3>1. age' = 0 /\ ~Validate(nonce, now) /\ n \in {NoNonce, Issue(now)}
      BY <1>4, <2>5, Zenon DEF Replied, Justified
    <3>2. ASSUME InTime PROVE challenges # 1
      <4>1. SUFFICES ASSUME challenges = 1 PROVE FALSE
        OBVIOUS
      <4>2. FreshAt(nonce, now, age)
        BY <2>1, <3>2, <4>1, Zenon DEF FreshInv, Answers
      <4>3. age <= MaxRTT
        <5>1. 1 > 0
          OBVIOUS
        <5> QED
          BY <2>2, <4>1, <5>1, Zenon DEF FreshInv
      <4> QED
        BY <1>2, <3>1, <3>2, <4>2, <4>3, FreshIsValid, Zenon
    <3>3. n # NoNonce => FreshAt(n, now, 0)
      BY <1>2, <3>1, IssuedFresh, Zenon
    <3>4. 0 <= MaxRTT
      BY <1>2
    <3> QED
      BY <1>1, <2>1, <2>4, <3>1, <3>2, <3>3, <3>4, Zenon DEF FreshInv
  <2>6. CASE w.error # "use_dpop_nonce"
    <3>1. age' = age /\ ~Asks'
      BY <1>4, <2>3, <2>6, Zenon DEF Replied
    <3>2. Challenged' <=> Challenged
      BY <2>2, <2>3, <2>6, Zenon
    <3> QED
      BY <1>1, <2>2, <3>1, <3>2, Zenon DEF FreshInv, Answers
  <2> QED
    BY <2>5, <2>6
<1> QED
  BY <1>3, <1>4, Zenon DEF PassIs

LEMMA FreshInvariant == HTTPSpec => []FreshInv
<1>1. HTTPInit => FreshInv
  <2> SUFFICES ASSUME HTTPInit PROVE FreshInv
    OBVIOUS
  <2>1. challenges = 0 /\ resp = <<>>
    BY DEF HTTPInit
  <2>2. ~(0 > 0) /\ 0 <= 1 /\ 0 # 1
    OBVIOUS
  <2> QED
    BY <2>1, <2>2, Zenon DEF FreshInv, Challenged, Asks
<1>2. FinalInv /\ FreshInv /\ [HTTPNext]_httpVars => FreshInv'
  <2> SUFFICES ASSUME FinalInv, FreshInv, [HTTPNext]_httpVars PROVE FreshInv'
    OBVIOUS
  <2>1. CASE UNCHANGED httpVars
    BY <2>1, Zenon DEF httpVars, FreshInv, Answers, Asks, Challenged
  <2>2. CASE Handle
    <3>1. MiddlewareType
      BY Zenon DEF FinalInv
    <3> QED
      BY <2>2, <3>1, HandlePasses, FreshPassed
  <2>3. CASE HandleStray
    <3>1. UNCHANGED <<held, client, nonce, now, resp, age, challenges>>
      BY <2>3, Zenon DEF HandleStray
    <3> QED
      BY <3>1, Zenon DEF FreshInv, Answers, Asks, Challenged
  <2> QED
    BY <2>1, <2>2, <2>3, FreshElapse, FreshClient DEF HTTPNext
<1> QED
  BY <1>1, <1>2, FinalInvariant, PTL DEF HTTPSpec

\* middleware.go:116-124: for every lifetime, length of a second and delay of the answer that
\* leaves the truncated second, a client is challenged once.
THEOREM OneChallengeHolds == HTTPSpec => []OneChallenge
<1>1. FreshInv => OneChallenge
  BY Zenon DEF FreshInv, OneChallenge, InTime
<1> QED
  BY <1>1, FreshInvariant, PTL

===============================================================================
