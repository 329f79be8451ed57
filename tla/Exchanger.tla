------------------------------ MODULE Exchanger ------------------------------
(***************************************************************************)
(* exchange: Exchanger.Exchange (one token endpoint) and                   *)
(* DownstreamTokenProvider.Provide (the IDP's endpoint, then the Resource  *)
(* AS's), with the token cache in front of either.  Calls run              *)
(* concurrently.  Each POST and each authorization server answer is a step *)
(* of its own, so time passes and other calls run between the server       *)
(* issuing a token and the client computing its ExpiresAt.                 *)
(***************************************************************************)
EXTENDS RequestContext, Integers, FiniteSets

CONSTANTS
    Calls,          \* call ids
    Requests,       \* what is asked: a set of Ask or ForCaller records
    Lifetimes,      \* the expires_in values servers answer with, in ticks; 0 for none
    Leeway,         \* MemoryCache.leeway
    HTTPTimeout,    \* http.Client.Timeout, per POST
    ProviderCached, \* whether DownstreamConfig.Cache is set
    TokensChanged,  \* whether callers change the tokens they were given
    MaxTime         \* bound on the clock

ASSUME ExchangeAssumption ==
    /\ Lifetimes \subseteq Nat
    /\ Leeway \in Nat /\ HTTPTimeout \in Nat /\ MaxTime \in Nat
    /\ ProviderCached \in BOOLEAN /\ TokensChanged \in BOOLEAN
    /\ \A q \in Requests : q.kind \in {"exchange", "provide"}

\* A Request of Exchange, or what Provide is asked and configured with.  Text is a
\* sequence of characters, since the key joins it; Scope is a sequence of names.
Ask(kind, SubjectToken, Subject, Audience, types, Scope, other) ==
    [ kind |-> kind, SubjectToken |-> SubjectToken, Subject |-> Subject, Audience |-> Audience,
      SubjectTokenType |-> types[1], RequestedTokenType |-> types[2], Scope |-> Scope,
      other |-> other ]   \* Resource and ActorToken

\* TokenForCaller: the request is made from the context; without a token in it there is
\* nothing to exchange.
ForCaller(ctx, Audience, Scope) ==
    LET caller == TokenForCaller(ctx) IN
    IF caller = Nil THEN Ask("exchange", Nil, <<>>, Audience, <<<<>>, <<>>>>, Scope, <<>>)
    ELSE Ask("exchange", caller.SubjectToken, caller.Subject, Audience, <<<<>>, <<>>>>, Scope, <<>>)

\* What text is a sequence of; strings of length one, here.
Char == STRING \cup {"|"}

\* Audiences and token types hold no separator, a subject may; who names a subject names
\* the one the token is about.
ASSUME RequestsAssumption ==
    \A q \in Requests :
        /\ q.Subject \in Seq(Char)
        /\ \A text \in {q.Audience, q.SubjectTokenType, q.RequestedTokenType} :
               text \in Seq(Char) /\ \A i \in DOMAIN text : text[i] # "|"
        /\ q.Subject # <<>> /\ q.SubjectToken # Nil => q.Subject = q.SubjectToken.sub

VARIABLES
    clock,    \* what now() returns
    cache,    \* MemoryCache.items: a partial function from keys to tokens
    req,      \* the request of a call
    stage,    \* "start", "post", "wait" or "done"
    leg,      \* the endpoint the call is at: 1, or 2 for the Resource AS
    attempt,  \* do's loop variable; attempt 1 carries the nonce the endpoint demanded
    sentAt,   \* when the POST in flight was sent
    answer,   \* the server's answer on its way back
    result,   \* the token returned, <<>> for none
    doneAt,   \* when the call returned
    events    \* the outcomes the call has recorded

vars == <<clock, cache, req, stage, leg, attempt, sentAt, answer, result, doneAt, events>>

Sep == <<"|">>

\* A sorted list of scopes: how often each one occurs.
sorted(Scope) == [s \in Range(Scope) |-> Cardinality({i \in DOMAIN Scope : Scope[i] = s})]

\* Faulty variant: the token types are left out.
cacheKeyUntyped(q) == << q.kind, q.Subject \o Sep \o q.Audience, sorted(q.Scope) >>

\* cacheKey.  Exchanger and provider have a cache each, hence the kind; Provide leaves the
\* types empty.  The scopes end the joined string; no scope holds a separator or a space.
cacheKey(q) ==
    LET typed(type) == IF q.kind = "provide" THEN <<>> ELSE type IN
    << q.kind,
       q.Subject \o Sep \o q.Audience \o Sep \o typed(q.SubjectTokenType) \o Sep
           \o typed(q.RequestedTokenType),
       sorted(q.Scope) >>

Keys == {cacheKey(q) : q \in Requests}

Cacheable(q) == q.Subject # <<>> /\ (q.kind = "provide" => ProviderCached)

Legs(q) == IF q.kind = "provide" THEN 2 ELSE 1

\* An issued token: whom it is for, which call fetched it (the pointer that call
\* holds), when it was issued for how long, and what the client takes as ExpiresAt.
Token == [for : Requests, by : Calls, issued : Nat, life : Nat, ExpiresAt : Nat,
          Scopes : {"issued", "changed"}]

Outcomes == {"granted", "denied", "error"}
Refusals == {"rejected", "use_dpop_nonce", "unavailable"}

Put(f, k, v)  == [x \in DOMAIN f \cup {k} |-> IF x = k THEN v ELSE f[x]]
Without(f, k) == [x \in DOMAIN f \ {k} |-> f[x]]

Init ==
    /\ clock = 0
    /\ cache = [k \in {} |-> <<>>]
    /\ req \in [Calls -> Requests]
    /\ stage = [c \in Calls |-> "start"]
    /\ leg = [c \in Calls |-> 1]
    /\ attempt = [c \in Calls |-> 0]
    /\ sentAt = [c \in Calls |-> 0]
    /\ answer = [c \in Calls |-> <<>>]
    /\ result = [c \in Calls |-> <<>>]
    /\ doneAt = [c \in Calls |-> 0]
    /\ events = [c \in Calls |-> <<>>]

\* Time passes; a POST in flight for HTTPTimeout has been given up.
Tick ==
    /\ clock < MaxTime
    /\ \A c \in Calls : stage[c] = "wait" => clock - sentAt[c] < HTTPTimeout
    /\ clock' = clock + 1
    /\ UNCHANGED <<cache, req, stage, leg, attempt, sentAt, answer, result, doneAt, events>>

\* The call returns; its locals are gone.
Finish(c, tok, recorded) ==
    /\ stage' = [stage EXCEPT ![c] = "done"]
    /\ result' = [result EXCEPT ![c] = tok]
    /\ doneAt' = [doneAt EXCEPT ![c] = clock]
    /\ events' = [events EXCEPT ![c] = @ \o recorded]
    /\ leg' = [leg EXCEPT ![c] = 1]
    /\ attempt' = [attempt EXCEPT ![c] = 0]
    /\ sentAt' = [sentAt EXCEPT ![c] = 0]
    /\ UNCHANGED <<clock, req>>

-----------------------------------------------------------------------------
\* Faulty variant: an entry is fresh until its ExpiresAt.
FreshNoLeeway(tok) == clock < tok.ExpiresAt

\* MemoryCache.Get's freshness test.
Fresh(tok) == clock < tok.ExpiresAt - Leeway

Hit(q) == Cacheable(q) /\ cacheKey(q) \in DOMAIN cache /\ Fresh(cache[cacheKey(q)])

\* No subject token in the context, or none in the request: an error, before any audit.
NoSubjectToken(c) ==
    /\ stage[c] = "start"
    /\ req[c].SubjectToken = Nil
    /\ Finish(c, <<>>, <<>>)
    /\ UNCHANGED <<cache, answer>>

\* A cache hit returns a copy.
CacheHit(c) ==
    /\ stage[c] = "start"
    /\ req[c].SubjectToken # Nil
    /\ Hit(req[c])
    /\ Finish(c, cache[cacheKey(req[c])], <<"granted">>)
    /\ UNCHANGED <<cache, answer>>

\* A miss; an entry found stale is deleted.
CacheMiss(c) ==
    /\ stage[c] = "start"
    /\ req[c].SubjectToken # Nil
    /\ ~Hit(req[c])
    /\ stage' = [stage EXCEPT ![c] = "post"]
    /\ cache' = IF Cacheable(req[c]) THEN Without(cache, cacheKey(req[c])) ELSE cache
    /\ UNCHANGED <<clock, req, leg, attempt, sentAt, answer, result, doneAt, events>>

\* do, one attempt: the request goes out with the nonce it has.
Post(c) ==
    /\ stage[c] = "post"
    /\ stage' = [stage EXCEPT ![c] = "wait"]
    /\ sentAt' = [sentAt EXCEPT ![c] = clock]
    /\ UNCHANGED <<clock, cache, req, leg, attempt, answer, result, doneAt, events>>

\* Building or authenticating the request fails, or the POST times out or breaks.
Unavailable(c) ==
    /\ stage[c] \in {"post", "wait"}
    /\ Finish(c, <<>>, <<"error">>)
    /\ answer' = [answer EXCEPT ![c] = <<>>]
    /\ UNCHANGED cache

-----------------------------------------------------------------------------
Answered(c, kind) == stage[c] = "wait" /\ answer[c] # <<>> /\ answer[c].kind = kind

\* The server issues a token; the answer is under way.
ASIssues(c) ==
    /\ stage[c] = "wait" /\ answer[c] = <<>>
    /\ \E life \in Lifetimes :
         answer' = [answer EXCEPT ![c] = [kind |-> "issued", issued |-> clock, life |-> life]]
    /\ UNCHANGED <<clock, cache, req, stage, leg, attempt, sentAt, result, doneAt, events>>

\* The server refuses: an OAuth error (or 200 without a token), a demand for a DPoP
\* nonce with the nonce in the header, a 5xx or a body that does not decode.
ASRefuses(c) ==
    /\ stage[c] = "wait" /\ answer[c] = <<>>
    /\ \E kind \in Refusals :
         answer' = [answer EXCEPT ![c] = [kind |-> kind, issued |-> 0, life |-> 0]]
    /\ UNCHANGED <<clock, cache, req, stage, leg, attempt, sentAt, result, doneAt, events>>

-----------------------------------------------------------------------------
\* token: ExpiresAt counts from the receipt; the zero time without expires_in.
Expiry(life) == IF life > 0 THEN clock + life ELSE 0

issuedToken(c) ==
    [for |-> req[c], by |-> c, issued |-> answer[c].issued, life |-> answer[c].life,
     ExpiresAt |-> Expiry(answer[c].life), Scopes |-> "issued"]

\* Provide: the ID-JAG goes on to the Resource AS, where do starts afresh.
ReceiveIDJAG(c) ==
    /\ Answered(c, "issued")
    /\ leg[c] < Legs(req[c])
    /\ stage' = [stage EXCEPT ![c] = "post"]
    /\ leg' = [leg EXCEPT ![c] = @ + 1]
    /\ attempt' = [attempt EXCEPT ![c] = 0]
    /\ answer' = [answer EXCEPT ![c] = <<>>]
    /\ UNCHANGED <<clock, cache, req, sentAt, result, doneAt, events>>

\* Faulty variant: the audit event is only recorded for cached tokens.
ReceiveTokenQuiet(c) ==
    /\ Answered(c, "issued")
    /\ leg[c] = Legs(req[c])
    /\ LET tok == issuedToken(c) IN
       IF Cacheable(req[c]) /\ tok.ExpiresAt # 0
       THEN cache' = Put(cache, cacheKey(req[c]), tok) /\ Finish(c, tok, <<"granted">>)
       ELSE UNCHANGED cache /\ Finish(c, tok, <<>>)
    /\ answer' = [answer EXCEPT ![c] = <<>>]

\* The requested token arrives: it is cached if it has an expiry, and the pointer that
\* went into the cache is the one returned.
ReceiveToken(c) ==
    /\ Answered(c, "issued")
    /\ leg[c] = Legs(req[c])
    /\ LET tok == issuedToken(c) IN
       /\ cache' = IF Cacheable(req[c]) /\ tok.ExpiresAt # 0
                   THEN Put(cache, cacheKey(req[c]), tok) ELSE cache
       /\ Finish(c, tok, <<"granted">>)
    /\ answer' = [answer EXCEPT ![c] = <<>>]

\* Faulty variant: every demand for a nonce is followed as if it were the first.
ReceiveNonceDemandAlways(c) ==
    /\ Answered(c, "use_dpop_nonce")
    /\ stage' = [stage EXCEPT ![c] = "post"]
    /\ attempt' = [attempt EXCEPT ![c] = 1]
    /\ answer' = [answer EXCEPT ![c] = <<>>]
    /\ UNCHANGED <<clock, cache, req, leg, sentAt, result, doneAt, events>>

\* The first demand for a nonce is followed once, with the server's nonce.
ReceiveNonceDemand(c) ==
    /\ Answered(c, "use_dpop_nonce")
    /\ attempt[c] = 0
    /\ stage' = [stage EXCEPT ![c] = "post"]
    /\ attempt' = [attempt EXCEPT ![c] = 1]
    /\ answer' = [answer EXCEPT ![c] = <<>>]
    /\ UNCHANGED <<clock, cache, req, leg, sentAt, result, doneAt, events>>

\* An OAuth error, a second demand for a nonce, or a server that is unavailable.
ReceiveRefusal(c) ==
    /\ \/ Answered(c, "rejected") \/ Answered(c, "unavailable")
       \/ Answered(c, "use_dpop_nonce") /\ attempt[c] = 1
    /\ Finish(c, <<>>, IF answer[c].kind = "unavailable" THEN <<"error">> ELSE <<"denied">>)
    /\ answer' = [answer EXCEPT ![c] = <<>>]
    /\ UNCHANGED cache

-----------------------------------------------------------------------------
\* The caller changes the token it was given; where that is the cached pointer, the
\* entry changes with it.
CallerChanges(c) ==
    /\ TokensChanged
    /\ stage[c] = "done" /\ result[c] # <<>> /\ result[c].Scopes = "issued"
    /\ result' = [result EXCEPT ![c].Scopes = "changed"]
    /\ cache' = [k \in DOMAIN cache |->
                    IF result[c].by = c /\ cache[k].by = c
                    THEN [cache[k] EXCEPT !.Scopes = "changed"] ELSE cache[k]]
    /\ UNCHANGED <<clock, req, stage, leg, attempt, sentAt, answer, doneAt, events>>

Client(c) ==
    \/ NoSubjectToken(c) \/ CacheHit(c) \/ CacheMiss(c) \/ Post(c) \/ Unavailable(c)
    \/ ReceiveIDJAG(c) \/ ReceiveToken(c) \/ ReceiveNonceDemand(c) \/ ReceiveRefusal(c)

Server(c) == ASIssues(c) \/ ASRefuses(c)

Terminating == (\A c \in Calls : stage[c] = "done") /\ UNCHANGED vars

Next ==
    \/ Tick
    \/ \E c \in Calls : Client(c) \/ Server(c) \/ CallerChanges(c)
    \/ Terminating

Spec == Init /\ [][Next]_vars

\* A call's goroutine keeps running, and the HTTP client's timeout ends a POST that
\* gets no answer; servers need not answer.
FairSpec == Spec /\ \A c \in Calls : WF_vars(Client(c))

-----------------------------------------------------------------------------
TypeOK ==
    /\ clock \in Nat
    /\ DOMAIN cache \subseteq Keys /\ cache \in [DOMAIN cache -> Token]
    /\ req \in [Calls -> Requests]
    /\ stage \in [Calls -> {"start", "post", "wait", "done"}]
    /\ leg \in [Calls -> {1, 2}]
    /\ attempt \in [Calls -> {0, 1}]
    /\ sentAt \in [Calls -> Nat]
    /\ answer \in [Calls -> [kind : {"issued"} \cup Refusals, issued : Nat, life : Nat] \cup {<<>>}]
    /\ result \in [Calls -> Token \cup {<<>>}]
    /\ doneAt \in [Calls -> Nat]
    /\ events \in [Calls -> Seq(Outcomes)]

Served(c) == stage[c] = "done" /\ result[c] # <<>>
FromCache(c) == Served(c) /\ result[c].by # c

\* cache.go:16-17, exchanger.go:58, 62: ExpiresAt counts from when the answer came in, so
\* it is late by the time the answer took.  The leeway absorbs that as long as it is no
\* shorter than the HTTP timeout: a token served from the cache has not expired at its
\* issuer.
CachedTokenLive ==
    HTTPTimeout <= Leeway =>
        \A c \in Calls : FromCache(c) => doneAt[c] < result[c].issued + result[c].life

\* ARCHITECTURE.md:363-365, exchanger.go:251-254: whatever other calls do meanwhile, a call
\* is served a token that was issued for a subject token of its own caller, for its
\* audience, scopes and, in an exchange, token types, although subjects may contain the
\* separator of the joined key; without a subject it is the token of its own exchange.
\* Which resource and actor token it was issued for is not part of this.
ServedOwnCaller ==
    \A c \in Calls :
        Served(c) =>
            LET q == result[c].for
                r == req[c]
            IN  /\ q.kind = r.kind /\ q.SubjectToken.sub = r.SubjectToken.sub
                /\ q.Audience = r.Audience /\ sorted(q.Scope) = sorted(r.Scope)
                /\ r.kind = "exchange" => /\ q.SubjectTokenType = r.SubjectTokenType
                                          /\ q.RequestedTokenType = r.RequestedTokenType
                /\ r.Subject = <<>> => result[c].by = c

\* exchanger.go:77-78 for calls that have a subject token: one event, granted exactly when
\* the call returned a token.
AuditedOnce ==
    \A c \in Calls :
        req[c].SubjectToken # Nil =>
            IF stage[c] = "done"
            THEN Len(events[c]) = 1 /\ (events[c][1] = "granted" <=> result[c] # <<>>)
            ELSE events[c] = <<>>

\* exchanger.go:181-184: at most one retry per endpoint and a timeout on each POST: a call
\* returns even if the server demands nonces for ever or never answers.
CallsReturn == \A c \in Calls : <>(stage[c] = "done")

\* cache.go:49-50: "a caller mutating the Token struct or its Scopes slice cannot corrupt
\* the shared cache entry".
EntriesAsIssued == \A k \in DOMAIN cache : cache[k].Scopes = "issued"
=============================================================================
