# A verification of mcp-auth-go in TLA+

mcp-auth-go is an authentication library for MCP servers written in Go. It validates
bearer tokens (JWT or by introspection), enforces DPoP proofs, keeps sessions, gates
tools by policy, and fetches downstream tokens by token exchange. This directory models
its stateful parts in TLA+, checks them with TLC on small instances and proves every
safety property that those runs check with TLAPS, for every value of the constants.

## The system and its parts

| part | source | state | operations | what is hard about it |
|---|---|---|---|---|
| session store | `session.go`, `session_id.go` | a map from id to user and last use, under a mutex | Open, Touch, Close, Count | callers read the clock before they get the mutex |
| replay cache | `dpop/replay.go` | a map from jti and htu, joined, to an expiry | SeenBefore with an inline sweep | forgetting neither too early nor never; a jti that holds the separator |
| DPoP verifier, nonces | `dpop/verifier.go`, `proof.go`, `nonce.go` | none but the replay cache | Enforce, Issue, Validate | two clock readings per call; whole seconds in nonces |
| Redis replay cache | `dpop/redisreplay/` | keys with a TTL in a shared store | SeenBefore | skewed clocks; lost, late and resent commands; fail modes |
| token exchange | `exchange/` | a token cache | Exchange, TokenForCaller, Provide | concurrent misses, a joined key, one nonce retry per leg, two legs, audit |
| introspection | `introspection/` | a cache of verdicts | Validate | revocation while an answer or a cached verdict is in use |
| HTTP middleware | `transport/http/middleware.go` | the limiter it is given | one pass per request | lost, repeated and late messages; concurrent passes; a rate limit after the proof is used up |
| MCP bearer middleware | `transport/mcpauth/` | one writer per response | WriteHeader, Write, Unwrap | headers must be set before the first commit, whoever causes it |
| caller in the context | `context.go`, `transport/mcpauth/context.go`, `verifier.go` | two context keys, the SDK's TokenInfo | the bridge and the readers | who is the caller, on each transport |
| tool gate, policies | `toolgate.go`, `authorizer.go` | none but the audit trail | tools/call, tools/list | listing, calling and auditing must agree |
| audit | `audit/` | what sinks recorded | Record | a sink that panics; a span that is not recording |
| JWT validators | `validator.go`, `multivalidator.go` | the cached key sets | Validate, refresh | key rotation; routing on an unverified issuer; verifiers that take time |
| claims and verifiers | `claims.go`, `verifier.go` | none | claimsFromToken, the verifiers | two forms of the scope claim; verifiers read the token, registered claims included, handlers the claims |

Interactions: the verifier calls the replay cache and the nonce source; the middlewares
call a validator, then the verifier, then the rate limiter, and leave claims and raw
token in the context; the tool gate and TokenForCaller read them there; the gate and the
exchanger record events. `PROJECT.json` lists all components, modelled or not, and the
hazards of each at their lines.

## Modules

| module | models | extends |
|---|---|---|
| `SessionStore` | memoryStore; a call is begun (clock read) and later runs under the mutex | |
| `ReplayCache` | what the ReplayCache interface promises (abstract) | |
| `MemoryReplayCache` | the map and the sweep; `window` is the refinement mapping | instantiates `ReplayCache` |
| `SignedNonce` | Issue and Validate, with whole seconds | |
| `DPoPVerifier` | Enforce and checkProof in two steps, one per clock reading | the two above |
| `Gateway` | concurrent passes of the HTTP middleware: Validate, Enforce, limiter, handler | `DPoPVerifier` |
| `HTTPMiddleware` | one pass with its status, challenge and Retry-After; a client that follows them; the network, with copies that come late | `SignedNonce` |
| `RedisReplayCache` | SeenBefore on several replicas, Redis and the connection to it | |
| `Claims` | claimsFromToken, scopesFromToken, splitScopes, the claim verifiers | |
| `RequestContext` | the context keys, TokenInfo, ContextBridge and the readers | `Claims` |
| `Exchanger` | Exchange, TokenForCaller and Provide, POST by POST, with servers that answer or not | `RequestContext` |
| `Introspection` | Validate and the cache, with a server that revokes | `Claims` |
| `Validators` | MultiValidator and Validator over rotating key sets; reading the keys, parsing and each verifier are steps of their own | `Claims` |
| `Authorizer` | policies and their evaluation on Claims | `Claims` |
| `Audit` | events, their labels, NewMultiSink and its fan-out | |
| `ToolGate` | gateCall and filterList | `Authorizer`, `Audit`, `RequestContext` |
| `ChallengeWriter` | newVerifierFunc, the SDK's answers, challengeWriter | |
| `DPoPProofs` | theorems on the memory cache, the verifier and the middleware over it | `Gateway` |
| `RedisReplayCacheProofs` | theorems on the Redis cache | `RedisReplayCache` |
| `RequestProofs` | theorems on the exchanger, and on the middleware as its client sees it | `Exchanger`, `HTTPMiddleware` |
| `TransportProofs` | theorems on sessions, and on the challenge writer | `SessionStore`, `ChallengeWriter` |
| `IntrospectionProofs`, `ValidatorsProofs` | theorems on the two kinds of validators | the module of that name, `ClaimsProofs` |
| `ClaimsProofs` | what the loops of `claims.go` compute, and the induction for it | `Claims` |
| `ToolGateProofs` | theorems on policies, the gate and its audit trail | `ToolGate`, `ClaimsProofs` |
| `MC*` | the sets and symmetries of the runs | the module of that name |

Two specifications that one proof module extends share neither variables nor definitions;
the names of their parts are prefixed for that reason (`HTTPSpec`, `WriterSpec`,
`GateSpec`).

The middleware is modelled twice, with different questions. `Gateway` has several
requests in flight that share the replay cache and the limiter, with iat windows and
access token expiries; it implements `DPoPVerifier`. `HTTPMiddleware` has one client
and all answers, and time without end, for what a client experiences. It follows the
request that the client works on and the copies of one earlier request, each with its
own nonce, its own iat window and its own entry in the replay cache, which forgets the
entry when the window ends.

One action is one stretch of code that nothing else can interleave with: a critical
section, or the code between two network messages or clock readings. Variables have the
names of the fields they stand for; variables marked *history* occur in no guard.
Operators marked *faulty variant* are used by no action; each is a slip that one of the
properties must notice, and `PROJECT.json` pairs them.

Data is abstract. Tokens, keys and ids are model values or small records; hashes are
injective; the checks on a JWS are one predicate of the proof (`wellFormed`); error
values are their codes. Text is a sequence of characters only where the code cuts or
joins it: scopes, audiences and the parts of the two joined cache keys. JSON values keep
their type (`Claims`), because the code ignores members of the wrong one. External code
is modelled from how it is used here: net/http's commit rules, the MCP SDK's 401 and
403, Redis's SET NX, the authorization servers, a rate limiter that names the time after
which it admits again, and jwx's parsing and key cache.

## Runs

Sizes are distinct states. Passing runs check for deadlock; where the calls of an
instance can all be over, a `Terminating` (or `Done`) step says so.

| run | states | question and answer |
|---|---|---|
| `sessions` | 406,709 | Do late clock readings break the cap or the timeout? The cap holds; a session is reaped at most the lag early; no refusal is caused by an expired session; nothing comes back. |
| `sessions_stale_touch` | violated | Does Touch keep an active session alive (`session.go:23-24`)? Not if a Touch with an older reading gets the mutex last. |
| `dpop` | 770,005 | Concurrent requests through the middleware: is a proof accepted once? While its window is open, yes; it is refused only if it was used; only accepted proofs are recorded or charged to a subject's budget; the map answers as the interface promises. |
| `redis` | 1,124,590 | The same across replicas, both fail modes, also for proofs that share a jti. Fail-closed: once, up to the skew and a millisecond before the deadline; and of those that present one proof in time, one is told first sight. |
| `exchange` | 829,311 | Three concurrent calls, with and without a cache identity: are cached tokens live at their issuer? Yes. |
| `provide` | 243,181 | Is each call served a token of its own caller, although subjects may hold the separator; is it audited once; does it return, whatever the servers do? Yes. |
| `exchange_shared_entry` | violated | Is the cache safe from callers that change their token (`exchange/cache.go:49-50`)? Not from the one whose call filled the entry: Set keeps the pointer that Exchange returns. |
| `introspection` | 96,538 | With and without cache: is a token accepted after revocation or expiry? Only from a fresh cached verdict, and at most the skew after exp. Are the claims those of the server, whatever callers do with theirs? Yes. |
| `http` | 246,305 | Once the server has answered a request, can a late copy of it still run the handler? Only at the last instant of the proof's window. Is one challenge enough, is Retry-After long enough, is the client always served again? Yes; the last on a network that delivers. |
| `challenge` | 166 | Are the headers right whatever the handler does first? Yes for challenges; a success has the rotated nonce exactly if the response begins with Write or a final WriteHeader. |
| `validators` | 328,848 | Is a token bound to the issuer it names, under key rotation? Yes; a dropped key is refused by every later read. Do the claims meet what the verifiers demanded, and has a refusal the cause that its code names? Yes. |
| `toolgate` | 105,846 | Do listing, calling and auditing agree with the policies, read as formulas on the token, through every way the token reaches the gate, also as scopes are gained, sinks panic and spans are not recorded? Yes. |

### Bounds

Every clock is bounded by `MaxTime`, chosen so that the windows and lifetimes
of the instance end inside it. Two or three calls are in flight: one to fill, one to
overwrite or expire, one to observe. The theorems are for any number of them; the
instances matter for liveness, for showing that the hypotheses can be met and that the
properties can fail (the faulty variants). `Expiries` are the deadlines of the instance's
proofs. The proofs of `redis` come in pairs with one jti and different iat. The sweep
threshold is 1 so that two entries trigger it. The caches' leeway, skew, delay and HTTP
timeout are a tick each; a second is two or three ticks and a millisecond two, so
that truncation shows. `Budget` is 1, so that one of three requests is limited.
`MaxRetries`, `MaxOps` and `MaxCalls` bound the resends, writes and tool calls; two tool
calls are one that a panic cuts short and one that is answered.
`HTTPMiddleware` needs no bound on time: it is relative to the current second. Its
`IATLeeway` is four ticks, so that a limiter's wait and a nonce can end inside a proof's
window and after it.
Symmetry is only over ids that no operation tells apart, and never used with a liveness
property.

The texts of an instance contain what could confuse the code: a jti and a subject that
hold the separator and would collide without it, scope claims with leading and doubled
spaces and in the list form with a number in it, an audience that is a prefix of
another, JSON members that are null.

Some settings are variables chosen in `Init` and never changed (`failMode`, `cached`,
`env`, the gate's policies), so that one run covers each choice.

### Fairness

`Exchanger!FairSpec`: each call's own steps are weakly fair. The goroutine runs, and the
HTTP client's timeout ends a POST that gets no answer; the servers are not fair.
`HTTPMiddleware!HTTPFairSpec`: time passes, the server handles what arrives and the client
sends and reads. Nothing is assumed of the network; `AlwaysServed` is only claimed where
it loses nothing, tokens are valid and the random source works (`Calm`).

## Theorems

All are for any number of requests, calls, replicas, tools or sinks, and any times and
bounds. Every invariant and action property of a passing run is stated by one of them.

| theorem | states |
|---|---|
| `TransportProofs!CapHolds`, `LagHolds`, `SlidingTimeoutHolds`, `RefusedOnlyAtCapHolds`, `NoRevivalHolds` | the properties of the run `sessions`, for any timeout (zero included), cap and lag |
| `TransportProofs!ChallengeShapedHolds`, `RotatedBeforeCommitHolds`, `CacheControlKeptHolds` | the properties of `challenge`, for any number of handler calls and with or without a nonce source |
| `DPoPProofs!CacheRefinesPromise`, `SweepBoundsMapHolds` | the map with its sweep implements `ReplayCache`, and the sweep bounds it, for any threshold |
| `DPoPProofs!SingleUseHolds`, `FreshHolds`, `RecordedHolds`, `RefusedOnlyIfUsedHolds` | the invariants of the verifier in the run `dpop` |
| `DPoPProofs!NonceLives`, `NonceExpires` | a nonce is valid until a second before its lifetime is over, and invalid after it |
| `DPoPProofs!VerifierImplementsCache`, `GatewayImplementsVerifier` | every run of the middleware is one of the verifier, and every run of the verifier one of the cache, so their theorems carry over |
| `DPoPProofs!GatewaySingleUse`, `GatewayCache`, `OnlyProvenChargedHolds` | what carries over; and the limiter's budget is spent only on proven requests |
| `RedisReplayCacheProofs!SharedSingleUseHolds`, `StoreHoldsAcceptedHolds`, `ExactlyOneFirstSightHolds`, `NoFalseReplayHolds` | the invariants of `redis` |
| `RequestProofs!KeyTellsCallers`, `CachedTokenLiveHolds`, `ServedOwnCallerHolds`, `AuditedOnceHolds` | the joined key is injective in what it must tell apart; the invariants of `exchange` and `provide` |
| `RequestProofs!AnswerIsFinalHolds`, `OneChallengeHolds`, `RetryAfterEnoughHolds` | the invariants of `http`, for any settings, resolution of the clock, leeway, nonce lifetime and limiter |
| `IntrospectionProofs!RevocationHolds`, `InTimeHolds`, `ClaimsAsIssuedHolds` | the properties of `introspection` |
| `ValidatorsProofs!BoundToIssuerHolds`, `DroppedKeyRefusedHolds`, `ClaimsMeetPolicyHolds`, `RefusedForCauseHolds` | the invariants of `validators` |
| `ClaimsProofs!SplitScopesWords`, `ScopesGranted` | `splitScopes` finds the words of its text, for every text; the scopes of the claims are those the token grants |
| `ToolGateProofs!AuthorizeSatisfies` | a policy, however nested, allows the claims of a token exactly if the token satisfies it as a formula |
| `ToolGateProofs!ListedIsCallableHolds`, `GrantedIffPermittedHolds`, `StepUpCanHelpHolds`, `AuditMatchesOutcomeHolds` | the properties of `toolgate`, for any pages, policies, tokens and sinks |

Where the state has an inductive invariant of its own, the module also proves it
(`Invariance`) and the types.

*Sessions.* The inductive invariant adds to the types that a call in flight read its
clock at most `MaxLag` ago (`CallsRecent`) and that no use lies in the future
(`UsesPast`). Without the first, a Touch could store any old time, and `LastSeenLag`
would not be preserved. The cap rests on reaping only taking entries out
(`WithoutShrinks`). `RefusedOnlyAtCap` follows from the step alone: the reap comes
before the count, so what is counted has not timed out.

*Challenge writer.* `WriterInv`: until the response is committed, only a handler has
touched the headers, and a response that began with a final write is committed. Each
call of the handler either commits nothing or commits the injected headers (`Handled`),
and the three properties are read off that.

*Replay cache.* The mapping hides expired entries. The sweep only removes entries the
mapping hides (`SweepKeepsLive`), so it is a stutter.

*Verifier.* `SingleUseInWindow` is not inductive: it needs that the map still holds the
deadline of every accepted proof whose window is open (`AcceptedRemembered`).
`CheckedRecently` bounds the time between the two clock readings, which gives
`AcceptedFresh`. `RefusedOnlyIfUsed` rests on `OnlyAcceptedRecorded` and on the key: what
follows its last separator is the URL (`KeyParts`), so equal keys have equal jtis.

*Gateway.* Validate, the limiter and the handler leave the verifier's variables alone, so
their steps are stutters of it. The budget argument counts: what is left plus the
requests served is the budget (`SpentOnServed`).

*Redis.* A key that was set stays until the store no longer vouches for the proof
(`WinsHeld`), because its TTL was computed from a clock off by at most the skew and cut
by less than a millisecond (`PXBound`); hence of two winners one is late (`OneWinner`).
That there is a winner at all needs the converse: whoever set a key knows it or has given
up (`SetterKnown`), and a request that lost has seen a key that was set
(`RejectedByOther`). The attempt to prove this showed that proofs of one jti with
different iat must be kept apart: the store's key does not have the iat, so the loser may
have been beaten by the other proof. `ExactlyOneFirstSight` is therefore about requests
whose jti occurs in one proof only.

*Exchange.* An entry was put under its own key by a call that is over, and its ExpiresAt
is late by at most the HTTP timeout (`EntriesSound`), because a POST in flight is no
older than that (`FlightSound`). With `KeyTellsCallers` a hit belongs to the caller.

*The client of the middleware.* `AnswerIsFinal` is not inductive: it needs that a request
which was answered is `Settled`, that is, its proof is in the cache, or past its window,
or has a stale nonce. Each answer settles the request, the limiter's because Enforce
recorded the proof before it. Settled stays settled as time goes on: a window does not
open again, and a stale nonce stays stale although the stamps are shifted at a second's
end (`StaleStays`). A copy that comes late is one of a settled request, so Enforce lets
it pass only if it is recorded and its window has no tick left (`EnforceIs`, `RanIs`).
`FinalInv` also says that a Retry-After on its way, or what the client still waits of it,
is at least what the limiter has left. `FreshInv` says of the nonce that answers a challenge that its whole
second is behind the clock by at most its age and a second less a tick (`FreshAt`); it is
kept as time goes on over the second's end, where the model shifts the stamps
(`FreshAges`), and it makes the nonce valid if the round trip is in time (`FreshIsValid`).

*Introspection.* An entry holds what the server said, has an exp, and passed the checks
(`EntriesSound`); an answer in flight was active when the call began if it is active
(`WaitingSound`).

*Validators.* The cached key is one the issuer published, later than every key that was
dropped (`KeysSound`). A call parses with keys of the issuer its token names, none of
them dropped before; what it verifies was signed with one of these, and has passed the
verifiers before the next one (`CallsSound`). From there a verdict is justified when it
is returned, and stays so, since what a call read does not change and time does not go back
(`VerdictsSound`). `ClaimsMeetPolicy` then is about the two readings of one token, by
the verifiers and by claimsFromToken (`HandedOn`).

*Claims.* Loops over text and arrays are recursive functions. The library's induction
theorems take an operator, which the provers cannot instantiate, so `ClaimsProofs` has
its own over sets (`SetInduction`, from the well-foundedness of the numbers) and shows
that a loop has its states (`LoopExists`). The loop of `splitScopes` has at each index
the words that ended before it, and the start of the open one; a word is determined by
its start (`WordUnique`).

*Policies and the gate.* A policy is made of policies made before it, so induction runs
over the order of `Authorizers` (`PolicyInduction`); each constructor agrees with its
formula if its members do. From there a call's outcome is that of the formula
(`EvaluatePermitted`) on each transport (`ContextClaims`), and the listing is by
induction over the pages. The audit trail is an invariant in three parts
(`HandedRecorded`, `RepliesRecorded`, `SinksOrdered`), each kept because a decision
appends one event to a prefix of the sinks, which adds one to the counts that it matches
(`WithAppend`, `CountAppend`). A sink says at least the labels of an event and at most
its attributes (`SaidOfRecorded`), which is why counts by outcome and reason are equal
and those by tool are bounds.

The proofs use the named assumptions on the constants (`TimeAssumption`,
`NameAssumption`, `WriterAssumption`, `CacheAssumption`, `NonceAssumption`,
`VerifierAssumption`, `GatewayAssumption`, `RedisAssumption`, `ExchangeAssumption`,
`RequestsAssumption`, `MiddlewareAssumption`, `IntrospectionAssumption`,
`ValidatorAssumption`, `AuthorizerAssumption`, `GateAssumption`). Those that are more than
types: issuers share no keys; the request URL holds no raw separator, since url.String
escapes it (a URL that url.Parse refuses is left out); audiences and token types hold none
either, and a non-empty Subject of an exchange is that of its subject token; a policy's
members were made before it; the first sink is the slog one, which does not panic.

Only model-checked is liveness (`AlwaysServed`, `CallsReturn`): the prover has neither
fairness nor ENABLED.

## Where code and comments differ

Two runs are counterexamples to a comment (above). These further differences were met
while modelling. The first are the side condition of a property that holds:

- A proof can be accepted again at its last instant: the `iat` window includes
  `iat + leeway` (`dpop/proof.go:105`), the cache's window does not
  (`dpop/replay.go:49`). `SingleUseInWindow` stops at the deadline, and `AnswerIsFinal` and
  `RetryAfterEnough` except what runs at that instant.
- Redis: nothing is stored in the last millisecond (`cache.go:119`), and a SET NX that
  the client library resends can find its own key. `SharedSingleUse` and `NoFalseReplay`
  exclude these.
- A nonce loses up to a second of its lifetime (`dpop/nonce.go:74`); `OneChallenge`
  asks for that second.
- Exchange and Provide record no event if the subject token is empty
  (`exchange/exchanger.go:80`); `AuditedOnce` is about the other calls.
- The exchange cache key has the subject but not its issuer, nor the resource or actor
  token of the request (`exchange/exchanger.go:258`); `ServedOwnCaller` is about subject,
  audience, scopes and token types.
- A flush, a 1xx or an empty response passes the rotation by
  (`transport/mcpauth/challenge.go:95`); `RotatedBeforeCommit` says when it happens.
- Without a recording span the otel sink counts an event but does not name the tool or
  the subject (`audit/otel/sink.go:56`); only the durable sink has them for every call, and
  `AuditMatchesOutcome` asks no more of the others.
- `jwt.Parse` is given no required claim (`validator.go:130`), so a token without an exp
  does not expire, and exp is not looked at again after the verifiers (`validator.go:150`):
  a token that expires while one of them waits for a remote service is accepted. What is
  said of time in `Validators` is therefore that expired_token is only given to a token
  that has expired.
- A required claim named jti, scope or scp is checked in the token and not handed on as
  it is (`claims.go:57-98`); `ClaimsMeetPolicy` leaves these names out of its comparison.

The others are about wording or layout and no property depends on them:

- `transport/http/middleware.go:209-210` has Bearer challenges for all errors but
  invalid_dpop_proof; use_dpop_nonce gets a DPoP challenge too.
- `claims.go:123` splits "on whitespace"; only the space separates. Introspection uses
  strings.Fields.
- `introspection/introspection.go:335-338` says that Raw matches claimsFromToken; a member
  that is null lands in Raw as the empty string, and claimsFromToken drops it.
- `validator.go:28-29` says that refresh intervals below a minute "are clamped"; the code
  replaces them by 15 minutes.
- `errors.go:105-106` promises a Retry-After; it is left out if the wait is not positive.

## Not modelled

- Client authentication for exchange and introspection, protected resource metadata and
  the test JWKS server: stateless decoration of a request, a constant document, a test
  helper. A model would restate the code.
- `requestURL`, `checkURL` and the form of token requests: pure functions on URLs and
  strings with no state and no property here beyond what the library's url package does.
- The JWKS refresh schedule belongs to jwx. When a retired key leaves the cache, and
  whether it does after the construction context has ended, is not promised by this code.
- What slog and OpenTelemetry do with a record.
- Caches shared by components with different settings: an exchange cache given to an
  Exchanger and to a provider, an introspection cache given to validators of different
  audiences. The keys do not name the settings, so each component must have its own.
- `ToolGate` for params of another type than `*CallToolParamsRaw`
  (`toolgate.go:78`): the SDK hands its middleware no other.

What remains is code without state. A useful next step would be the Redis cache as an
implementation of `ReplayCache` up to its slack.
