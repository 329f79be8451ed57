---------------------------- MODULE HTTPMiddleware ----------------------------
(***************************************************************************)
(* transport/http: the middleware chain of one request (bearer, Validate,  *)
(* DPoP, rate limit, nonce rotation, handler) with a DPoP client that      *)
(* follows the nonce protocol and Retry-After, over a network that may     *)
(* lose a request or an answer, deliver a request more than once, and      *)
(* deliver it late: after the client has had its answer and has sent the   *)
(* next request.                                                           *)
(*                                                                         *)
(* A client goes on for ever, so time is relative: now counts the ticks of *)
(* the current second, each time a second is over the seconds in the       *)
(* nonces move one back, and a proof has the ticks that are left of its    *)
(* iat window.  The code only looks at differences.  A pass takes no time  *)
(* here; Gateway has passes that take time.                                *)
(***************************************************************************)
EXTENDS SignedNonce

CONSTANTS
    Settings,   \* what surrounds the middleware: a set of Setting records
    IATLeeway,  \* the verifier's iatLeeway, in ticks
    MaxBlock,   \* the longest the RateLimiter keeps a subject out
    MaxRTT      \* from issuing a nonce to the arrival of the request that carries it

\* The codes of the errors of extractBearer and Validate, verifiers included; unclassified
\* stands for an error that is no *auth.Error.
TokenErrors == {"missing_token", "invalid_token", "expired_token", "forbidden",
                "insufficient_scope", "introspection_unavailable", "unclassified"}

\* What extractBearer and Validate may come to, whether there is a RateLimiter, whether
\* IssueNonce may return "", and whether messages are lost and duplicated.
Setting == [bearers : SUBSET ({"valid"} \cup TokenErrors), limited : BOOLEAN,
            rngFails : BOOLEAN, lossy : BOOLEAN]

ASSUME MiddlewareAssumption ==
    /\ Settings \subseteq Setting
    /\ IATLeeway \in Nat /\ MaxBlock \in Nat /\ MaxRTT \in Nat

VARIABLES
    env,         \* the setting, fixed at the start
    now,         \* the tick of the current second
    held,        \* the nonce the client holds
    client,      \* the client: "idle", "sent" or "served"
    wait,        \* ticks until the client may send again, by Retry-After
    told,        \* whether the client's latest answer had a Retry-After
    block,       \* ticks until the RateLimiter admits the client's subject
    bearer,      \* what the request's Authorization header comes to
    nonce,       \* the nonce in the request's proof
    window,      \* ticks until iat + leeway of the proof, negative when it is past
    recorded,    \* whether the replay cache has been given the proof's jti
    copies,      \* copies of the request on their way to the server
    stray,       \* an earlier request of which copies are on their way, <<>> for none
    resp,        \* the answer on its way back, <<>> for none
    age,         \* ticks since the latest challenge was issued
    challenges,  \* nonce challenges the client has answered for this request
    answered,    \* history: the server has answered a copy of the request
    late         \* history: what has run the handler out of turn since the latest Send

httpVars == <<env, now, held, client, wait, told, block, bearer, nonce, window, recorded, copies, stray,
              resp, age, challenges, answered, late>>

\* The seconds that matter: older nonces are all alike.
Oldest  == -((NonceLifetime \div TicksPerSecond) + 2)
Earlier(n) == IF n.mac /\ n.issued > Oldest THEN [n EXCEPT !.issued = @ - 1] ELSE n

\* A nonce when tick t of a second begins.
Aged(n, t) == IF t = 0 THEN Earlier(n) ELSE n

\* verifier.IssueNonce: "" when the random source fails.
IssueNonce == {Issue(now)} \cup (IF env.rngFails THEN {NoNonce} ELSE {})

HTTPInit ==
    /\ env \in Settings
    /\ now = 0
    /\ held = NoNonce
    /\ client = "idle"
    /\ wait = 0 /\ told = FALSE
    /\ block \in IF env.limited THEN 0 .. MaxBlock ELSE {0}
    /\ bearer = "valid"
    /\ nonce = NoNonce
    /\ window = -1
    /\ recorded = FALSE
    /\ copies = 0 /\ stray = <<>>
    /\ resp = <<>>
    /\ age = 0 /\ challenges = 0
    /\ answered = FALSE /\ late = "no"

\* A challenge is on its way to the client, or the client is answering one.
Challenged == challenges > 0 \/ (resp # <<>> /\ resp.error = "use_dpop_nonce")

Less(d) == IF d > 0 THEN d - 1 ELSE 0

\* The windows that are over are all alike.
Closer(w) == IF w >= 0 THEN w - 1 ELSE -1

\* Time passes; the answer to a challenge arrives within MaxRTT, and over a good network a
\* request arrives while its proof is fresh.
Elapse ==
    /\ Challenged => age < MaxRTT
    /\ ~env.lossy /\ copies > 0 => window > 0
    /\ now' = (now + 1) % TicksPerSecond
    /\ age' = IF Challenged THEN age + 1 ELSE 0
    /\ wait' = Less(wait) /\ block' = Less(block)
    /\ window' = Closer(window)
    /\ held' = Aged(held, now') /\ nonce' = Aged(nonce, now')
    /\ resp' = IF resp = <<>> THEN resp ELSE [resp EXCEPT !.nonce = Aged(@, now')]
    /\ stray' = IF stray = <<>> THEN stray
                ELSE [stray EXCEPT !.nonce = Aged(@, now'), !.window = Closer(@)]
    /\ UNCHANGED <<env, client, told, bearer, recorded, copies, challenges, answered, late>>

-----------------------------------------------------------------------------
\* The client makes a proof (a new jti, the current second as its iat, the nonce it holds)
\* and sends the request.  Copies of one earlier request with a valid token are followed.
Send ==
    /\ client = "idle" /\ wait = 0
    /\ client' = "sent" /\ told' = FALSE
    /\ bearer' \in env.bearers
    /\ nonce' = held
    /\ window' = IATLeeway - now
    /\ recorded' = FALSE
    /\ copies' = 1
    /\ \/ stray' = stray
       \/ /\ copies > 0 /\ bearer = "valid"
          /\ stray' = [nonce |-> nonce, window |-> window, recorded |-> recorded]
    /\ answered' = FALSE /\ late' = "no"
    /\ UNCHANGED <<env, now, held, wait, block, resp, age, challenges>>

\* The network drops a request or an answer, or repeats a request; the client's
\* connection repeats a request that got no answer.
Lose      == env.lossy /\ copies > 0 /\ copies' = copies - 1 /\ UNCHANGED resp
LoseReply == env.lossy /\ resp # <<>> /\ resp' = <<>> /\ UNCHANGED copies
Repeat    == env.lossy /\ client = "sent" /\ copies < 2 /\ copies' = copies + 1 /\ UNCHANGED resp

Network ==
    /\ Lose \/ LoseReply \/ Repeat
    /\ UNCHANGED <<env, now, held, client, wait, told, block, bearer, nonce, window, recorded, stray, age,
                   challenges, answered, late>>

\* What the client does with an answer.
Receive ==
    /\ client = "sent" /\ resp # <<>>
    /\ held' = IF resp.nonce = NoNonce THEN held ELSE resp.nonce
    /\ client' = IF resp.status = 200 THEN "served" ELSE "idle"
    /\ wait' = resp.RetryAfter * TicksPerSecond
    /\ told' = (resp.RetryAfter > 0)
    /\ challenges' = IF resp.error # "use_dpop_nonce" \/ resp.nonce = NoNonce THEN 0
                     ELSE IF challenges < 2 THEN challenges + 1 ELSE 2
    /\ resp' = <<>>
    /\ UNCHANGED <<env, now, block, bearer, nonce, window, recorded, copies, stray, age, answered, late>>

\* The client gives a request up.
GiveUp ==
    /\ env.lossy /\ client = "sent" /\ copies = 0 /\ resp = <<>>
    /\ client' = "idle"
    /\ challenges' = 0
    /\ UNCHANGED <<env, now, held, wait, told, block, bearer, nonce, window, recorded, copies, stray, resp,
                   age, answered, late>>

\* The client turns to its next request.
NextRequest ==
    /\ client = "served"
    /\ client' = "idle"
    /\ UNCHANGED <<env, now, held, wait, told, block, bearer, nonce, window, recorded, copies, stray, resp,
                   age, challenges, answered, late>>

-----------------------------------------------------------------------------
HTTPStatus(code) ==
    CASE code \in {"missing_token", "invalid_token", "expired_token", "invalid_dpop_proof",
                    "use_dpop_nonce"} -> 401
      [] code \in {"forbidden", "insufficient_scope"} -> 403
      [] code = "rate_limit_exceeded" -> 429
      [] code = "introspection_unavailable" -> 503

\* The challenge: the scheme and the error parameter, "" for none.
buildWWWAuthenticate(code) ==
    CASE code \in {"invalid_token", "expired_token"}       -> <<"Bearer", "invalid_token">>
      [] code = "insufficient_scope"                       -> <<"Bearer", code>>
      [] code \in {"invalid_dpop_proof", "use_dpop_nonce"} -> <<"DPoP", code>>
      [] OTHER                                             -> <<"Bearer", "">>

OK == [status |-> 200, scheme |-> "", error |-> ""]

\* An error that is no *auth.Error is a 500 without a challenge.
writeAuthError(code) ==
    IF code = "unclassified" THEN [status |-> 500, scheme |-> "", error |-> ""]
    ELSE LET challenge == buildWWWAuthenticate(code)
         IN  [status |-> HTTPStatus(code), scheme |-> challenge[1], error |-> challenge[2]]

\* Faulty variant: the part of a second that is left is dropped.
setRetryAfterFloor(d) == d \div TicksPerSecond

\* The duration in whole seconds, rounded up; 0 for no header.
setRetryAfter(d) == (d + TicksPerSecond - 1) \div TicksPerSecond

\* Enforce on a proof with the nonce n, w ticks before the end of its window, that the cache
\* has been given or not.  The cache forgets a jti at the end of the window, where the proof
\* is still fresh.
Enforce(n, w, rec) ==
    IF w < 0 THEN "invalid_dpop_proof"
    ELSE IF ~Validate(n, now) THEN "use_dpop_nonce"
    ELSE IF rec /\ w > 0 THEN "invalid_dpop_proof"
    ELSE "ok"

\* One pass of the current request through the middleware, with what it writes.
Answer(written, n, retryAfter) ==
    /\ copies > 0
    /\ copies' = copies - 1
    /\ resp' = IF client = "sent" /\ resp = <<>>
               THEN [ status |-> written.status, scheme |-> written.scheme, error |-> written.error,
                      nonce |-> n, RetryAfter |-> retryAfter ]
               ELSE resp
    /\ age' = IF written.error = "use_dpop_nonce" /\ resp' # resp THEN 0 ELSE age
    /\ answered' = TRUE
    /\ UNCHANGED <<env, now, held, client, wait, told, bearer, nonce, window, stray, challenges>>

\* extractBearer fails: there is no Authorization header, or it has another form.
HandleMissing ==
    /\ bearer = "missing_token"
    /\ Answer(writeAuthError("missing_token"), NoNonce, 0)
    /\ UNCHANGED <<block, recorded, late>>

\* Validate fails: no DPoP check, no nonce.
HandleInvalid ==
    /\ bearer \notin {"valid", "missing_token"}
    /\ Answer(writeAuthError(bearer), NoNonce, 0)
    /\ UNCHANGED <<block, recorded, late>>

\* Faulty variant: the challenge comes without the nonce to retry with.
HandleNonceSilent ==
    /\ bearer = "valid"
    /\ Enforce(nonce, window, recorded) = "use_dpop_nonce"
    /\ Answer(writeAuthError("use_dpop_nonce"), NoNonce, 0)
    /\ UNCHANGED <<block, recorded, late>>

\* Enforce asks for a nonce.
HandleNonce ==
    /\ bearer = "valid"
    /\ Enforce(nonce, window, recorded) = "use_dpop_nonce"
    /\ \E n \in IssueNonce : Answer(writeAuthError("use_dpop_nonce"), n, 0)
    /\ UNCHANGED <<block, recorded, late>>

\* Enforce finds the proof stale or used.
HandleRefused ==
    /\ bearer = "valid"
    /\ Enforce(nonce, window, recorded) = "invalid_dpop_proof"
    /\ Answer(writeAuthError("invalid_dpop_proof"), NoNonce, 0)
    /\ UNCHANGED <<block, recorded, late>>

\* Faulty variant: the limiter is asked before the proof is recorded.
HandleLimitedFirst ==
    /\ bearer = "valid"
    /\ Enforce(nonce, window, recorded) = "ok"
    /\ block > 0
    /\ Answer(writeAuthError("rate_limit_exceeded"), NoNonce, setRetryAfter(block))
    /\ UNCHANGED <<block, recorded, late>>

\* The rate limiter refuses, after Enforce has recorded the proof, and says for how long.
HandleLimited ==
    /\ bearer = "valid"
    /\ Enforce(nonce, window, recorded) = "ok"
    /\ block > 0
    /\ recorded' = TRUE
    /\ Answer(writeAuthError("rate_limit_exceeded"), NoNonce, setRetryAfter(block))
    /\ UNCHANGED <<block, late>>

\* The rate limiter admits the request and may keep the subject out from now on.
Allow == block = 0 /\ block' \in IF env.limited THEN 0 .. MaxBlock ELSE {0}

\* The handler runs: on a proof the cache has just forgotten, or on a request that the
\* server has answered before, or on neither.
Ran(w, rec, before) == IF rec /\ w = 0 THEN "edge" ELSE IF before THEN "yes" ELSE late

\* The handler runs, with a fresh nonce on the response.
HandleServe ==
    /\ bearer = "valid"
    /\ Enforce(nonce, window, recorded) = "ok"
    /\ Allow
    /\ recorded' = TRUE
    /\ late' = Ran(window, recorded, answered)
    /\ \E n \in IssueNonce : Answer(OK, n, 0)

\* A copy of an earlier request comes, the last one or not; nobody waits for its answer.
HandleStray ==
    /\ stray # <<>>
    /\ LET verdict == Enforce(stray.nonce, stray.window, stray.recorded)
       IN  \/ verdict # "ok" /\ stray' = <<>> /\ UNCHANGED <<block, late>>
           \/ /\ verdict = "ok"
              /\ stray' \in {<<>>, [stray EXCEPT !.recorded = TRUE]}
              /\ \/ block > 0 /\ UNCHANGED <<block, late>>
                 \/ Allow /\ late' = Ran(stray.window, stray.recorded, TRUE)
    /\ UNCHANGED <<env, now, held, client, wait, told, bearer, nonce, window, recorded, copies, resp, age,
                   challenges, answered>>

Handle ==
    \/ HandleMissing \/ HandleInvalid \/ HandleNonce \/ HandleRefused \/ HandleLimited \/ HandleServe

HTTPNext == Elapse \/ Send \/ Network \/ Receive \/ GiveUp \/ NextRequest \/ Handle \/ HandleStray

HTTPSpec == HTTPInit /\ [][HTTPNext]_httpVars

\* The server keeps serving, the client keeps going and time passes.
HTTPFairSpec ==
    /\ HTTPSpec
    /\ WF_httpVars(Elapse) /\ WF_httpVars(Handle)
    /\ WF_httpVars(Send) /\ WF_httpVars(Receive) /\ WF_httpVars(NextRequest)

-----------------------------------------------------------------------------
\* middleware.go:107-136: the first answer to a request decides.  Once the server has answered
\* a copy of it with 200, a nonce challenge, a refused proof or a Retry-After, no copy that
\* comes later runs the handler, so that the client may do as it was told and send the
\* request anew.  The last instant of the window is the exception: there the proof is fresh
\* and the cache has forgotten it.
AnswerIsFinal == late # "yes"

\* middleware.go:116-124: a challenge is enough.  If the answer to it arrives while at least
\* the second that Issue truncates is left of the lifetime, it is not challenged again.
OneChallenge == MaxRTT + TicksPerSecond - 1 <= NonceLifetime => challenges <= 1

\* middleware.go:277-290: Retry-After is long enough.  Once a client has waited for as long
\* as it was told, the limiter admits it, unless others, or a copy of a request of its own
\* at the last instant of its window, use up what its subject has.
RetryAfterEnough == client = "idle" /\ told /\ wait = 0 /\ late # "edge" => block = 0

\* Requests and answers arrive, with a valid token and a working random source.
Calm == env.bearers = {"valid"} /\ ~env.rngFails /\ ~env.lossy

\* middleware.go:116-124, 129-136, 142-147: with challenges, Retry-After and rotation, a client
\* whose requests arrive is always served again, although a nonce may go stale while it
\* waits for the limiter.
AlwaysServed == Calm => []<>(client = "served")
=============================================================================
