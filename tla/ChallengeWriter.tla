--------------------------- MODULE ChallengeWriter ---------------------------
(***************************************************************************)
(* transport/mcpauth: RequireBearerToken with DPoP.  newVerifierFunc       *)
(* classifies the request into the challengeState, the SDK's bearer        *)
(* middleware rejects it or runs the handler, and challengeWriter shapes   *)
(* the response.  The handler may call the ResponseWriter in any order,    *)
(* and reach the writer below through Unwrap to flush.                     *)
(*                                                                         *)
(* net/http (external): the first final WriteHeader, Write or Flush        *)
(* commits the headers; what is set later is not sent.                     *)
(***************************************************************************)
EXTENDS Naturals

CONSTANTS
    NonceConfigured, \* whether dpop.Config.Nonce is set
    RNGFails,        \* whether IssueNonce may return ""
    Habits,          \* what else handlers do: "1xx", "flush" first, "empty" responses
    MaxOps           \* bound on the handler's calls on the writer

ASSUME WriterAssumption ==
    /\ {NonceConfigured, RNGFails} \subseteq BOOLEAN
    /\ Habits \subseteq {"1xx", "flush", "empty"}
    /\ MaxOps \in Nat

VARIABLES
    outcome,      \* what newVerifierFunc made of the request
    st,           \* challengeState: isDPoP and code
    wroteHeader,  \* challengeWriter.wroteHeader
    header,       \* the header map
    status,       \* the committed final status, 0 before
    sent,         \* the headers as committed
    first,        \* history: whether the response began with a final "write" or "past" inject
    ops           \* calls the handler has made on the writer

writerVars == <<outcome, st, wroteHeader, header, status, sent, first, ops>>

NoHeader == [challenge |-> "", nonce |-> FALSE, cache |-> ""]

Codes == {200, 204, 302, 401, 500}

WriterInit ==
    /\ outcome = "new"
    /\ st = [isDPoP |-> FALSE, code |-> ""]
    /\ wroteHeader = FALSE
    /\ header = NoHeader
    /\ status = 0
    /\ sent = NoHeader
    /\ first = "none"
    /\ ops = 0

\* verifier.IssueNonce: "" when no source is configured or the random source fails.
Nonces ==
    {x \in BOOLEAN : IF NonceConfigured THEN x \/ RNGFails ELSE ~x}

dpopChallenge(code) == IF code = "use_dpop_nonce" THEN "DPoP use_dpop_nonce" ELSE "DPoP invalid_dpop_proof"

\* Faulty variant: the handler's Cache-Control is overwritten.
rotateNoStore(h) == {[h EXCEPT !.nonce = n, !.cache = "no-store"] : n \in Nonces}

\* Rotation onto a success; the handler's own Cache-Control stays.
rotate(h) ==
    {IF n THEN [h EXCEPT !.nonce = TRUE, !.cache = IF @ = "" THEN "no-store" ELSE @] ELSE h : n \in Nonces}

Is2xx(code) == 200 <= code /\ code < 300

\* Faulty variant: every 401 becomes a DPoP challenge.
injectEvery401(h, code) ==
    IF code = 401
    THEN {[h EXCEPT !.challenge = dpopChallenge(st.code), !.cache = "no-store"]}
    ELSE IF Is2xx(code) /\ NonceConfigured THEN rotate(h)
    ELSE {h}

\* challengeWriter.inject: the header maps it may leave.
inject(h, code) ==
    IF st.isDPoP /\ code = 401
    THEN {[h EXCEPT !.challenge = dpopChallenge(st.code), !.cache = "no-store",
                    !.nonce = @ \/ (st.code = "use_dpop_nonce" /\ n)] : n \in Nonces}
    ELSE IF Is2xx(code) /\ NonceConfigured THEN rotate(h)
    ELSE {h}

\* net/http's WriteHeader: 1xx goes out at once and commits nothing.
Commit(code, h) ==
    IF status = 0 /\ code >= 200
    THEN status' = code /\ sent' = h
    ELSE UNCHANGED <<status, sent>>

\* challengeWriter.WriteHeader on a header map: inject once, then delegate.
WriteHeader(code, h) ==
    /\ wroteHeader' = TRUE
    /\ header' \in IF wroteHeader THEN {h} ELSE inject(h, code)
    /\ Commit(code, header')

\* Faulty variant: the Write of the embedded writer.
WriteDirect(h) == header' = h /\ Commit(200, h) /\ UNCHANGED wroteHeader

\* challengeWriter.Write, and net/http's implicit 200 below it.
Write(h) ==
    IF wroteHeader
    THEN header' = h /\ Commit(200, h) /\ UNCHANGED wroteHeader
    ELSE WriteHeader(200, h)

Began(how) == first' = IF first = "none" THEN how ELSE first

-----------------------------------------------------------------------------
\* Validate fails: the SDK answers 401 with its Bearer challenge.
VerifyInvalid ==
    /\ outcome = "new"
    /\ outcome' = "invalid_token"
    /\ WriteHeader(401, [header EXCEPT !.challenge = "Bearer"])
    /\ Began("write")
    /\ UNCHANGED <<st, ops>>

\* Enforce fails: the failure is classified before the SDK answers 401.
VerifyDPoP(code) ==
    /\ outcome = "new"
    /\ NonceConfigured \/ code # "use_dpop_nonce"
    /\ outcome' = code
    /\ st' = [isDPoP |-> TRUE, code |-> code]
    /\ UNCHANGED <<wroteHeader, header, status, sent, first, ops>>

\* The SDK's answer to an Enforce failure.
RejectDPoP ==
    /\ st.isDPoP /\ status = 0
    /\ WriteHeader(401, [header EXCEPT !.challenge = "Bearer"])
    /\ Began("write")
    /\ UNCHANGED <<outcome, st, ops>>

\* The SDK's own scope check: 403 with its Bearer challenge.
VerifyScope ==
    /\ outcome = "new"
    /\ outcome' = "scope"
    /\ WriteHeader(403, [header EXCEPT !.challenge = "Bearer"])
    /\ Began("write")
    /\ UNCHANGED <<st, ops>>

VerifyOK ==
    /\ outcome = "new"
    /\ outcome' = "ok"
    /\ UNCHANGED <<st, wroteHeader, header, status, sent, first, ops>>

-----------------------------------------------------------------------------
Handler == outcome = "ok" /\ ops < MaxOps /\ ops' = ops + 1 /\ UNCHANGED <<outcome, st>>

\* The handler sets its own Cache-Control, as the SDK does for event streams.
HandlerSets ==
    /\ Handler
    /\ ops + 1 < MaxOps
    /\ header' = [header EXCEPT !.cache = "no-cache"]
    /\ UNCHANGED <<wroteHeader, status, sent, first>>

HandlerWriteHeader(code) == Handler /\ WriteHeader(code, header) /\ Began("write")

HandlerWrite == Handler /\ Write(header) /\ Began("write")

HandlerInforms == "1xx" \in Habits /\ ops + 1 < MaxOps /\ Handler /\ WriteHeader(103, header) /\ Began("past")

\* A Flush reaches the writer below and commits 200 if nothing is committed yet.
HandlerFlush ==
    /\ "flush" \in Habits \/ wroteHeader
    /\ Handler
    /\ Commit(200, header)
    /\ Began("past")
    /\ UNCHANGED <<wroteHeader, header>>

\* The handler returns without a final WriteHeader or a Write, and net/http commits 200
\* on the writer below.
HandlerReturns ==
    /\ "empty" \in Habits
    /\ outcome = "ok" /\ status = 0
    /\ Commit(200, header)
    /\ Began("past")
    /\ UNCHANGED <<outcome, st, wroteHeader, header, ops>>

Done == status # 0 /\ (outcome # "ok" \/ ops = MaxOps) /\ UNCHANGED writerVars

WriterNext ==
    \/ VerifyInvalid \/ VerifyScope \/ VerifyOK \/ RejectDPoP
    \/ \E code \in {"invalid_dpop_proof", "use_dpop_nonce"} : VerifyDPoP(code)
    \/ HandlerSets \/ HandlerWrite \/ HandlerInforms \/ HandlerFlush \/ HandlerReturns
    \/ \E code \in Codes : HandlerWriteHeader(code)
    \/ Done

WriterSpec == WriterInit /\ [][WriterNext]_writerVars

-----------------------------------------------------------------------------
Success == Is2xx(status)

\* challenge.go:5-8: a response to a DPoP failure is a 401 with the DPoP challenge for that
\* failure, uncacheable, and with a nonce when one is asked for; every other rejection
\* leaves the SDK's challenge alone and gives no nonce away.
ChallengeShaped ==
    status # 0 =>
        IF st.isDPoP
        THEN /\ status = 401
             /\ sent.challenge = dpopChallenge(outcome) /\ sent.cache = "no-store"
             /\ sent.nonce => outcome = "use_dpop_nonce"
             /\ outcome = "use_dpop_nonce" /\ ~RNGFails => sent.nonce
        ELSE /\ outcome \in {"invalid_token", "scope"} => sent.challenge = "Bearer" /\ ~sent.nonce
             /\ outcome = "ok" => sent.challenge = ""

\* challenge.go:93-110: which successful responses carry a nonce, whatever the handler does
\* on the writer and in whatever order: those that begin with a Write or a final
\* WriteHeader, which injects before the headers are committed, and no others.  A response
\* that begins with a 1xx or a Flush, or that the handler leaves empty, has none.
RotatedBeforeCommit ==
    Success =>
        /\ NonceConfigured /\ ~RNGFails /\ first = "write" => sent.nonce
        /\ sent.nonce => NonceConfigured /\ first = "write"

\* challenge.go:124-130: rotation keeps the Cache-Control that the handler has set by the time
\* the headers are committed.
CacheControlKept ==
    [][status = 0 /\ status' # 0 /\ header.cache = "no-cache" => sent'.cache = "no-cache"]_writerVars
=============================================================================
