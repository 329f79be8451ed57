------------------------------- MODULE ToolGate -------------------------------
(***************************************************************************)
(* transport/mcpauth/toolgate.go: a caller lists the tools page by page    *)
(* and calls them, with a token that it replaces to obtain more scopes.    *)
(* The gate reads the caller from the request's context and records its    *)
(* decisions with a fan-out of sinks, of which one may panic.              *)
(* Other methods, a tools/call whose params are not *CallToolParamsRaw, a  *)
(* list that fails and a list result of another type go through unchanged  *)
(* and touch none of this state.                                           *)
(***************************************************************************)
EXTENDS Authorizer, Audit, RequestContext

CONSTANTS
    Pages,         \* the server's tools, a sequence of sets
    Gates,         \* values of ToolGate.Policies, functions on some of the tools, and of
                   \* ToolGate.Default, in pairs; Nil for a nil Authorizer
    Tokens,        \* the tokens that the caller can come with
    Transports,    \* how requests reach the gate, see RequestCtx
    Sinks,         \* the arguments of NewMultiSink, the durable one first
    MaxCalls       \* bound on the calls of one behaviour

Tools == UNION {Pages[i] : i \in 1 .. Len(Pages)}
sinks == NewMultiSink(Sinks)

ASSUME GateAssumption ==
    /\ MaxCalls \in Nat
    /\ Pages \in Seq(Range(Pages)) /\ "" \notin Tools
    /\ \A g \in Gates : /\ DOMAIN g[1] \subseteq Tools
                        /\ {g[2]} \cup Range(g[1]) \subseteq Range(Authorizers) \cup {Nil}
    /\ Nil \notin Range(Authorizers)
    /\ \A t \in Tokens : /\ Nil \notin {t, claimsFromToken(t), toTokenInfo(t)}
                         /\ \A n \in DOMAIN t.private : IsValue(t.private[n])
    /\ Transports \subseteq {"http", "sdk", "bridged", "memory"}
    /\ sinks \in Seq(Range(sinks)) /\ sinks # <<>> /\ sinks[1] = "slog"

VARIABLES
    Policies, Default,  \* the gate
    transport,          \* how requests reach it
    token,              \* the caller's token, Nil if the request was not authenticated
    page,               \* the page to ask for; Len(Pages) + 1 when the cursor is empty
    shown,              \* the tools listed so far
    logs,               \* history: what each sink recorded, in order
    handed,             \* history: the tools of the calls handed on to next
    replies             \* history: the errors returned for calls

gateVars == <<Policies, Default, transport, token, page, shown, logs, handed, replies>>

GateInit ==
    /\ \E g \in Gates : Policies = g[1] /\ Default = g[2]
    /\ transport \in Transports
    /\ token \in Tokens \cup {Nil}
    /\ page = 1 /\ shown = {}
    /\ logs = [i \in 1 .. Len(sinks) |-> <<>>]
    /\ handed = <<>> /\ replies = <<>>

claims == ClaimsFromContext(RequestCtx(transport, token))

\* An entry of Policies decides even if it is nil.
policyFor(tool) == IF tool \in DOMAIN Policies THEN Policies[tool] ELSE Default

evaluate(tool) ==
    IF policyFor(tool) = Nil THEN "ok" ELSE Authorize(policyFor(tool), claims)

\* Faulty variant: only the tools with a policy of their own are filtered out.
visibleDefaultIgnored(tools) ==
    IF claims = Nil THEN {}
    ELSE {t \in tools : t \in DOMAIN Policies => evaluate(t) = "ok"}

\* filterList's loop over a page.
visible(tools) == IF claims = Nil THEN {} ELSE {t \in tools : evaluate(t) = "ok"}

\* filterList: the page is filtered, its cursor kept even if nothing is left on it.
filterList ==
    /\ page <= Len(Pages)
    /\ shown' = shown \cup visible(Pages[page])
    /\ page' = page + 1
    /\ UNCHANGED <<Policies, Default, transport, token, logs, handed, replies>>

-----------------------------------------------------------------------------
\* The events of gateCall's three outcomes.
toolEvent(tool, outcome, reason) == Event(outcome, reason, tool, claims.Subject, claims.Email)
Unauthenticated(tool)            == Event("denied", "unauthenticated", tool, "", <<>>)

Decides == Len(logs[1]) < MaxCalls

\* record reaches every sink, with or without a recording span in the call's context.
record(e) == \E recording \in BOOLEAN : logs' = Record(sinks, logs, e, recording, Len(sinks))

\* gateCall without a caller.
gateCallUnauthenticated(tool) ==
    /\ Decides /\ claims = Nil
    /\ record(Unauthenticated(tool))
    /\ replies' = Append(replies, "unauthenticated")
    /\ UNCHANGED <<Policies, Default, transport, token, page, shown, handed>>

\* gateCall when the policy denies: recorded with the code of the error, then returned.
gateCallDenied(tool) ==
    /\ Decides /\ claims # Nil /\ evaluate(tool) # "ok"
    /\ record(toolEvent(tool, "denied", evaluate(tool)))
    /\ replies' = Append(replies, evaluate(tool))
    /\ UNCHANGED <<Policies, Default, transport, token, page, shown, handed>>

\* gateCall when the policy allows: recorded before next is called.
gateCallGranted(tool) ==
    /\ Decides /\ claims # Nil /\ evaluate(tool) = "ok"
    /\ record(toolEvent(tool, "granted", ""))
    /\ handed' = Append(handed, tool)
    /\ UNCHANGED <<Policies, Default, transport, token, page, shown, replies>>

\* The event gateCall records for a tool.
Decision(tool) ==
    IF claims = Nil THEN Unauthenticated(tool)
    ELSE IF evaluate(tool) = "ok" THEN toolEvent(tool, "granted", "")
    ELSE toolEvent(tool, "denied", evaluate(tool))

\* A sink other than the first panics in record: gateCall neither answers nor goes on.
gateCallPanics(tool) ==
    /\ Decides
    /\ \E recording \in BOOLEAN, n \in 1 .. Len(sinks) - 1 :
          logs' = Record(sinks, logs, Decision(tool), recording, n)
    /\ UNCHANGED <<Policies, Default, transport, token, page, shown, handed, replies>>

-----------------------------------------------------------------------------
\* The caller comes back with a token of more scopes and lists anew.
StepUp(tok) ==
    /\ token # Nil /\ tok.sub = token.sub
    /\ GrantedScopes(token.private) \subseteq GrantedScopes(tok.private)
    /\ GrantedScopes(token.private) # GrantedScopes(tok.private)
    /\ token' = tok
    /\ page' = 1 /\ shown' = {}
    /\ UNCHANGED <<Policies, Default, transport, logs, handed, replies>>

Terminating == ~Decides /\ UNCHANGED gateVars

GateNext ==
    \/ filterList
    \/ \E t \in Tools : \/ gateCallUnauthenticated(t) \/ gateCallDenied(t)
                        \/ gateCallGranted(t) \/ gateCallPanics(t)
    \/ \E tok \in Tokens : StepUp(tok)
    \/ Terminating

GateSpec == GateInit /\ [][GateNext]_gateVars

-----------------------------------------------------------------------------
\* What the documentation of Policies and Default grants, as a formula on the token.
Permitted(t) ==
    /\ token # Nil
    /\ LET p == IF t \in DOMAIN Policies THEN Policies[t] ELSE Default
       IN  p # Nil => Satisfies(token, p)

\* filterList against gateCall: a caller that has followed the cursor to its end has seen
\* the tools it may call, all of them and no other.
ListedIsCallable == page = Len(Pages) + 1 => shown = {t \in Tools : Permitted(t)}

Latest == logs'[1][Len(logs'[1])]

\* gateCall, from the token through the context, claimsFromToken and the policy: a call is
\* granted exactly if what the issuer put into the token satisfies the tool's policy.
GrantedIffPermitted ==
    [][logs' # logs => (Latest.Outcome = "granted" <=> Permitted(Latest.Tool))]_gateVars

\* What a sink's records say, as attributes.
View(i) == [n \in 1 .. Len(logs[i]) |->
               IF sinks[i] = "otel" THEN logs[i][n].labels \cup logs[i][n].span
               ELSE TraceAttributes(logs[i][n])]

\* The elements of seq at the given places, in order.
AtLoop(seq, places) ==
    LET loop[i \in 0 .. Len(seq)] ==
          IF i = 0 THEN <<>>
          ELSE IF i \in places THEN Append(loop[i - 1], seq[i]) ELSE loop[i - 1]
    IN  loop
At(seq, places) == AtLoop(seq, places)[Len(seq)]

Count(seq, x)    == Len(At(seq, {i \in DOMAIN seq : seq[i] = x}))
With(seq, attrs) == At(seq, {i \in DOMAIN seq : attrs \subseteq seq[i]})

GrantedTo(t)   == {<<"outcome", "granted">>, <<"tool", t>>}
DeniedFor(r)   == {<<"outcome", "denied">>, <<"reason_code", r>>}
Reported(i, a) == Len(With(View(i), a))

\* gateCall's record with a fan-out in which any sink but the first may panic and a span may
\* or may not be recording.  The last sink of the fan-out has as many granted events as
\* calls were handed on, naming no tool more often than it was called, and for each reason
\* as many denied events as errors returned.  The durable sink has a granted event with its
\* name for every tool handed on, and misses nothing that another sink reports.
AuditMatchesOutcome ==
    LET last == Len(sinks) IN
    /\ Reported(last, {<<"outcome", "granted">>}) = Len(handed)
    /\ \A t \in Tools : /\ Reported(last, GrantedTo(t)) <= Count(handed, t)
                        /\ Count(handed, t) <= Reported(1, GrantedTo(t))
    /\ \A r \in {"unauthenticated", "insufficient_scope", "forbidden"} :
          Reported(last, DeniedFor(r)) = Count(replies, r)
    /\ \A i \in 1 .. last : \A a \in Range(View(i)) : Reported(i, a) <= Reported(1, a)

\* errors.go:86-90: insufficient_scope tells a client to step up, so a caller that has
\* every scope that a policy asks for is never told so, whatever policies are nested.
StepUpCanHelp ==
    [][/\ logs' # logs /\ token # Nil
       /\ \A p \in Range(Authorizers) : p.scopes \subseteq GrantedScopes(token.private)
       => Latest.ReasonCode # "insufficient_scope"]_gateVars
=============================================================================
