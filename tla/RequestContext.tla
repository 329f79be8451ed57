---------------------------- MODULE RequestContext ----------------------------
(***************************************************************************)
(* How a validated caller travels to the code that needs it: context.go's  *)
(* two keys, set by the HTTP middleware; the SDK's TokenInfo, filled by    *)
(* the MCP token verifier; and the readers of both.  A context is a record *)
(* of the two core keys and the TokenInfo, each Nil if it is not set.      *)
(***************************************************************************)
EXTENDS Claims

CONSTANT Nil

Background == [claims |-> Nil, raw |-> Nil, info |-> Nil]

WithClaims(ctx, c)     == [ctx EXCEPT !.claims = c]
WithRawToken(ctx, raw) == [ctx EXCEPT !.raw = raw]
ClaimsFrom(ctx)        == ctx.claims
RawTokenFrom(ctx)      == ctx.raw

\* What the token verifier hands to the SDK: Extra carries the claims and the raw token.
toTokenInfo(tok) == [claims |-> claimsFromToken(tok), raw |-> tok]

ClaimsFromContext(ctx) ==
    IF ClaimsFrom(ctx) # Nil THEN ClaimsFrom(ctx)
    ELSE IF ctx.info # Nil THEN ctx.info.claims ELSE Nil

RawTokenFromContext(ctx) ==
    IF RawTokenFrom(ctx) # Nil THEN RawTokenFrom(ctx)
    ELSE IF ctx.info # Nil THEN ctx.info.raw ELSE Nil

\* ContextBridge: both core keys are set from whatever can be read; Nil leaves a key as
\* it is, since it can only be read if the key is not set.
ContextBridge(ctx) ==
    WithRawToken(WithClaims(ctx, ClaimsFromContext(ctx)), RawTokenFromContext(ctx))

\* The context behind each way of authenticating a request that carries tok, Nil for none:
\* transport/http, the SDK's bearer middleware with and without the bridge, and an
\* in-memory transport that sets the claims itself.
RequestCtx(transport, tok) ==
    CASE tok = Nil -> Background
      [] tok # Nil /\ transport = "http" ->
            WithRawToken(WithClaims(Background, claimsFromToken(tok)), tok)
      [] tok # Nil /\ transport = "sdk" -> [Background EXCEPT !.info = toTokenInfo(tok)]
      [] tok # Nil /\ transport = "bridged" ->
            ContextBridge([Background EXCEPT !.info = toTokenInfo(tok)])
      [] tok # Nil /\ transport = "memory" -> WithClaims(Background, claimsFromToken(tok))

\* TokenForCaller's reading of the context: the token to exchange and the subject that
\* keys the cache, empty if there are no claims; Nil if there is no token to exchange.
TokenForCaller(ctx) ==
    IF RawTokenFrom(ctx) = Nil THEN Nil
    ELSE [ SubjectToken |-> RawTokenFrom(ctx),
           Subject      |-> IF ClaimsFrom(ctx) # Nil THEN ClaimsFrom(ctx).Subject ELSE <<>> ]
=============================================================================
