------------------------------ MODULE Authorizer ------------------------------
(***************************************************************************)
(* The policy algebra of authorizer.go.  A policy is a record: op is the   *)
(* constructor, scopes the arguments of HasScopes and HasAnyScope, claim   *)
(* the name and value of HasClaim, and of the members of AllOf and AnyOf   *)
(* in order.                                                               *)
(***************************************************************************)
EXTENDS Claims

CONSTANT Authorizers  \* the policies of a program, in the order in which they are made

Policy(op, scopes, claim, of) == [op |-> op, scopes |-> scopes, claim |-> claim, of |-> of]

HasScopes(S)          == Policy("HasScopes", S, <<>>, <<>>)
HasAnyScope(S)        == Policy("HasAnyScope", S, <<>>, <<>>)
HasClaim(name, value) == Policy("HasClaim", {}, <<name, value>>, <<>>)
AllOf(ps)             == Policy("AllOf", {}, <<>>, ps)
AnyOf(ps)             == Policy("AnyOf", {}, <<>>, ps)
AllowAll              == Policy("AllowAll", {}, <<>>, <<>>)
DenyAll               == Policy("DenyAll", {}, <<>>, <<>>)

Constructors == {"HasScopes", "HasAnyScope", "HasClaim", "AllOf", "AnyOf", "AllowAll", "DenyAll"}

\* A policy is made of policies that exist.
ASSUME AuthorizerAssumption ==
    /\ Authorizers \in Seq(Range(Authorizers))
    /\ \A n \in DOMAIN Authorizers :
         LET p == Authorizers[n] IN
         /\ p.op \in Constructors
         /\ p.of \in Seq({Authorizers[m] : m \in 1 .. n - 1})

HasScopesResult(S, have) == IF S \subseteq have THEN "ok" ELSE "insufficient_scope"

HasAnyScopeResult(S, have) ==
    IF S = {} \/ S \cap have # {} THEN "ok" ELSE "insufficient_scope"

HasClaimResult(claim, raw) ==
    IF claim[1] \in DOMAIN raw /\ raw[claim[1]] = claim[2] THEN "ok" ELSE "forbidden"

Denials(codes) == {i \in DOMAIN codes : codes[i] # "ok"}

\* Faulty variant of AllOf's loop over its members' results: a generic error in place of
\* the member's own.
AllOfResultGeneric(codes) == IF Denials(codes) = {} THEN "ok" ELSE "insufficient_scope"

\* AllOf returns the first denial unchanged.
AllOfResult(codes) ==
    IF Denials(codes) = {} THEN "ok"
    ELSE codes[CHOOSE i \in Denials(codes) : \A j \in Denials(codes) : i <= j]

\* AnyOf is satisfied by the first member that allows, and has an error of its own.
AnyOfResult(codes) == IF \E i \in DOMAIN codes : codes[i] = "ok" THEN "ok" ELSE "forbidden"

\* What a policy returns for claims when its members return codes.
Result(p, codes, claims) ==
    CASE p.op = "HasScopes"   -> HasScopesResult(p.scopes, Range(claims.Scopes))
      [] p.op = "HasAnyScope" -> HasAnyScopeResult(p.scopes, Range(claims.Scopes))
      [] p.op = "HasClaim"    -> HasClaimResult(p.claim, claims.Raw)
      [] p.op = "AllOf"       -> AllOfResult(codes)
      [] p.op = "AnyOf"       -> AnyOfResult(codes)
      [] p.op = "AllowAll"    -> "ok"
      [] p.op = "DenyAll"     -> "forbidden"

\* Calling a policy with claims: "ok" for nil, else the code of the error.
Authorize(p, claims) ==
    LET result[q \in Range(Authorizers)] ==
          Result(q, [i \in 1 .. Len(q.of) |-> result[q.of[i]]], claims)
    IN  result[p]

\* The reference: the tokens that satisfy a policy read as a formula on what the issuer
\* put into them, when of says which members they satisfy.
Meets(tok, p, of) ==
    LET granted == GrantedScopes(tok.private) IN
    CASE p.op = "HasScopes"   -> \A s \in p.scopes : s \in granted
      [] p.op = "HasAnyScope" -> p.scopes # {} => \E s \in p.scopes : s \in granted
      [] p.op = "HasClaim"    -> /\ p.claim[1] \notin Extracted
                                 /\ HasTyped(tok.private, p.claim[1], "string")
                                 /\ tok.private[p.claim[1]].s = p.claim[2]
      [] p.op = "AllOf"       -> \A i \in DOMAIN of : of[i]
      [] p.op = "AnyOf"       -> \E i \in DOMAIN of : of[i]
      [] p.op = "AllowAll"    -> TRUE
      [] p.op = "DenyAll"     -> FALSE

Satisfies(tok, p) ==
    LET meets[q \in Range(Authorizers)] ==
          Meets(tok, q, [i \in 1 .. Len(q.of) |-> meets[q.of[i]]])
    IN  meets[p]
=============================================================================
