---------------------------- MODULE ToolGateProofs ----------------------------
(***************************************************************************)
(* Proofs about what stands between a request and a tool: the policies and *)
(* the gate that lists tools, authorizes calls and audits them.            *)
(***************************************************************************)
EXTENDS ToolGate, ClaimsProofs

(***************************************************************************)
(* Policies.  A policy is made of policies that were made before it, so    *)
(* what it returns is defined by recursion over the order in which the     *)
(* policies are made, and facts about it are proved by induction over it.  *)
(***************************************************************************)
Made == Range(Authorizers)

Members(g, p) == [i \in 1 .. Len(p.of) |-> g[p.of[i]]]

LEMMA MadeOf ==
    /\ Len(Authorizers) \in Nat
    /\ \A p \in Made : /\ p.op \in Constructors
                       /\ p.of \in Seq(Made)
                       /\ \E n \in 1 .. Len(Authorizers) : p = Authorizers[n]
    /\ \A n \in 1 .. Len(Authorizers) :
         /\ Authorizers[n] \in Made
         /\ \A i \in 1 .. Len(Authorizers[n].of) :
              \E m \in 1 .. n - 1 : Authorizers[n].of[i] = Authorizers[m]
<1>1. Authorizers \in Seq(Made) /\ Len(Authorizers) \in Nat /\ DOMAIN Authorizers = 1 .. Len(Authorizers)
  BY AuthorizerAssumption DEF Made
<1>2. ASSUME NEW n \in 1 .. Len(Authorizers)
      PROVE  /\ Authorizers[n] \in Made /\ Authorizers[n].op \in Constructors
             /\ Authorizers[n].of \in Seq(Made)
             /\ \A i \in 1 .. Len(Authorizers[n].of) :
                  \E m \in 1 .. n - 1 : Authorizers[n].of[i] = Authorizers[m]
  <2> DEFINE before == {Authorizers[m] : m \in 1 .. n - 1}
             of == Authorizers[n].of
  <2>1. Authorizers[n].op \in Constructors /\ of \in Seq(before)
    BY <1>1, AuthorizerAssumption, Zenon
  <2>2. before \subseteq Made
    BY <1>1
  <2>3. of \in Seq(Made) /\ \A i \in 1 .. Len(of) : of[i] \in before
    <3> HIDE DEF before, of
    <3> QED
      BY <2>1, <2>2
  <2> QED
    BY <1>1, <2>1, <2>3
<1>3. ASSUME NEW p \in Made PROVE \E n \in 1 .. Len(Authorizers) : p = Authorizers[n]
  BY <1>1 DEF Made, Range
<1> QED
  BY <1>1, <1>2, <1>3, Zenon

\* body[p] is what policy p makes of what its members return.
PolicyBody(body, V) == body \in [Made -> [Seq(V) -> V]]
Returns(g, body, p) == g[p] = body[p][Members(g, p)]

LEMMA MembersType ==
    ASSUME NEW V, NEW g \in [Made -> V], NEW p \in Made
    PROVE  Members(g, p) \in Seq(V) /\ DOMAIN Members(g, p) = 1 .. Len(p.of)
<1>1. p.of \in Seq(Made)
  BY MadeOf
<1>2. Len(p.of) \in Nat /\ \A i \in 1 .. Len(p.of) : p.of[i] \in Made
  BY <1>1
<1> QED
  BY <1>2 DEF Members

\* Induction over the policies in the order in which they are made.
LEMMA PolicyInduction ==
    ASSUME NEW S, \A p \in Made : (\A i \in 1 .. Len(p.of) : p.of[i] \in S) => p \in S
    PROVE  \A p \in Made : p \in S
<1> DEFINE N == Len(Authorizers)
           T == {n \in 0 .. N : \A m \in 1 .. n : Authorizers[m] \in S}
<1>1. N \in Nat
  BY MadeOf
<1>2. 0 \in T
  BY <1>1
<1>3. ASSUME NEW n \in 1 .. N, n - 1 \in T PROVE n \in T
  <2>1. Authorizers[n] \in Made /\ \A i \in 1 .. Len(Authorizers[n].of) :
           \E m \in 1 .. n - 1 : Authorizers[n].of[i] = Authorizers[m]
    BY MadeOf
  <2>2. \A m \in 1 .. n - 1 : Authorizers[m] \in S
    BY <1>3
  <2>3. Authorizers[n] \in S
    BY <2>1, <2>2
  <2> QED
    BY <1>1, <2>2, <2>3
<1>4. \A n \in 0 .. N : n \in T
  <2> HIDE DEF N, T
  <2> QED
    BY <1>1, <1>2, <1>3, LoopInduction
<1>5. N \in T
  BY <1>1, <1>4
<1> QED
  BY <1>5, MadeOf

\* There is a function with what every policy returns.
LEMMA PolicyRecursion ==
    ASSUME NEW V, NEW v \in V, NEW body, PolicyBody(body, V)
    PROVE  \E g \in [Made -> V] : \A p \in Made : Returns(g, body, p)
<1> DEFINE N == Len(Authorizers)
           Upto(g, n) == \A m \in 1 .. n : Returns(g, body, Authorizers[m])
           T == {n \in 0 .. N : \E g \in [Made -> V] : Upto(g, n)}
<1>1. N \in Nat
  BY MadeOf
<1>2. 0 \in T
  <2>1. [p \in Made |-> v] \in [Made -> V]
    OBVIOUS
  <2>2. Upto([p \in Made |-> v], 0)
    OBVIOUS
  <2>3. 0 \in 0 .. N
    BY <1>1
  <2> QED
    BY <2>1, <2>2, <2>3, Zenon
<1>3. ASSUME NEW n \in 1 .. N, n - 1 \in T PROVE n \in T
  <2>1. PICK g \in [Made -> V] : Upto(g, n - 1)
    BY <1>3
  <2> DEFINE p == Authorizers[n]
             h == [g EXCEPT ![p] = body[p][Members(g, p)]]
  <2>2. CASE \E m \in 1 .. n - 1 : Authorizers[m] = p
    <3>1. Upto(g, n)
      BY <1>1, <2>1, <2>2
    <3> QED
      BY <1>1, <3>1
  <2>3. CASE \A m \in 1 .. n - 1 : Authorizers[m] # p
    <3>1. p \in Made /\ \A k \in 1 .. N : Authorizers[k] \in Made
      BY MadeOf
    <3>2. body[p][Members(g, p)] \in V
      BY <3>1, MembersType DEF PolicyBody
    <3>3. h \in [Made -> V] /\ h[p] = body[p][Members(g, p)] /\ \A q \in Made : q # p => h[q] = g[q]
      BY <3>1, <3>2
    <3>4. ASSUME NEW k \in 1 .. n PROVE Members(h, Authorizers[k]) = Members(g, Authorizers[k])
      <4>1. \A i \in 1 .. Len(Authorizers[k].of) : \E m \in 1 .. k - 1 : Authorizers[k].of[i] = Authorizers[m]
        BY <1>1, MadeOf
      <4>2. \A m \in 1 .. k - 1 : m \in 1 .. n - 1 /\ m \in 1 .. N
        BY <1>1
      <4>3. \A i \in 1 .. Len(Authorizers[k].of) : h[Authorizers[k].of[i]] = g[Authorizers[k].of[i]]
        <5>1. ASSUME NEW i \in 1 .. Len(Authorizers[k].of) PROVE h[Authorizers[k].of[i]] = g[Authorizers[k].of[i]]
          <6>1. PICK m \in 1 .. k - 1 : Authorizers[k].of[i] = Authorizers[m]
            BY <4>1
          <6>2. Authorizers[m] \in Made /\ Authorizers[m] # p
            BY <2>3, <3>1, <4>2
          <6> HIDE DEF h
          <6> QED
            BY <3>3, <6>1, <6>2
        <5> QED
          BY <5>1
      <4> HIDE DEF h
      <4> QED
        BY <4>3 DEF Members
    <3>5. Upto(h, n)
      <4> SUFFICES ASSUME NEW k \in 1 .. n PROVE Returns(h, body, Authorizers[k])
        BY Zenon
      <4>1. CASE k = n
        <5> HIDE DEF h
        <5> QED
          BY <3>3, <3>4, <4>1 DEF Returns
      <4>2. CASE k # n
        <5>1. k \in 1 .. n - 1 /\ k \in 1 .. N
          BY <1>1, <4>2
        <5>2. h[Authorizers[k]] = g[Authorizers[k]]
          <6> HIDE DEF h
          <6> QED
            BY <2>3, <3>1, <3>3, <5>1
        <5> HIDE DEF h
        <5> QED
          BY <2>1, <3>4, <5>1, <5>2 DEF Returns
      <4> QED
        BY <4>1, <4>2
    <3> HIDE DEF h
    <3> QED
      BY <1>1, <3>3, <3>5
  <2> QED
    BY <2>2, <2>3
<1>4. N \in T
  <2>1. \A n \in 0 .. N : n \in T
    <3> HIDE DEF N, T
    <3> QED
      BY <1>1, <1>2, <1>3, LoopInduction
  <2> QED
    BY <1>1, <2>1
<1>5. PICK g \in [Made -> V] : Upto(g, N)
  BY <1>4
<1>6. \A p \in Made : \E n \in 1 .. N : p = Authorizers[n]
  BY MadeOf
<1> QED
  BY <1>5, <1>6

Verdicts == {"ok", "insufficient_scope", "forbidden"}

\* AllOf succeeds if all of its members do, and else returns what one of them returned.
LEMMA AllOfReturns ==
    ASSUME NEW codes \in Seq(Verdicts)
    PROVE  /\ AllOfResult(codes) = "ok" <=> \A i \in DOMAIN codes : codes[i] = "ok"
           /\ AllOfResult(codes) = "ok" \/ \E i \in DOMAIN codes : AllOfResult(codes) = codes[i]
           /\ AllOfResult(codes) \in Verdicts
<1>1. CASE Denials(codes) = {}
  BY <1>1 DEF AllOfResult, Denials, Verdicts
<1>2. CASE Denials(codes) # {}
  <2> DEFINE T == Denials(codes)
             k == CHOOSE i \in T : \A j \in T : i <= j
  <2>1. T \in SUBSET Nat
    BY DEF Denials
  <2>2. \E i \in T : \A j \in T : i <= j
    <3> HIDE DEF T
    <3> QED
      BY <1>2, <2>1, LeastElement DEF T
  <2>3. k \in T
    <3> HIDE DEF T
    <3> QED
      BY <2>2
  <2>4. AllOfResult(codes) = codes[k]
    BY <1>2 DEF AllOfResult
  <2> HIDE DEF k
  <2>5. k \in DOMAIN codes /\ codes[k] # "ok"
    BY <2>3 DEF Denials
  <2> QED
    BY <2>4, <2>5
<1> QED
  BY <1>1, <1>2

LEMMA ResultType ==
    ASSUME NEW p \in Made, NEW codes \in Seq(Verdicts), NEW c
    PROVE  Result(p, codes, c) \in Verdicts
<1>1. p.op \in Constructors
  BY MadeOf
<1>2. CASE p.op = "AllOf"
  BY <1>2, AllOfReturns DEF Result
<1>3. CASE p.op # "AllOf"
  BY <1>1, <1>3 DEF Result, Constructors, Verdicts, HasScopesResult, HasAnyScopeResult, HasClaimResult, AnyOfResult
<1> QED
  BY <1>2, <1>3

\* authorizer.go: the recursion of a policy into its members ends, with a verdict.
LEMMA AuthorizeReturns ==
    ASSUME NEW c
    PROVE  \A p \in Made :
             /\ Authorize(p, c) \in Verdicts
             /\ Authorize(p, c) = Result(p, [i \in 1 .. Len(p.of) |-> Authorize(p.of[i], c)], c)
<1> DEFINE body == [p \in Made |-> [codes \in Seq(Verdicts) |-> Result(p, codes, c)]]
           Unfolds(g) == g = [q \in Range(Authorizers) |-> Result(q, [i \in 1 .. Len(q.of) |-> g[q.of[i]]], c)]
           result == CHOOSE g : Unfolds(g)
<1>1. PolicyBody(body, Verdicts) /\ "ok" \in Verdicts
  BY ResultType DEF PolicyBody, Verdicts
<1>2. PICK g \in [Made -> Verdicts] : \A p \in Made : Returns(g, body, p)
  <2> HIDE DEF body
  <2> QED
    BY <1>1, PolicyRecursion
<1>3. Unfolds(g)
  <2>1. ASSUME NEW p \in Made PROVE g[p] = Result(p, Members(g, p), c)
    BY <1>2, MembersType, Zenon DEF Returns
  <2> QED
    BY <2>1 DEF Made, Members
<1>4. Unfolds(result)
  <2> HIDE DEF Unfolds
  <2> QED
    BY <1>3
<1>5. \A p : Authorize(p, c) = result[p]
  BY DEF Authorize
<1> HIDE DEF result
<1>6. ASSUME NEW p \in Made
      PROVE  Authorize(p, c) = Result(p, [i \in 1 .. Len(p.of) |-> Authorize(p.of[i], c)], c)
  <2>1. [i \in 1 .. Len(p.of) |-> Authorize(p.of[i], c)] = [i \in 1 .. Len(p.of) |-> result[p.of[i]]]
    BY <1>5
  <2>2. result[p] = Result(p, [i \in 1 .. Len(p.of) |-> result[p.of[i]]], c)
    BY <1>4, Zenon DEF Made
  <2> QED
    BY <1>5, <2>1, <2>2, Zenon
<1>7. \A p \in Made : Authorize(p, c) \in Verdicts
  <2> DEFINE S == {p \in Made : Authorize(p, c) \in Verdicts}
  <2>1. ASSUME NEW p \in Made, \A i \in 1 .. Len(p.of) : p.of[i] \in S PROVE p \in S
    <3> DEFINE codes == [i \in 1 .. Len(p.of) |-> Authorize(p.of[i], c)]
    <3>1. Len(p.of) \in Nat
      BY MadeOf
    <3>2. codes \in Seq(Verdicts)
      BY <2>1, <3>1
    <3>3. Result(p, codes, c) \in Verdicts
      <4> HIDE DEF codes
      <4> QED
        BY <3>2, ResultType
    <3> QED
      BY <1>6, <3>3
  <2>2. \A p \in Made : p \in S
    <3> HIDE DEF S
    <3> QED
      BY <2>1, PolicyInduction
  <2> QED
    BY <2>2
<1> QED
  BY <1>6, <1>7

LEMMA MeetsType ==
    ASSUME NEW tok, NEW p \in Made, NEW of \in Seq(BOOLEAN)
    PROVE  Meets(tok, p, of) \in BOOLEAN
<1>1. p.op \in Constructors
  BY MadeOf
<1> QED
  BY <1>1, Zenon DEF Constructors, Meets, HasTyped

LEMMA SatisfiesMeets ==
    ASSUME NEW tok
    PROVE  \A p \in Made :
             /\ Satisfies(tok, p) \in BOOLEAN
             /\ Satisfies(tok, p) = Meets(tok, p, [i \in 1 .. Len(p.of) |-> Satisfies(tok, p.of[i])])
<1> DEFINE body == [p \in Made |-> [of \in Seq(BOOLEAN) |-> Meets(tok, p, of)]]
           Unfolds(g) == g = [q \in Range(Authorizers) |-> Meets(tok, q, [i \in 1 .. Len(q.of) |-> g[q.of[i]]])]
           meets == CHOOSE g : Unfolds(g)
<1>1. PolicyBody(body, BOOLEAN)
  BY MeetsType, Zenon DEF PolicyBody
<1>2. PICK g \in [Made -> BOOLEAN] : \A p \in Made : Returns(g, body, p)
  <2>1. TRUE \in BOOLEAN
    OBVIOUS
  <2> HIDE DEF body
  <2> QED
    BY <1>1, <2>1, PolicyRecursion, Zenon
<1>3. Unfolds(g)
  <2>1. ASSUME NEW p \in Made PROVE g[p] = Meets(tok, p, Members(g, p))
    <3>1. Members(g, p) \in Seq(BOOLEAN)
      BY MembersType, Zenon
    <3>2. g[p] = body[p][Members(g, p)]
      BY <1>2, Zenon DEF Returns
    <3> QED
      BY <3>1, <3>2, Zenon
  <2>2. \A p \in Made : g[p] = Meets(tok, p, [i \in 1 .. Len(p.of) |-> g[p.of[i]]])
    BY <2>1, Zenon DEF Members
  <2>3. g = [q \in Made |-> g[q]]
    OBVIOUS
  <2> QED
    BY <2>2, <2>3, Zenon DEF Made
<1>4. Unfolds(meets)
  <2> HIDE DEF Unfolds
  <2> QED
    BY <1>3, Zenon
<1>5. \A p : Satisfies(tok, p) = meets[p]
  BY Zenon DEF Satisfies
<1> HIDE DEF meets
<1>6. ASSUME NEW p \in Made
      PROVE  Satisfies(tok, p) = Meets(tok, p, [i \in 1 .. Len(p.of) |-> Satisfies(tok, p.of[i])])
  <2>1. [i \in 1 .. Len(p.of) |-> Satisfies(tok, p.of[i])] = [i \in 1 .. Len(p.of) |-> meets[p.of[i]]]
    BY <1>5, Zenon
  <2>2. meets[p] = Meets(tok, p, [i \in 1 .. Len(p.of) |-> meets[p.of[i]]])
    BY <1>4, Zenon DEF Made
  <2> QED
    BY <1>5, <2>1, <2>2, Zenon
<1>7. \A p \in Made : Satisfies(tok, p) \in BOOLEAN
  <2> DEFINE S == {p \in Made : Satisfies(tok, p) \in BOOLEAN}
  <2>1. ASSUME NEW p \in Made, \A i \in 1 .. Len(p.of) : p.of[i] \in S PROVE p \in S
    <3> DEFINE of == [i \in 1 .. Len(p.of) |-> Satisfies(tok, p.of[i])]
    <3>1. Len(p.of) \in Nat /\ \A i \in 1 .. Len(p.of) : Satisfies(tok, p.of[i]) \in BOOLEAN
      BY <2>1, MadeOf
    <3>2. of \in Seq(BOOLEAN)
      BY <3>1
    <3>3. Meets(tok, p, of) \in BOOLEAN
      <4> HIDE DEF of
      <4> QED
        BY <3>2, MeetsType, Zenon
    <3> QED
      BY <1>6, <3>3, Zenon
  <2>2. \A p \in Made : p \in S
    <3> HIDE DEF S
    <3> QED
      BY <2>1, PolicyInduction, Zenon
  <2> QED
    BY <2>2
<1> QED
  BY <1>6, <1>7, Zenon

\* HasScopes, HasAnyScope and HasClaim on claims, against the token that they come from.
LEMMA LeafSatisfied ==
    ASSUME NEW tok, \A n \in DOMAIN tok.private : IsValue(tok.private[n]), NEW p \in Made
    PROVE  LET c == claimsFromToken(tok)
               granted == GrantedScopes(tok.private) IN
           /\ HasScopesResult(p.scopes, Range(c.Scopes)) = "ok" <=> \A s \in p.scopes : s \in granted
           /\ HasAnyScopeResult(p.scopes, Range(c.Scopes)) = "ok" <=>
                (p.scopes # {} => \E s \in p.scopes : s \in granted)
           /\ HasClaimResult(p.claim, c.Raw) = "ok" <=>
                /\ p.claim[1] \notin Extracted
                /\ HasTyped(tok.private, p.claim[1], "string")
                /\ tok.private[p.claim[1]].s = p.claim[2]
<1> DEFINE c == claimsFromToken(tok)
           granted == GrantedScopes(tok.private)
           raw == c.Raw
           name == p.claim[1]
<1>1. Range(c.Scopes) = granted
  BY ClaimsFields, ScopesGranted, Zenon
<1>2. raw = [k \in {n \in DOMAIN tok.private \ Extracted : IsString(tok.private[n])} |-> tok.private[k].s]
  BY ClaimsFields
<1> HIDE DEF c, granted, raw, name
<1>3. HasScopesResult(p.scopes, granted) = "ok" <=> \A s \in p.scopes : s \in granted
  BY DEF HasScopesResult
<1>4. HasAnyScopeResult(p.scopes, granted) = "ok" <=> (p.scopes # {} => \E s \in p.scopes : s \in granted)
  BY DEF HasAnyScopeResult
<1>5. HasClaimResult(p.claim, raw) = "ok" <=> name \in DOMAIN raw /\ raw[name] = p.claim[2]
  BY DEF HasClaimResult, name
<1>6. name \in DOMAIN raw /\ raw[name] = p.claim[2] <=>
        name \notin Extracted /\ HasTyped(tok.private, name, "string") /\ tok.private[name].s = p.claim[2]
  <2>1. name \in DOMAIN raw <=> name \notin Extracted /\ HasTyped(tok.private, name, "string")
    BY <1>2 DEF HasTyped, IsString
  <2>2. name \in DOMAIN raw => raw[name] = tok.private[name].s
    BY <1>2
  <2> QED
    BY <2>1, <2>2
<1> QED
  BY <1>1, <1>3, <1>4, <1>5, <1>6 DEF c, granted, raw, name

\* authorizer.go:27-113 on the claims of claims.go: whatever policies are nested, calling one
\* with the claims of a token succeeds exactly if the token satisfies it as a formula.
THEOREM AuthorizeSatisfies ==
    ASSUME NEW tok, \A n \in DOMAIN tok.private : IsValue(tok.private[n])
    PROVE  \A p \in Range(Authorizers) : Authorize(p, claimsFromToken(tok)) = "ok" <=> Satisfies(tok, p)
<1> DEFINE c == claimsFromToken(tok)
           S == {p \in Made : Authorize(p, c) = "ok" <=> Satisfies(tok, p)}
<1>1. ASSUME NEW p \in Made, \A i \in 1 .. Len(p.of) : p.of[i] \in S PROVE p \in S
  <2> DEFINE codes == [i \in 1 .. Len(p.of) |-> Authorize(p.of[i], c)]
             of == [i \in 1 .. Len(p.of) |-> Satisfies(tok, p.of[i])]
  <2>1. p.op \in Constructors /\ p.of \in Seq(Made)
    BY MadeOf
  <2>2. Len(p.of) \in Nat /\ \A i \in 1 .. Len(p.of) : p.of[i] \in Made
    BY <2>1
  <2>3. codes \in Seq(Verdicts) /\ DOMAIN codes = 1 .. Len(p.of) /\ DOMAIN of = 1 .. Len(p.of)
    <3>1. \A i \in 1 .. Len(p.of) : Authorize(p.of[i], c) \in Verdicts
      BY <2>2, AuthorizeReturns, Zenon
    <3> HIDE DEF c
    <3>2. codes \in Seq(Verdicts)
      BY <2>2, <3>1
    <3> QED
      BY <3>2, Zenon
  <2>4. \A i \in 1 .. Len(p.of) : codes[i] = "ok" <=> of[i]
    BY <1>1, Zenon
  <2>5. Authorize(p, c) = Result(p, codes, c) /\ Satisfies(tok, p) = Meets(tok, p, of)
    BY AuthorizeReturns, SatisfiesMeets, Zenon
  <2> HIDE DEF codes, of
  <2>6. Result(p, codes, c) = "ok" <=> Meets(tok, p, of)
    <3>1. CASE p.op = "HasScopes"
      BY <3>1, LeafSatisfied, Zenon DEF Result, Meets
    <3>2. CASE p.op = "HasAnyScope"
      BY <3>2, LeafSatisfied, Zenon DEF Result, Meets
    <3>3. CASE p.op = "HasClaim"
      BY <3>3, LeafSatisfied, Zenon DEF Result, Meets
    <3>4. CASE p.op = "AllOf"
      <4>1. AllOfResult(codes) = "ok" <=> \A i \in DOMAIN codes : codes[i] = "ok"
        BY <2>3, AllOfReturns
      <4> QED
        BY <2>3, <2>4, <3>4, <4>1, Zenon DEF Result, Meets
    <3>5. CASE p.op = "AnyOf"
      <4>1. AnyOfResult(codes) = "ok" <=> \E i \in DOMAIN codes : codes[i] = "ok"
        BY DEF AnyOfResult
      <4> QED
        BY <2>3, <2>4, <3>5, <4>1, Zenon DEF Result, Meets
    <3>6. CASE p.op = "AllowAll"
      BY <3>6, Zenon DEF Result, Meets
    <3>7. CASE p.op = "DenyAll"
      <4>1. "forbidden" # "ok"
        OBVIOUS
      <4> QED
        BY <3>7, <4>1, Zenon DEF Result, Meets
    <3> QED
      BY <2>1, <3>1, <3>2, <3>3, <3>4, <3>5, <3>6, <3>7, Zenon DEF Constructors
  <2> QED
    BY <2>5, <2>6, Zenon
<1>2. \A p \in Made : p \in S
  <2> HIDE DEF S
  <2> QED
    BY <1>1, PolicyInduction, Zenon
<1> QED
  BY <1>2, Zenon DEF Made

LEMMA TokenFacts ==
    ASSUME NEW t \in Tokens
    PROVE  /\ t # Nil /\ claimsFromToken(t) # Nil /\ toTokenInfo(t) # Nil
           /\ \A n \in DOMAIN t.private : IsValue(t.private[n])
  BY GateAssumption, Zenon

\* The ways of authenticating a request, read back.
LEMMA ContextClaims ==
    ASSUME NEW tr \in Transports, NEW tok \in Tokens \cup {Nil}
    PROVE  ClaimsFromContext(RequestCtx(tr, tok)) = IF tok = Nil THEN Nil ELSE claimsFromToken(tok)
<1>1. tr \in {"http", "sdk", "bridged", "memory"}
  BY GateAssumption, Zenon
<1>2. CASE tok = Nil
  <2>1. RequestCtx(tr, tok) = [claims |-> Nil, raw |-> Nil, info |-> Nil]
    BY <1>2, Zenon DEF RequestCtx, Background
  <2> QED
    BY <1>2, <2>1 DEF ClaimsFromContext, ClaimsFrom
<1>3. CASE tok # Nil
  <2> DEFINE c == claimsFromToken(tok)
  <2>1. c # Nil /\ toTokenInfo(tok) # Nil
    BY <1>3, TokenFacts
  <2>2. toTokenInfo(tok) = [claims |-> c, raw |-> tok]
    BY DEF toTokenInfo
  <2> HIDE DEF c
  <2>3. CASE tr = "http"
    <3>1. RequestCtx(tr, tok) = WithRawToken(WithClaims(Background, c), tok)
      BY <1>3, <2>3, Zenon DEF RequestCtx, c
    <3>2. RequestCtx(tr, tok).claims = c
      BY <3>1 DEF WithRawToken, WithClaims, Background
    <3> QED
      BY <1>3, <2>1, <3>2, Zenon DEF ClaimsFromContext, ClaimsFrom, c
  <2>4. CASE tr = "sdk"
    <3>1. RequestCtx(tr, tok) = [Background EXCEPT !.info = toTokenInfo(tok)]
      <4>1. "sdk" # "http"
        OBVIOUS
      <4> QED
        BY <1>3, <2>4, <4>1, Zenon DEF RequestCtx
    <3>2. RequestCtx(tr, tok).claims = Nil /\ RequestCtx(tr, tok).info = toTokenInfo(tok)
      BY <3>1 DEF Background
    <3>3. toTokenInfo(tok).claims = c
      BY <2>2
    <3> QED
      BY <1>3, <2>1, <3>2, <3>3, Zenon DEF ClaimsFromContext, ClaimsFrom, c
  <2>5. CASE tr = "bridged"
    <3> DEFINE b == [Background EXCEPT !.info = toTokenInfo(tok)]
    <3>1. RequestCtx(tr, tok) = ContextBridge(b)
      <4>1. "bridged" # "http" /\ "bridged" # "sdk"
        OBVIOUS
      <4> QED
        BY <1>3, <2>5, <4>1, Zenon DEF RequestCtx
    <3>2. b.claims = Nil /\ b.info = toTokenInfo(tok) /\ DOMAIN b = {"claims", "raw", "info"}
      BY DEF Background
    <3>3. toTokenInfo(tok).claims = c
      BY <2>2
    <3> HIDE DEF b
    <3>4. ClaimsFromContext(b) = c
      BY <1>3, <2>1, <3>2, <3>3, Zenon DEF ClaimsFromContext, ClaimsFrom
    <3>5. ContextBridge(b).claims = c
      <4>1. WithClaims(b, c).claims = c /\ DOMAIN WithClaims(b, c) = {"claims", "raw", "info"}
        BY <3>2 DEF WithClaims
      <4>2. WithRawToken(WithClaims(b, c), RawTokenFromContext(b)).claims = c
        BY <4>1 DEF WithRawToken
      <4> QED
        BY <3>4, <4>2, Zenon DEF ContextBridge
    <3> QED
      BY <1>3, <2>1, <3>1, <3>5, Zenon DEF ClaimsFromContext, ClaimsFrom, c
  <2>6. CASE tr = "memory"
    <3>1. RequestCtx(tr, tok) = WithClaims(Background, c)
      <4>1. "memory" # "http" /\ "memory" # "sdk" /\ "memory" # "bridged"
        OBVIOUS
      <4> QED
        BY <1>3, <2>6, <4>1, Zenon DEF RequestCtx, c
    <3>2. RequestCtx(tr, tok).claims = c
      BY <3>1 DEF WithClaims, Background
    <3> QED
      BY <1>3, <2>1, <3>2, Zenon DEF ClaimsFromContext, ClaimsFrom, c
  <2> QED
    BY <1>1, <2>3, <2>4, <2>5, <2>6
<1> QED
  BY <1>2, <1>3

-----------------------------------------------------------------------------
\* The gate and its caller are ones that the constants name.
GateOK ==
    /\ Default \in Made \cup {Nil}
    /\ \A t \in DOMAIN Policies : Policies[t] \in Made \cup {Nil}
    /\ transport \in Transports
    /\ token \in Tokens \cup {Nil}

LEMMA GateOKInvariant == GateSpec => []GateOK
<1>1. GateInit => GateOK
  <2> SUFFICES ASSUME GateInit PROVE GateOK
    OBVIOUS
  <2>1. PICK g \in Gates : Policies = g[1] /\ Default = g[2]
    BY DEF GateInit
  <2>2. {g[2]} \cup Range(g[1]) \subseteq Made \cup {Nil}
    BY GateAssumption, Zenon DEF Made
  <2>3. \A t \in DOMAIN g[1] : g[1][t] \in Range(g[1])
    BY DEF Range
  <2>4. g[2] \in Made \cup {Nil} /\ \A t \in DOMAIN g[1] : g[1][t] \in Made \cup {Nil}
    BY <2>2, <2>3
  <2> QED
    BY <2>1, <2>4 DEF GateInit, GateOK
<1>2. GateOK /\ [GateNext]_gateVars => GateOK'
  <2> SUFFICES ASSUME GateOK, [GateNext]_gateVars PROVE GateOK'
    OBVIOUS
  <2>1. UNCHANGED <<Policies, Default, transport>> /\ (UNCHANGED token \/ token' \in Tokens)
    BY Zenon DEF GateNext, gateVars, filterList, gateCallUnauthenticated, gateCallDenied, gateCallGranted,
           gateCallPanics, StepUp, Terminating
  <2> QED
    BY <2>1 DEF GateOK
<1> QED
  BY <1>1, <1>2, PTL DEF GateSpec

LEMMA CallerClaims ==
    ASSUME GateOK
    PROVE  /\ claims = IF token = Nil THEN Nil ELSE claimsFromToken(token)
           /\ claims = Nil <=> token = Nil
  BY ContextClaims, TokenFacts DEF GateOK, claims

LEMMA EvaluatePermitted ==
    ASSUME GateOK, token # Nil, NEW t
    PROVE  /\ evaluate(t) = "ok" <=> Permitted(t)
           /\ evaluate(t) \in Verdicts
<1> DEFINE p == IF t \in DOMAIN Policies THEN Policies[t] ELSE Default
           c == claimsFromToken(token)
<1>1. p \in Made \cup {Nil} /\ token \in Tokens
  BY DEF GateOK
<1>2. claims = c
  BY CallerClaims
<1>3. p # Nil => /\ Authorize(p, c) = "ok" <=> Satisfies(token, p)
                 /\ Authorize(p, c) \in Verdicts
  <2>1. \A n \in DOMAIN token.private : IsValue(token.private[n])
    BY <1>1, TokenFacts
  <2>2. \A q \in Made : Authorize(q, c) = "ok" <=> Satisfies(token, q)
    BY <2>1, AuthorizeSatisfies, Zenon DEF Made
  <2>3. \A q \in Made : Authorize(q, c) \in Verdicts
    BY AuthorizeReturns, Zenon
  <2> QED
    BY <1>1, <2>2, <2>3, Zenon
<1>4. evaluate(t) = IF p = Nil THEN "ok" ELSE Authorize(p, c)
  BY <1>2, Zenon DEF evaluate, policyFor
<1>5. Permitted(t) <=> (p # Nil => Satisfies(token, p))
  BY Zenon DEF Permitted
<1> HIDE DEF p, c
<1>6. evaluate(t) = "ok" <=> Permitted(t)
  BY <1>3, <1>4, <1>5, Zenon
<1>7. evaluate(t) \in Verdicts
  BY <1>3, <1>4, Zenon DEF Verdicts
<1> QED
  BY <1>6, <1>7, Zenon

LEMMA VisiblePermitted ==
    ASSUME GateOK, NEW T
    PROVE  visible(T) = {t \in T : Permitted(t)}
<1>1. CASE token = Nil
  <2>1. visible(T) = {} /\ \A t \in T : ~Permitted(t)
    BY <1>1, CallerClaims, Zenon DEF visible, Permitted
  <2> QED
    BY <2>1
<1>2. CASE token # Nil
  <2>1. visible(T) = {t \in T : evaluate(t) = "ok"}
    BY <1>2, CallerClaims, Zenon DEF visible
  <2>2. \A t \in T : evaluate(t) = "ok" <=> Permitted(t)
    BY <1>2, EvaluatePermitted
  <2> QED
    BY <2>1, <2>2, Zenon
<1> QED
  BY <1>1, <1>2

\* The pages before page n, and what the caller has been shown: the tools on them that it
\* may call.
Before(n) == UNION {Pages[i] : i \in 1 .. n - 1}
Listing   == /\ page \in 1 .. Len(Pages) + 1
             /\ shown = {t \in Before(page) : Permitted(t)}

\* toolgate.go, filterList against gateCall: for every set of pages, policies and tokens, a
\* caller that has followed the cursor to its end has seen the tools it may call, all of
\* them and no other.
THEOREM ListedIsCallableHolds == GateSpec => []ListedIsCallable
<1>1. Len(Pages) \in Nat
  <2>1. Pages \in Seq(Range(Pages))
    BY GateAssumption, Zenon
  <2> QED
    BY <2>1
<1>2. GateInit => Listing
  <2> SUFFICES ASSUME GateInit PROVE Listing
    OBVIOUS
  <2>1. page = 1 /\ shown = {}
    BY DEF GateInit
  <2>2. Before(page) = {}
    BY <2>1 DEF Before
  <2> QED
    BY <1>1, <2>1, <2>2 DEF Listing
<1>3. Listing /\ GateOK /\ [GateNext]_gateVars => Listing'
  <2> SUFFICES ASSUME Listing, GateOK, [GateNext]_gateVars PROVE Listing'
    OBVIOUS
  <2>1. CASE filterList
    <3>1. page \in 1 .. Len(Pages) /\ page' = page + 1 /\ shown' = shown \cup visible(Pages[page])
      BY <1>1, <2>1 DEF filterList, Listing
    <3>2. \A t : Permitted(t)' <=> Permitted(t)
      BY <2>1, Zenon DEF filterList, Permitted
    <3>3. visible(Pages[page]) = {t \in Pages[page] : Permitted(t)}
      BY VisiblePermitted
    <3>4. Before(page') = Before(page) \cup Pages[page]
      BY <1>1, <3>1 DEF Before
    <3>5. shown' = {t \in Before(page') : Permitted(t)}
      BY <3>1, <3>3, <3>4 DEF Listing
    <3>6. page' \in 1 .. Len(Pages) + 1
      BY <1>1, <3>1
    <3>7. shown' = {t \in Before(page)' : Permitted(t)'}
      BY <3>2, <3>5, Zenon DEF Before
    <3> QED
      BY <3>6, <3>7, Zenon DEF Listing
  <2>2. CASE \E tok \in Tokens : StepUp(tok)
    <3>1. page' = 1 /\ shown' = {}
      BY <2>2 DEF StepUp
    <3>2. Before(page)' = {}
      BY <3>1 DEF Before
    <3> QED
      BY <1>1, <3>1, <3>2 DEF Listing
  <2>3. CASE UNCHANGED <<Policies, Default, token, page, shown>>
    <3>1. \A t : Permitted(t)' <=> Permitted(t)
      BY <2>3, Zenon DEF Permitted
    <3>2. {t \in Before(page)' : Permitted(t)'} = {t \in Before(page) : Permitted(t)}
      BY <2>3, <3>1, Zenon DEF Before
    <3> QED
      BY <2>3, <3>2, Zenon DEF Listing
  <2> QED
    BY <2>1, <2>2, <2>3, Zenon DEF GateNext, gateVars, gateCallUnauthenticated, gateCallDenied, gateCallGranted,
           gateCallPanics, Terminating
<1>4. Listing => ListedIsCallable
  <2> SUFFICES ASSUME Listing, page = Len(Pages) + 1 PROVE shown = {t \in Tools : Permitted(t)}
    BY DEF ListedIsCallable
  <2>1. page - 1 = Len(Pages)
    BY <1>1
  <2>2. Before(page) = Tools
    BY <2>1, Zenon DEF Before, Tools
  <2> QED
    BY <2>2, Zenon DEF Listing
<1> QED
  BY <1>2, <1>3, <1>4, GateOKInvariant, PTL DEF GateSpec

-----------------------------------------------------------------------------
\* The events that gateCall can record.
Subjects == {""} \cup {claimsFromToken(t).Subject : t \in Tokens}
Emails   == {<<>>} \cup {claimsFromToken(t).Email : t \in Tokens}
Outcomes == {"granted", "denied"}
Reasons  == {"", "unauthenticated", "insufficient_scope", "forbidden"}

Events == [Action : {"tool_call"}, Outcome : Outcomes, ReasonCode : Reasons,
           Tool : Tools, Subject : Subjects, Email : Emails]

LEMMA EventType ==
    ASSUME NEW o \in Outcomes, NEW r \in Reasons, NEW t \in Tools,
           NEW s \in Subjects, NEW m \in Emails
    PROVE  /\ Event(o, r, t, s, m) \in Events
           /\ Event(o, r, t, s, m).Outcome = o /\ Event(o, r, t, s, m).ReasonCode = r
           /\ Event(o, r, t, s, m).Tool = t
  BY DEF Event, Events

\* What gateCall decides: its event says so.
LEMMA DecisionIs ==
    ASSUME GateOK, NEW t \in Tools
    PROVE  /\ Decision(t) \in Events
           /\ Decision(t).Tool = t
           /\ Decision(t).Outcome = "granted" <=> Permitted(t)
           /\ Decision(t).Outcome = "granted" <=> token # Nil /\ evaluate(t) = "ok"
           /\ Decision(t).ReasonCode = IF token = Nil THEN "unauthenticated"
                                       ELSE IF evaluate(t) = "ok" THEN "" ELSE evaluate(t)
<1> DEFINE none == ""
<1>0. none \in Subjects /\ none \in Reasons /\ <<>> \in Emails
  BY Zenon DEF Subjects, Reasons, Emails
<1>1. CASE token = Nil
  <2>1. Decision(t) = Event("denied", "unauthenticated", t, none, <<>>)
    BY <1>1, CallerClaims, Zenon DEF Decision, Unauthenticated
  <2>2. ~Permitted(t)
    BY <1>1, Zenon DEF Permitted
  <2> HIDE DEF none
  <2>3. "denied" \in Outcomes /\ "unauthenticated" \in Reasons
    BY DEF Outcomes, Reasons
  <2>4. Decision(t) \in Events /\ Decision(t).Tool = t /\ Decision(t).Outcome = "denied"
        /\ Decision(t).ReasonCode = "unauthenticated"
    BY <1>0, <2>1, <2>3, EventType
  <2> QED
    BY <1>1, <2>2, <2>4
<1>2. CASE token # Nil
  <2> DEFINE s == claimsFromToken(token).Subject
             m == claimsFromToken(token).Email
             ok == evaluate(t) = "ok"
  <2>1. token \in Tokens /\ claims = claimsFromToken(token) /\ claims # Nil
    BY <1>2, CallerClaims, TokenFacts DEF GateOK
  <2>2. s \in Subjects /\ m \in Emails
    BY <2>1, Zenon DEF Subjects, Emails
  <2>3. /\ ok => Decision(t) = Event("granted", none, t, s, m)
        /\ ~ok => Decision(t) = Event("denied", evaluate(t), t, s, m)
    BY <2>1, Zenon DEF Decision, toolEvent
  <2>4. evaluate(t) \in Reasons \cup {"ok"}
    BY <1>2, EvaluatePermitted, Zenon DEF Verdicts, Reasons
  <2> HIDE DEF s, m
  <2>5. CASE ok
    <3> HIDE DEF none
    <3>1. Decision(t) = Event("granted", none, t, s, m) /\ evaluate(t) = "ok" /\ Permitted(t)
      BY <1>2, <2>3, <2>5, EvaluatePermitted
    <3>2. Decision(t) \in Events /\ Decision(t).Tool = t /\ Decision(t).Outcome = "granted"
          /\ Decision(t).ReasonCode = none
      <4>1. "granted" \in Outcomes
        BY DEF Outcomes
      <4> QED
        BY <1>0, <2>2, <3>1, <4>1, EventType
    <3> QED
      BY <1>2, <3>1, <3>2, Zenon DEF none
  <2>6. CASE ~ok
    <3>1. Decision(t) = Event("denied", evaluate(t), t, s, m) /\ evaluate(t) # "ok" /\ ~Permitted(t)
      BY <1>2, <2>3, <2>6, EvaluatePermitted, Zenon
    <3>2. evaluate(t) \in Reasons
      BY <2>4, <3>1
    <3>3. "denied" \in Outcomes
      BY DEF Outcomes
    <3>4. Decision(t) \in Events /\ Decision(t).Tool = t /\ Decision(t).Outcome = "denied"
          /\ Decision(t).ReasonCode = evaluate(t)
      BY <2>2, <3>1, <3>2, <3>3, EventType
    <3> QED
      BY <1>2, <3>1, <3>4
  <2> QED
    BY <2>5, <2>6, Zenon
<1> QED
  BY <1>1, <1>2, Zenon

\* A step that records: the first n sinks get the decision about tool t.
Records(t, n) ==
    /\ t \in Tools /\ n \in 1 .. Len(sinks)
    /\ \E recording \in BOOLEAN : logs' = Record(sinks, logs, Decision(t), recording, n)

LEMMA SinkFacts == Len(sinks) \in Nat \ {0} /\ sinks[1] = "slog"
<1>1. sinks \in Seq(Range(sinks)) /\ sinks # <<>> /\ sinks[1] = "slog"
  BY GateAssumption, Zenon
<1> QED
  BY <1>1

LEMMA StepRecords ==
    ASSUME GateOK, [GateNext]_gateVars
    PROVE  \/ UNCHANGED logs
           \/ \E t \in Tools, n \in 1 .. Len(sinks) : Records(t, n)
<1>1. Len(sinks) \in 1 .. Len(sinks) /\ \A n \in 1 .. Len(sinks) - 1 : n \in 1 .. Len(sinks)
  BY SinkFacts
<1>2. ASSUME NEW t \in Tools, gateCallUnauthenticated(t) PROVE Records(t, Len(sinks))
  BY <1>1, <1>2, Zenon DEF gateCallUnauthenticated, record, Records, Decision
<1>3. ASSUME NEW t \in Tools, gateCallDenied(t) PROVE Records(t, Len(sinks))
  BY <1>1, <1>3, Zenon DEF gateCallDenied, record, Records, Decision
<1>4. ASSUME NEW t \in Tools, gateCallGranted(t) PROVE Records(t, Len(sinks))
  BY <1>1, <1>4, Zenon DEF gateCallGranted, record, Records, Decision
<1>5. ASSUME NEW t \in Tools, gateCallPanics(t) PROVE \E n \in 1 .. Len(sinks) : Records(t, n)
  BY <1>1, <1>5, Zenon DEF gateCallPanics, Records
<1>6. \/ UNCHANGED logs
      \/ \E t \in Tools : gateCallUnauthenticated(t) \/ gateCallDenied(t) \/ gateCallGranted(t) \/ gateCallPanics(t)
  BY DEF GateNext, gateVars, filterList, StepUp, Terminating
<1> QED
  BY <1>1, <1>2, <1>3, <1>4, <1>5, <1>6, Zenon

\* What the sinks keep.
Recs(i) == {Recorded(sinks[i], e, TRUE) : e \in Events} \cup {Recorded(sinks[i], e, FALSE) : e \in Events}

LEMMA InRecs ==
    ASSUME NEW i, NEW e \in Events, NEW recording \in BOOLEAN
    PROVE  Recorded(sinks[i], e, recording) \in Recs(i)
<1>1. recording = TRUE \/ recording = FALSE
  OBVIOUS
<1> QED
  BY <1>1, Zenon DEF Recs
LogsOK  == /\ DOMAIN logs = 1 .. Len(sinks)
           /\ \A i \in 1 .. Len(sinks) : logs[i] \in Seq(Recs(i))

LEMMA LogsOKInvariant == GateSpec => []LogsOK
<1>1. GateInit => LogsOK
  BY DEF GateInit, LogsOK
<1>2. LogsOK /\ GateOK /\ [GateNext]_gateVars => LogsOK'
  <2> SUFFICES ASSUME LogsOK, GateOK, [GateNext]_gateVars PROVE LogsOK'
    OBVIOUS
  <2>1. CASE UNCHANGED logs
    BY <2>1, Zenon DEF LogsOK, Recs
  <2>2. ASSUME NEW t \in Tools, NEW n \in 1 .. Len(sinks), Records(t, n) PROVE LogsOK'
    <3> DEFINE e == Decision(t)
    <3>1. e \in Events
      BY DecisionIs, Zenon
    <3>2. PICK recording \in BOOLEAN :
              logs' = [i \in 1 .. Len(sinks) |->
                          IF i <= n THEN Append(logs[i], Recorded(sinks[i], e, recording)) ELSE logs[i]]
      BY <2>2, Zenon DEF Records, Record
    <3> HIDE DEF e
    <3>3. ASSUME NEW i \in 1 .. Len(sinks) PROVE logs'[i] \in Seq(Recs(i))
      <4>1. Recorded(sinks[i], e, recording) \in Recs(i) /\ logs[i] \in Seq(Recs(i))
        BY <3>1, InRecs, Zenon DEF LogsOK
      <4> QED
        BY <3>2, <4>1
    <3> QED
      BY <3>2, <3>3, Zenon DEF LogsOK, Recs
  <2> QED
    BY <2>1, <2>2, StepRecords
<1> QED
  BY <1>1, <1>2, GateOKInvariant, PTL DEF GateSpec

LEMMA LatestIs ==
    ASSUME GateOK, LogsOK, NEW t \in Tools, NEW n \in 1 .. Len(sinks), Records(t, n)
    PROVE  Latest = Decision(t)
<1> DEFINE e == Decision(t)
<1>1. e \in Events /\ logs[1] \in Seq(Recs(1)) /\ 1 \in 1 .. Len(sinks) /\ 1 <= n
  <2>1. e \in Events
    BY DecisionIs, Zenon
  <2>2. 1 \in 1 .. Len(sinks) /\ 1 <= n
    BY SinkFacts
  <2> QED
    BY <2>1, <2>2, Zenon DEF LogsOK
<1>2. PICK recording \in BOOLEAN : logs' = Record(sinks, logs, e, recording, n)
  BY Zenon DEF Records
<1>3. Recorded(sinks[1], e, recording) = e /\ e \in Recs(1)
  <2>1. "slog" # "otel"
    OBVIOUS
  <2>2. Recorded(sinks[1], e, recording) = e
    BY <2>1, SinkFacts, Zenon DEF Recorded
  <2> QED
    BY <1>1, <2>2, InRecs, Zenon
<1>4. logs'[1] = Append(logs[1], e)
  BY <1>1, <1>2, <1>3, Zenon DEF Record
<1> HIDE DEF e
<1> QED
  BY <1>1, <1>3, <1>4 DEF Latest, e

\* toolgate.go, gateCall: for every set of policies and tokens, and however a request reaches
\* the gate, a call is recorded as granted exactly if what the issuer put into the token
\* satisfies the tool's policy.
THEOREM GrantedIffPermittedHolds == GateSpec => GrantedIffPermitted
<1>1. GateOK /\ LogsOK /\ [GateNext]_gateVars
        => [logs' # logs => (Latest.Outcome = "granted" <=> Permitted(Latest.Tool))]_gateVars
  <2> SUFFICES ASSUME GateOK, LogsOK, [GateNext]_gateVars, logs' # logs
               PROVE  Latest.Outcome = "granted" <=> Permitted(Latest.Tool)
    OBVIOUS
  <2>1. PICK t \in Tools, n \in 1 .. Len(sinks) : Records(t, n)
    BY StepRecords, Zenon
  <2>2. Latest = Decision(t)
    BY <2>1, LatestIs
  <2>3. Decision(t).Tool = t /\ (Decision(t).Outcome = "granted" <=> Permitted(t))
    BY DecisionIs, Zenon
  <2> QED
    BY <2>2, <2>3, Zenon
<1> QED
  BY <1>1, GateOKInvariant, LogsOKInvariant, PTL DEF GateSpec, GrantedIffPermitted

\* A policy denies for want of scopes only if a scope it asks for is missing.
LEMMA ScopesSuffice ==
    ASSUME NEW tok, \A n \in DOMAIN tok.private : IsValue(tok.private[n]),
           \A p \in Made : p.scopes \subseteq GrantedScopes(tok.private)
    PROVE  \A p \in Made : Authorize(p, claimsFromToken(tok)) # "insufficient_scope"
<1> DEFINE c == claimsFromToken(tok)
           S == {p \in Made : Authorize(p, c) # "insufficient_scope"}
<1>1. ASSUME NEW p \in Made, \A i \in 1 .. Len(p.of) : p.of[i] \in S PROVE p \in S
  <2> DEFINE codes == [i \in 1 .. Len(p.of) |-> Authorize(p.of[i], c)]
  <2>1. p.op \in Constructors /\ p.of \in Seq(Made) /\ p.scopes \subseteq Range(c.Scopes)
    <3>1. c.Scopes = scopesFromToken(tok.private)
      BY ClaimsFields, Zenon
    <3>2. Range(scopesFromToken(tok.private)) = GrantedScopes(tok.private)
      BY ScopesGranted, Zenon
    <3> QED
      BY <3>1, <3>2, MadeOf, Zenon
  <2>2. Len(p.of) \in Nat /\ \A i \in 1 .. Len(p.of) : p.of[i] \in Made
    BY <2>1
  <2> HIDE DEF c
  <2>3. codes \in Seq(Verdicts) /\ DOMAIN codes = 1 .. Len(p.of)
    <3>1. \A i \in 1 .. Len(p.of) : Authorize(p.of[i], c) \in Verdicts
      BY <2>2, AuthorizeReturns, Zenon
    <3>2. codes \in Seq(Verdicts)
      BY <2>2, <3>1
    <3> QED
      BY <3>2, Zenon
  <2>4. \A i \in 1 .. Len(p.of) : codes[i] # "insufficient_scope"
    BY <1>1, Zenon
  <2>5. Authorize(p, c) = Result(p, codes, c)
    BY AuthorizeReturns, Zenon
  <2> HIDE DEF codes
  <2>6. /\ HasScopesResult(p.scopes, Range(c.Scopes)) = "ok"
        /\ HasAnyScopeResult(p.scopes, Range(c.Scopes)) = "ok"
    BY <2>1 DEF HasScopesResult, HasAnyScopeResult
  <2>7. /\ HasClaimResult(p.claim, c.Raw) # "insufficient_scope"
        /\ AnyOfResult(codes) # "insufficient_scope"
    BY DEF HasClaimResult, AnyOfResult
  <2>8. AllOfResult(codes) # "insufficient_scope"
    BY <2>3, <2>4, AllOfReturns
  <2>9. "ok" # "insufficient_scope" /\ "forbidden" # "insufficient_scope"
    OBVIOUS
  <2>10. Result(p, codes, c) # "insufficient_scope"
    BY <2>1, <2>6, <2>7, <2>8, <2>9, ZenonT(60) DEF Result, Constructors
  <2> QED
    BY <2>5, <2>10, Zenon
<1>2. \A p \in Made : p \in S
  <2> HIDE DEF S
  <2> QED
    BY <1>1, PolicyInduction, Zenon
<1> QED
  BY <1>2, Zenon

\* errors.go:86-90 through authorizer.go: a caller with every scope that a policy asks for
\* is never told to step up, whatever policies are nested.
THEOREM StepUpCanHelpHolds == GateSpec => StepUpCanHelp
<1> DEFINE Full == \A p \in Range(Authorizers) : p.scopes \subseteq GrantedScopes(token.private)
<1>1. ASSUME GateOK, LogsOK, [GateNext]_gateVars, logs' # logs, token # Nil, Full
      PROVE  Latest.ReasonCode # "insufficient_scope"
  <2>1. PICK t \in Tools, n \in 1 .. Len(sinks) : Records(t, n)
    BY <1>1, StepRecords, Zenon
  <2>2. Latest.ReasonCode = IF evaluate(t) = "ok" THEN "" ELSE evaluate(t)
    <3>1. Latest = Decision(t)
      BY <1>1, <2>1, LatestIs
    <3>2. Decision(t).ReasonCode = IF evaluate(t) = "ok" THEN "" ELSE evaluate(t)
      BY <1>1, DecisionIs, Zenon
    <3> QED
      BY <3>1, <3>2, Zenon
  <2>3. evaluate(t) # "insufficient_scope"
    <3> DEFINE p == policyFor(t)
    <3>1. token \in Tokens /\ claims = claimsFromToken(token) /\ p \in Made \cup {Nil}
      BY <1>1, CallerClaims DEF GateOK, policyFor
    <3>2. \A n1 \in DOMAIN token.private : IsValue(token.private[n1])
      BY <3>1, TokenFacts
    <3>3. \A q \in Made : Authorize(q, claims) # "insufficient_scope"
      BY <1>1, <3>1, <3>2, ScopesSuffice, Zenon DEF Made
    <3>4. "ok" # "insufficient_scope"
      OBVIOUS
    <3> QED
      BY <3>1, <3>3, <3>4, Zenon DEF evaluate
  <2> QED
    BY <2>2, <2>3, Zenon
<1>2. GateOK /\ LogsOK /\ [GateNext]_gateVars
        => [logs' # logs /\ token # Nil /\ Full => Latest.ReasonCode # "insufficient_scope"]_gateVars
  BY <1>1, Zenon
<1> QED
  BY <1>2, GateOKInvariant, LogsOKInvariant, PTL DEF GateSpec, StepUpCanHelp
-----------------------------------------------------------------------------
\* The loop that selects records, unfolded.
LEMMA AtLoopRuns ==
    ASSUME NEW S, NEW s \in Seq(S), NEW places
    PROVE  /\ AtLoop(s, places) \in [0 .. Len(s) -> Seq(S)]
           /\ AtLoop(s, places)[0] = <<>>
           /\ \A i \in 1 .. Len(s) :
                AtLoop(s, places)[i] = IF i \in places THEN Append(AtLoop(s, places)[i - 1], s[i])
                                       ELSE AtLoop(s, places)[i - 1]
<1> DEFINE N == Len(s)
           V == Seq(S)
           Step(acc, i) == IF i \in places THEN Append(acc, s[i]) ELSE acc
           body == [i \in 1 .. N |-> [acc \in V |-> Step(acc, i)]]
           Unfolds(g) == g = [i \in 0 .. N |-> IF i = 0 THEN <<>> ELSE Step(g[i - 1], i)]
<1>1. N \in Nat /\ <<>> \in V
  OBVIOUS
<1>2. LoopBody(body, N, V)
  <2>1. \A i \in 1 .. N : s[i] \in S
    OBVIOUS
  <2> QED
    BY <2>1 DEF LoopBody
<1>3. PICK g \in [0 .. N -> V] : Loops(g, <<>>, body, N)
  <2> HIDE DEF N, V, body, Unfolds
  <2> QED
    BY <1>1, <1>2, LoopExists
<1>4. ASSUME NEW i \in 1 .. N PROVE g[i] = Step(g[i - 1], i)
  <2>1. g[i - 1] \in V
    <3> HIDE DEF N, V
    <3> QED
      BY <1>1
  <2>2. g[i] = body[i][g[i - 1]]
    BY <1>3, Zenon DEF Loops
  <2> QED
    BY <2>1, <2>2
<1>5. Unfolds(g)
  <2> HIDE DEF Step
  <2> QED
    BY <1>1, <1>3, <1>4 DEF Loops
<1>6. Unfolds(AtLoop(s, places))
  <2>1. AtLoop(s, places) = CHOOSE h : Unfolds(h)
    BY DEF AtLoop
  <2> HIDE DEF Unfolds
  <2> QED
    BY <1>5, <2>1
<1> DEFINE loop == AtLoop(s, places)
           G == {i \in 0 .. N : loop[i] \in V}
<1>7. loop[0] = <<>>
  <2>1. 0 \in 0 .. N
    BY <1>1
  <2> QED
    BY <1>6, <2>1, Zenon
<1>8. ASSUME NEW i \in 1 .. N PROVE loop[i] = Step(loop[i - 1], i)
  <2>1. i \in 0 .. N /\ i # 0
    BY <1>1
  <2> QED
    BY <1>6, <2>1, Zenon
<1>9. \A i \in 0 .. N : i \in G
  <2>1. 0 \in G
    <3>1. 0 \in 0 .. N
      BY <1>1
    <3> QED
      BY <1>1, <1>7, <3>1, Zenon
  <2>2. ASSUME NEW i \in 1 .. N, i - 1 \in G PROVE i \in G
    <3>1. s[i] \in S /\ loop[i - 1] \in V /\ i \in 0 .. N
      BY <1>1, <2>2
    <3>2. Step(loop[i - 1], i) \in V
      BY <3>1
    <3> QED
      BY <1>8, <3>1, <3>2, Zenon
  <2> HIDE DEF G, N
  <2> QED
    BY <1>1, <2>1, <2>2, LoopInduction, Zenon
<1>10. loop \in [0 .. N -> V]
  <2>1. DOMAIN loop = 0 .. N
    BY <1>6, Zenon
  <2>2. loop = [i \in 0 .. N |-> loop[i]]
    BY <1>6, <2>1, Zenon
  <2> HIDE DEF loop
  <2> QED
    BY <1>9, <2>2
<1> QED
  BY <1>7, <1>8, <1>10, Zenon

LEMMA AtAppend ==
    ASSUME NEW S, NEW s \in Seq(S), NEW y \in S, NEW places, NEW more,
           \A i \in 1 .. Len(s) : i \in more <=> i \in places
    PROVE  /\ At(s, places) \in Seq(S)
           /\ At(Append(s, y), more) = IF Len(s) + 1 \in more THEN Append(At(s, places), y) ELSE At(s, places)
<1> DEFINE N == Len(s)
           s2 == Append(s, y)
           a == AtLoop(s, places)
           b == AtLoop(s2, more)
           G == {i \in 0 .. N : b[i] = a[i]}
<1>1. N \in Nat /\ s2 \in Seq(S) /\ Len(s2) = N + 1 /\ s2[N + 1] = y /\ \A i \in 1 .. N : s2[i] = s[i]
  OBVIOUS
<1>2. /\ a \in [0 .. N -> Seq(S)] /\ a[0] = <<>>
      /\ \A i \in 1 .. N : a[i] = IF i \in places THEN Append(a[i - 1], s[i]) ELSE a[i - 1]
  BY AtLoopRuns
<1> HIDE DEF s2, a, b
<1>3. /\ b[0] = <<>>
      /\ \A i \in 1 .. N + 1 : b[i] = IF i \in more THEN Append(b[i - 1], s2[i]) ELSE b[i - 1]
  BY <1>1, AtLoopRuns DEF b
<1>4. 0 \in G
  BY <1>1, <1>2, <1>3
<1>5. ASSUME NEW i \in 1 .. N, i - 1 \in G PROVE i \in G
  <2>1. b[i - 1] = a[i - 1] /\ i \in 1 .. N + 1 /\ i \in 0 .. N
    BY <1>1, <1>5
  <2>2. b[i] = a[i]
    BY <1>1, <1>2, <1>3, <2>1, Zenon
  <2> QED
    BY <2>1, <2>2
<1>6. \A i \in 0 .. N : i \in G
  <2> HIDE DEF N, G
  <2> QED
    BY <1>1, <1>4, <1>5, LoopInduction, Zenon
<1>7. b[N] = a[N] /\ N + 1 \in 1 .. N + 1 /\ N + 1 - 1 = N
  BY <1>1, <1>6
<1>8. b[N + 1] = IF N + 1 \in more THEN Append(a[N], y) ELSE a[N]
  <2>1. b[N + 1] = IF N + 1 \in more THEN Append(b[N], s2[N + 1]) ELSE b[N]
    <3>1. \A i \in 1 .. N + 1 : b[i] = IF i \in more THEN Append(b[i - 1], s2[i]) ELSE b[i - 1]
      BY <1>3, Zenon
    <3> HIDE DEF N
    <3> QED
      BY <1>1, <1>7, <3>1
  <2> QED
    BY <1>1, <1>7, <2>1, Zenon
<1>9. At(s2, more) = b[N + 1] /\ At(s, places) = a[N]
  BY <1>1 DEF At, a, b
<1>10. a[N] \in Seq(S)
  BY <1>1, <1>2
<1> QED
  BY <1>8, <1>9, <1>10, Zenon DEF s2

LEMMA AppendPlaces ==
    ASSUME NEW S, NEW s \in Seq(S), NEW y \in S
    PROVE  /\ DOMAIN s = 1 .. Len(s) /\ DOMAIN Append(s, y) = 1 .. Len(s) + 1 /\ Len(s) + 1 \in 1 .. Len(s) + 1
           /\ Append(s, y)[Len(s) + 1] = y
           /\ \A i \in 1 .. Len(s) : Append(s, y)[i] = s[i] /\ i \in 1 .. Len(s) + 1
OBVIOUS

LEMMA WithAppend ==
    ASSUME NEW S, NEW s \in Seq(S), NEW y \in S, NEW attrs
    PROVE  /\ With(s, attrs) \in Seq(S)
           /\ With(Append(s, y), attrs) = IF attrs \subseteq y THEN Append(With(s, attrs), y) ELSE With(s, attrs)
<1> DEFINE s2 == Append(s, y)
           P == {i \in DOMAIN s : attrs \subseteq s[i]}
           Q == {i \in DOMAIN s2 : attrs \subseteq s2[i]}
<1>1. (\A i \in 1 .. Len(s) : i \in Q <=> i \in P) /\ (Len(s) + 1 \in Q <=> attrs \subseteq y)
  BY AppendPlaces
<1>2. With(s, attrs) = At(s, P) /\ With(s2, attrs) = At(s2, Q)
  BY Zenon DEF With
<1> HIDE DEF P, Q
<1>3. At(s, P) \in Seq(S) /\ At(s2, Q) = IF Len(s) + 1 \in Q THEN Append(At(s, P), y) ELSE At(s, P)
  BY <1>1, AtAppend
<1> QED
  BY <1>1, <1>2, <1>3, Zenon

\* Counting the records of a sink.
LEMMA CountAppend ==
    ASSUME NEW S, NEW s \in Seq(S), NEW y \in S, NEW x
    PROVE  /\ Count(s, x) \in Nat
           /\ Count(Append(s, y), x) = Count(s, x) + IF y = x THEN 1 ELSE 0
<1> DEFINE s2 == Append(s, y)
           P == {i \in DOMAIN s : s[i] = x}
           Q == {i \in DOMAIN s2 : s2[i] = x}
<1>1. (\A i \in 1 .. Len(s) : i \in Q <=> i \in P) /\ (Len(s) + 1 \in Q <=> y = x)
  BY AppendPlaces
<1>2. Count(s, x) = Len(At(s, P)) /\ Count(s2, x) = Len(At(s2, Q))
  BY Zenon DEF Count
<1> HIDE DEF P, Q
<1>3. At(s, P) \in Seq(S) /\ At(s2, Q) = IF Len(s) + 1 \in Q THEN Append(At(s, P), y) ELSE At(s, P)
  BY <1>1, AtAppend
<1> DEFINE z == At(s, P)
<1>4. z \in Seq(S) /\ At(s2, Q) = IF y = x THEN Append(z, y) ELSE z
  BY <1>1, <1>3, Zenon
<1> HIDE DEF z
<1>5. Len(z) \in Nat /\ Len(At(s2, Q)) = Len(z) + IF y = x THEN 1 ELSE 0
  BY <1>4
<1> QED
  BY <1>2, <1>5, Zenon DEF z
-----------------------------------------------------------------------------
\* What the attributes of an event tell.
LEMMA PairEqual ==
    ASSUME NEW a, NEW b, NEW c, NEW d
    PROVE  <<a, b>> = <<c, d>> <=> a = c /\ b = d
  OBVIOUS

LEMMA PairIn ==
    ASSUME NEW k, NEW v, NEW name, NEW x, NEW none
    PROVE  <<k, v>> \in {<<name, y>> : y \in {x} \ {none}} <=> k = name /\ v = x /\ v # none
  OBVIOUS

LEMMA Attributes ==
    ASSUME NEW e \in Events
    PROVE  /\ \A o : <<"outcome", o>> \in TraceAttributes(e) <=> o = e.Outcome
           /\ \A t : <<"tool", t>> \in TraceAttributes(e) <=> t = e.Tool
           /\ \A r : <<"reason_code", r>> \in TraceAttributes(e) <=> r = e.ReasonCode /\ r # ""
           /\ MetricLabels(e) \subseteq TraceAttributes(e)
           /\ \A o : <<"outcome", o>> \in TraceAttributes(e) => <<"outcome", o>> \in MetricLabels(e)
           /\ \A r : <<"reason_code", r>> \in TraceAttributes(e) => <<"reason_code", r>> \in MetricLabels(e)
<1>1. e.Tool # ""
  <2>1. e.Tool \in Tools
    BY DEF Events
  <2>2. "" \notin Tools
    BY GateAssumption, Zenon
  <2> QED
    BY <2>1, <2>2, Zenon
<1>2. ASSUME NEW k, NEW v
      PROVE  <<k, v>> \in TraceAttributes(e) <=>
                \/ k = "action" /\ v = e.Action
                \/ k = "outcome" /\ v = e.Outcome
                \/ k = "reason_code" /\ v = e.ReasonCode /\ v # ""
                \/ k = "tool" /\ v = e.Tool /\ v # ""
                \/ k = "subject" /\ v = e.Subject /\ v # ""
  <2> DEFINE A == <<k, v>> = <<"action", e.Action>>
             B == <<k, v>> = <<"outcome", e.Outcome>>
             C == <<k, v>> \in {<<"reason_code", y>> : y \in {e.ReasonCode} \ {""}}
             D == <<k, v>> \in {<<"tool", y>> : y \in {e.Tool} \ {""}}
             E == <<k, v>> \in {<<"subject", y>> : y \in {e.Subject} \ {""}}
  <2>1. <<k, v>> \in TraceAttributes(e) <=> A \/ B \/ C \/ D \/ E
    BY Zenon DEF TraceAttributes, MetricLabels
  <2>2. A <=> k = "action" /\ v = e.Action
    BY PairEqual, Zenon
  <2>3. B <=> k = "outcome" /\ v = e.Outcome
    BY PairEqual, Zenon
  <2>4. C <=> k = "reason_code" /\ v = e.ReasonCode /\ v # ""
    BY PairIn, Zenon
  <2>5. D <=> k = "tool" /\ v = e.Tool /\ v # ""
    BY PairIn, Zenon
  <2>6. E <=> k = "subject" /\ v = e.Subject /\ v # ""
    BY PairIn, Zenon
  <2> HIDE DEF A, B, C, D, E
  <2> QED
    BY <2>1, <2>2, <2>3, <2>4, <2>5, <2>6, Zenon
<1>3. /\ "outcome" # "action" /\ "outcome" # "reason_code" /\ "outcome" # "tool" /\ "outcome" # "subject"
      /\ "tool" # "action" /\ "tool" # "reason_code" /\ "tool" # "subject"
      /\ "reason_code" # "action" /\ "reason_code" # "subject"
  OBVIOUS
<1>4. MetricLabels(e) \subseteq TraceAttributes(e)
  BY Zenon DEF TraceAttributes
<1>5. ASSUME NEW o, <<"outcome", o>> \in TraceAttributes(e) PROVE <<"outcome", o>> \in MetricLabels(e)
  <2>1. o = e.Outcome
    BY <1>2, <1>3, <1>5, Zenon
  <2> QED
    BY <2>1, Zenon DEF MetricLabels
<1>6. ASSUME NEW r, <<"reason_code", r>> \in TraceAttributes(e) PROVE <<"reason_code", r>> \in MetricLabels(e)
  <2>1. r = e.ReasonCode /\ r # ""
    BY <1>2, <1>3, <1>6, Zenon
  <2>2. <<"reason_code", r>> \in {<<"reason_code", y>> : y \in {e.ReasonCode} \ {""}}
    BY <2>1, PairIn, Zenon
  <2> QED
    BY <2>2, Zenon DEF MetricLabels
<1> QED
  BY <1>1, <1>2, <1>3, <1>4, <1>5, <1>6, Zenon

\* What a record of a sink says, before and after it records.
Said(i, x) == IF sinks[i] = "otel" THEN x.labels \cup x.span ELSE TraceAttributes(x)
Views(e)   == {MetricLabels(e), TraceAttributes(e)}
ViewSet    == UNION {Views(e) : e \in Events}

LEMMA SaidOfRecorded ==
    ASSUME NEW i, NEW e \in Events, NEW recording \in BOOLEAN
    PROVE  /\ Said(i, Recorded(sinks[i], e, recording)) \in Views(e)
           /\ sinks[i] # "otel" => Said(i, Recorded(sinks[i], e, recording)) = TraceAttributes(e)
<1> DEFINE x == Recorded(sinks[i], e, recording)
<1>1. CASE sinks[i] = "otel"
  <2> DEFINE sp == IF recording THEN TraceAttributes(e) ELSE {}
             ml == MetricLabels(e)
  <2>1. x = [labels |-> ml, span |-> sp]
    BY <1>1, Zenon DEF Recorded
  <2>2. ml \subseteq TraceAttributes(e)
    BY Attributes, Zenon
  <2>3. sp = TraceAttributes(e) \/ sp = {}
    BY Zenon
  <2> HIDE DEF sp, ml
  <2>4. x.labels = ml /\ x.span = sp
    BY <2>1
  <2>5. ml \cup sp = TraceAttributes(e) \/ ml \cup sp = ml
    BY <2>2, <2>3
  <2> QED
    BY <1>1, <2>4, <2>5, Zenon DEF Said, Views, ml
<1>2. CASE sinks[i] # "otel"
  BY <1>2, Zenon DEF Recorded, Said, Views
<1> QED
  BY <1>1, <1>2, Zenon

LEMMA ViewType ==
    ASSUME LogsOK, NEW i \in 1 .. Len(sinks)
    PROVE  View(i) \in Seq(ViewSet) /\ Len(View(i)) = Len(logs[i])
<1> DEFINE l == logs[i]
<1>1. l \in Seq(Recs(i))
  BY DEF LogsOK
<1>2. View(i) = [n \in 1 .. Len(l) |-> Said(i, l[n])]
  BY Zenon DEF View, Said
<1>3. \A x \in Recs(i) : Said(i, x) \in ViewSet
  <2>1. \A e \in Events, recording \in BOOLEAN : Said(i, Recorded(sinks[i], e, recording)) \in Views(e)
    BY SaidOfRecorded, Zenon
  <2>2. TRUE \in BOOLEAN /\ FALSE \in BOOLEAN
    OBVIOUS
  <2> QED
    BY <2>1, <2>2, Zenon DEF Recs, ViewSet
<1> HIDE DEF l
<1>4. Len(l) \in Nat /\ \A n \in 1 .. Len(l) : Said(i, l[n]) \in ViewSet
  BY <1>1, <1>3
<1>5. View(i) \in Seq(ViewSet)
  BY <1>2, <1>4
<1>6. Len(View(i)) = Len(l)
  BY <1>2, <1>4, <1>5
<1> QED
  BY <1>5, <1>6 DEF l

LEMMA ViewRecords ==
    ASSUME GateOK, LogsOK, NEW t \in Tools, NEW n \in 1 .. Len(sinks), Records(t, n),
           NEW i \in 1 .. Len(sinks)
    PROVE  \E v \in Views(Decision(t)) :
              /\ i = 1 => v = TraceAttributes(Decision(t))
              /\ View(i)' = IF i <= n THEN Append(View(i), v) ELSE View(i)
<1>1. PICK recording \in BOOLEAN : logs' = Record(sinks, logs, Decision(t), recording, n)
  BY Zenon DEF Records
<1> DEFINE e == Decision(t)
           l == logs[i]
           x1 == Recorded(sinks[i], e, recording)
           v == Said(i, x1)
<1>2. l \in Seq(Recs(i)) /\ e \in Events
  BY DecisionIs, Zenon DEF LogsOK
<1>3. View(i) = [k \in 1 .. Len(l) |-> Said(i, l[k])] /\ View(i)' = [k \in 1 .. Len(logs'[i]) |-> Said(i, logs'[i][k])]
  BY Zenon DEF View, Said
<1>4. logs'[i] = IF i <= n THEN Append(l, x1) ELSE l
  BY <1>1, Zenon DEF Record
<1>5. x1 \in Recs(i) /\ v \in Views(e) /\ v \in ViewSet /\ (sinks[i] # "otel" => v = TraceAttributes(e))
  <2>1. x1 \in Recs(i)
    BY <1>2, InRecs, Zenon
  <2> QED
    BY <1>2, <2>1, SaidOfRecorded, Zenon DEF ViewSet
<1>6. View(i) \in Seq(ViewSet) /\ Len(View(i)) = Len(l)
  BY ViewType
<1>7. i = 1 => v = TraceAttributes(e)
  <2>1. "slog" # "otel"
    OBVIOUS
  <2> QED
    BY <1>5, <2>1, SinkFacts, Zenon
<1> HIDE DEF e, l, x1
<1>8. CASE i <= n
  <2> DEFINE l2 == Append(l, x1)
             b == Append(View(i), v)
             c == [k \in 1 .. Len(l2) |-> Said(i, l2[k])]
  <2>1. Len(l) \in Nat /\ Len(l2) = Len(l) + 1 /\ l2[Len(l) + 1] = x1 /\ \A k \in 1 .. Len(l) : l2[k] = l[k]
    BY <1>2, <1>5
  <2>2. b \in Seq(ViewSet) /\ Len(b) = Len(l) + 1 /\ b[Len(l) + 1] = v /\ \A k \in 1 .. Len(l) : b[k] = View(i)[k]
    <3> HIDE DEF v
    <3> QED
      BY <1>2, <1>5, <1>6
  <2>3. \A k \in 1 .. Len(l) : View(i)[k] = Said(i, l[k])
    BY <1>3, Zenon
  <2> HIDE DEF l2, b
  <2>4. \A k \in 1 .. Len(l) + 1 : b[k] = Said(i, l2[k])
    <3>1. b[Len(l) + 1] = Said(i, l2[Len(l) + 1])
      BY <2>1, <2>2, Zenon
    <3>2. \A k \in 1 .. Len(l) : b[k] = Said(i, l2[k])
      BY <2>1, <2>2, <2>3, Zenon
    <3>3. \A k \in 1 .. Len(l) + 1 : k \in 1 .. Len(l) \/ k = Len(l) + 1
      BY <2>1
    <3> QED
      BY <3>1, <3>2, <3>3, Zenon
  <2>5. b = [k \in 1 .. Len(l) + 1 |-> b[k]]
    BY <2>1, <2>2
  <2>6. b = c
    BY <2>1, <2>4, <2>5, Zenon
  <2>7. View(i)' = c
    BY <1>3, <1>4, <1>8, Zenon DEF l2
  <2>8. View(i)' = Append(View(i), v)
    BY <2>6, <2>7, Zenon DEF b
  <2> HIDE DEF v
  <2> QED
    BY <1>5, <1>7, <1>8, <2>8, Zenon DEF e
<1>9. CASE ~(i <= n)
  <2>1. View(i)' = View(i)
    BY <1>3, <1>4, <1>9, Zenon DEF l
  <2> HIDE DEF v
  <2> QED
    BY <1>5, <1>7, <1>9, <2>1, Zenon DEF e
<1> QED
  BY <1>8, <1>9, Zenon

\* What a sink reports after a decision: one record more with the attributes that are in it.
LEMMA ReportedRecords ==
    ASSUME GateOK, LogsOK, NEW t \in Tools, NEW n \in 1 .. Len(sinks), Records(t, n),
           NEW i \in 1 .. Len(sinks)
    PROVE  \E v \in Views(Decision(t)) :
              /\ i = 1 => v = TraceAttributes(Decision(t))
              /\ \A a : /\ Reported(i, a) \in Nat
                        /\ Reported(i, a)' = Reported(i, a) + IF i <= n /\ a \subseteq v THEN 1 ELSE 0
<1>1. PICK v \in Views(Decision(t)) :
              /\ i = 1 => v = TraceAttributes(Decision(t))
              /\ View(i)' = IF i <= n THEN Append(View(i), v) ELSE View(i)
  BY ViewRecords
<1>2. View(i) \in Seq(ViewSet) /\ v \in ViewSet
  <2>1. Decision(t) \in Events
    BY DecisionIs, Zenon
  <2> QED
    BY <1>1, <2>1, ViewType, Zenon DEF ViewSet
<1>3. ASSUME NEW a
      PROVE  /\ Reported(i, a) \in Nat
             /\ Reported(i, a)' = Reported(i, a) + IF i <= n /\ a \subseteq v THEN 1 ELSE 0
  <2> DEFINE w == With(View(i), a)
             u == With(View(i)', a)
  <2>1. w \in Seq(ViewSet) /\ u = IF i <= n /\ a \subseteq v THEN Append(w, v) ELSE w
    <3>1. w \in Seq(ViewSet) /\ With(Append(View(i), v), a) = IF a \subseteq v THEN Append(w, v) ELSE w
      BY <1>2, WithAppend
    <3> QED
      BY <1>1, <3>1, Zenon
  <2>2. Reported(i, a) = Len(w) /\ Reported(i, a)' = Len(u)
    BY Zenon DEF Reported
  <2> HIDE DEF w, u
  <2>3. Len(w) \in Nat /\ Len(u) = Len(w) + IF i <= n /\ a \subseteq v THEN 1 ELSE 0
    BY <1>2, <2>1
  <2> QED
    BY <2>2, <2>3, Zenon
<1> QED
  BY <1>1, <1>3, Zenon
-----------------------------------------------------------------------------
LEMMA GateCalls ==
    ASSUME GateOK, NEW t \in Tools
    PROVE  /\ gateCallUnauthenticated(t) =>
                Records(t, Len(sinks)) /\ token = Nil
           /\ gateCallDenied(t) => Records(t, Len(sinks)) /\ token # Nil /\ evaluate(t) # "ok"
           /\ gateCallGranted(t) => Records(t, Len(sinks)) /\ token # Nil /\ evaluate(t) = "ok"
           /\ gateCallPanics(t) => \E n \in 1 .. Len(sinks) - 1 : Records(t, n)
<1>1. Len(sinks) \in 1 .. Len(sinks) /\ \A n \in 1 .. Len(sinks) - 1 : n \in 1 .. Len(sinks)
  BY SinkFacts
<1>2. claims = Nil <=> token = Nil
  BY CallerClaims
<1>3. gateCallUnauthenticated(t) => Records(t, Len(sinks)) /\ token = Nil
  BY <1>1, <1>2, Zenon DEF gateCallUnauthenticated, record, Records, Decision
<1>4. gateCallDenied(t) => Records(t, Len(sinks)) /\ token # Nil /\ evaluate(t) # "ok"
  BY <1>1, <1>2, Zenon DEF gateCallDenied, record, Records, Decision
<1>5. gateCallGranted(t) => Records(t, Len(sinks)) /\ token # Nil /\ evaluate(t) = "ok"
  BY <1>1, <1>2, Zenon DEF gateCallGranted, record, Records, Decision
<1>6. gateCallPanics(t) => \E n \in 1 .. Len(sinks) - 1 : Records(t, n)
  BY <1>1, Zenon DEF gateCallPanics, Records
<1> QED
  BY <1>3, <1>4, <1>5, <1>6

Granted    == {<<"outcome", "granted">>}
Allowed(t) == token # Nil /\ evaluate(t) = "ok"
Codes   == {"unauthenticated", "insufficient_scope", "forbidden"}

\* What the views of a decision say of it: the labels are enough for the outcome and the
\* reason, the tool takes the attributes.
LEMMA DecisionViews ==
    ASSUME GateOK, NEW t \in Tools, NEW v \in Views(Decision(t))
    PROVE  /\ Granted \subseteq v <=> Allowed(t)
           /\ \A u : GrantedTo(u) \subseteq v => u = t /\ Allowed(t)
           /\ v = TraceAttributes(Decision(t)) => \A u : GrantedTo(u) \subseteq v <=> u = t /\ Allowed(t)
           /\ \A r \in Codes : DeniedFor(r) \subseteq v <=> ~Allowed(t) /\ r = Decision(t).ReasonCode
<1> DEFINE e == Decision(t)
           ok == Allowed(t)
<1>1. e \in Events /\ e.Tool = t /\ (e.Outcome = "granted" <=> ok)
  BY DecisionIs, Zenon DEF Allowed
<1>2. e.Outcome = "denied" <=> ~ok
  <2>1. e.Outcome \in Outcomes
    BY <1>1, Zenon DEF Events
  <2> QED
    BY <1>1, <2>1, Zenon DEF Outcomes
<1>3. /\ \A o : <<"outcome", o>> \in TraceAttributes(e) <=> o = e.Outcome
      /\ \A u : <<"tool", u>> \in TraceAttributes(e) <=> u = e.Tool
      /\ \A r : <<"reason_code", r>> \in TraceAttributes(e) <=> r = e.ReasonCode /\ r # ""
      /\ MetricLabels(e) \subseteq TraceAttributes(e)
      /\ \A o : <<"outcome", o>> \in TraceAttributes(e) => <<"outcome", o>> \in MetricLabels(e)
      /\ \A r : <<"reason_code", r>> \in TraceAttributes(e) => <<"reason_code", r>> \in MetricLabels(e)
  BY <1>1, Attributes, Zenon
<1>4. /\ \A o : <<"outcome", o>> \in v <=> o = e.Outcome
      /\ \A u : <<"tool", u>> \in v => u = e.Tool
      /\ \A r : <<"reason_code", r>> \in v <=> r = e.ReasonCode /\ r # ""
  <2>1. v = MetricLabels(e) \/ v = TraceAttributes(e)
    BY Zenon DEF Views
  <2> HIDE DEF e
  <2> QED
    BY <1>3, <2>1, Zenon
<1>5. \A r \in Codes : r # ""
  BY Zenon DEF Codes
<1> HIDE DEF e
<1>6. Granted \subseteq v <=> ok
  <2>1. Granted \subseteq v <=> <<"outcome", "granted">> \in v
    BY DEF Granted
  <2> QED
    BY <1>1, <1>4, <2>1, Zenon
<1>7. \A u : GrantedTo(u) \subseteq v => u = t /\ ok
  BY <1>1, <1>4, Zenon DEF GrantedTo
<1>8. v = TraceAttributes(e) => \A u : GrantedTo(u) \subseteq v <=> u = t /\ ok
  BY <1>1, <1>3, Zenon DEF GrantedTo
<1>9. \A r \in Codes : DeniedFor(r) \subseteq v <=> ~ok /\ r = e.ReasonCode
  BY <1>2, <1>4, <1>5, Zenon DEF DeniedFor
<1> QED
  BY <1>6, <1>7, <1>8, <1>9, Zenon DEF e
-----------------------------------------------------------------------------
\* The three parts of AuditMatchesOutcome, each an invariant.
HandedRecorded ==
    /\ handed \in Seq(Tools)
    /\ Reported(Len(sinks), Granted) = Len(handed)
    /\ \A t \in Tools : /\ Reported(Len(sinks), GrantedTo(t)) <= Count(handed, t)
                        /\ Count(handed, t) <= Reported(1, GrantedTo(t))

RepliesRecorded ==
    /\ replies \in Seq(Reasons)
    /\ \A r \in Codes : Reported(Len(sinks), DeniedFor(r)) = Count(replies, r)

SinksOrdered == \A i \in 1 .. Len(sinks) : \A a : Reported(i, a) <= Reported(1, a)

LEMMA WithEmpty ==
    ASSUME NEW S, NEW s \in Seq(S), NEW attrs
    PROVE  Len(s) = 0 => With(s, attrs) = <<>>
<1> DEFINE P == {i \in DOMAIN s : attrs \subseteq s[i]}
           a == AtLoop(s, P)
<1>1. With(s, attrs) = a[Len(s)]
  BY Zenon DEF With, At
<1> HIDE DEF P
<1>2. /\ a \in [0 .. Len(s) -> Seq(S)] /\ a[0] = <<>>
      /\ \A i \in 1 .. Len(s) : a[i] = IF i \in P THEN Append(a[i - 1], s[i]) ELSE a[i - 1]
  BY AtLoopRuns
<1> QED
  BY <1>1, <1>2, Zenon

LEMMA CountEmpty ==
    ASSUME NEW S, NEW s \in Seq(S), NEW x
    PROVE  Len(s) = 0 => Count(s, x) = 0
<1> DEFINE P == {i \in DOMAIN s : s[i] = x}
           a == AtLoop(s, P)
<1>1. Count(s, x) = Len(a[Len(s)])
  BY Zenon DEF Count, At
<1> HIDE DEF P
<1>2. /\ a \in [0 .. Len(s) -> Seq(S)] /\ a[0] = <<>>
      /\ \A i \in 1 .. Len(s) : a[i] = IF i \in P THEN Append(a[i - 1], s[i]) ELSE a[i - 1]
  BY AtLoopRuns
<1>3. Len(<<>>) = 0
  OBVIOUS
<1> QED
  BY <1>1, <1>2, <1>3, Zenon

LEMMA AuditInit ==
    ASSUME GateInit
    PROVE  HandedRecorded /\ RepliesRecorded /\ SinksOrdered
<1> DEFINE none == <<>>
<1>0. none \in Seq(Tools) /\ none \in Seq(Reasons) /\ Len(none) = 0 /\ 1 \in 1 .. Len(sinks) /\ Len(sinks) \in 1 .. Len(sinks)
  BY SinkFacts
<1>1. \A i \in 1 .. Len(sinks) : View(i) = none
  <2> SUFFICES ASSUME NEW i \in 1 .. Len(sinks) PROVE View(i) = none
    OBVIOUS
  <2>1. logs[i] = <<>>
    BY Zenon DEF GateInit
  <2> QED
    BY <2>1 DEF View
<1>2. handed = none /\ replies = none
  BY DEF GateInit
<1> HIDE DEF none
<1>3. \A a : With(none, a) = none
  BY <1>0, WithEmpty, Zenon DEF none
<1>4. \A x : Count(none, x) = 0
  BY <1>0, CountEmpty, Zenon
<1>5. \A i \in 1 .. Len(sinks) : \A a : Reported(i, a) = 0
  BY <1>0, <1>1, <1>3, Zenon DEF Reported
<1>6. HandedRecorded
  BY <1>0, <1>2, <1>4, <1>5 DEF HandedRecorded
<1>7. RepliesRecorded
  BY <1>0, <1>2, <1>4, <1>5, Zenon DEF RepliesRecorded
<1>8. SinksOrdered
  BY <1>0, <1>5 DEF SinksOrdered
<1> QED
  BY <1>6, <1>7, <1>8

\* Without an event the sinks are as they were.
LEMMA ReportedSame ==
    ASSUME UNCHANGED logs
    PROVE  \A i, a : Reported(i, a)' = Reported(i, a)
  BY Zenon DEF Reported, View

\* The steps, as far as the audit is concerned.
LEMMA AuditSteps ==
    ASSUME GateOK, [GateNext]_gateVars
    PROVE  \/ UNCHANGED <<logs, handed, replies>>
           \/ \E t \in Tools : gateCallUnauthenticated(t)
           \/ \E t \in Tools : gateCallDenied(t)
           \/ \E t \in Tools : gateCallGranted(t)
           \/ \E t \in Tools : gateCallPanics(t)
  BY DEF GateNext, gateVars, filterList, StepUp, Terminating

LEMMA HandedRecordedStep ==
    ASSUME GateOK, LogsOK, HandedRecorded, [GateNext]_gateVars
    PROVE  HandedRecorded'
<1> DEFINE last == Len(sinks)
<1>0. last \in 1 .. last /\ 1 \in 1 .. last /\ last \in Nat
  BY SinkFacts
<1> HIDE DEF last
<1>1. CASE UNCHANGED <<logs, handed, replies>>
  BY <1>1, ReportedSame DEF HandedRecorded
<1>2. ASSUME NEW t \in Tools, NEW n \in 1 .. last, Records(t, n), UNCHANGED handed,
             n # last \/ ~Allowed(t)
      PROVE  HandedRecorded'
  <2>1. PICK v \in Views(Decision(t)) :
            \A a : /\ Reported(last, a) \in Nat
                  /\ Reported(last, a)' = Reported(last, a) + IF last <= n /\ a \subseteq v THEN 1 ELSE 0
    BY <1>0, <1>2, ReportedRecords DEF last
  <2>2. PICK w \in Views(Decision(t)) :
            \A a : /\ Reported(1, a) \in Nat
                  /\ Reported(1, a)' = Reported(1, a) + IF 1 <= n /\ a \subseteq w THEN 1 ELSE 0
    BY <1>0, <1>2, ReportedRecords DEF last
  <2>3. ~(last <= n /\ Granted \subseteq v) /\ \A u : ~(last <= n /\ GrantedTo(u) \subseteq v)
    <3>1. last <= n => n = last
      BY <1>0, <1>2
    <3> QED
      BY <1>2, <3>1, DecisionViews, Zenon
  <2>4. Reported(last, Granted)' = Reported(last, Granted)
        /\ \A u : Reported(last, GrantedTo(u))' = Reported(last, GrantedTo(u))
    <3>1. \A m \in Nat : m + 0 = m
      OBVIOUS
    <3> QED
      BY <2>1, <2>3, <3>1, Zenon
  <2>5. \A u : Reported(1, GrantedTo(u)) \in Nat /\ Reported(1, GrantedTo(u))' \in Nat
              /\ Reported(1, GrantedTo(u)) <= Reported(1, GrantedTo(u))'
    BY <2>2
  <2>6. \A u : Count(handed, u) \in Nat
    BY CountAppend DEF HandedRecorded
  <2>7. ASSUME NEW u \in Tools
        PROVE  /\ Reported(last, GrantedTo(u))' <= Count(handed, u)
               /\ Count(handed, u) <= Reported(1, GrantedTo(u))'
    <3>1. Reported(last, GrantedTo(u)) <= Count(handed, u) /\ Count(handed, u) <= Reported(1, GrantedTo(u))
      BY Zenon DEF HandedRecorded, last
    <3>2. \A x, y, z \in Nat : x <= y /\ y <= z => x <= z
      OBVIOUS
    <3> QED
      BY <2>4, <2>5, <2>6, <3>1, <3>2, Zenon
  <2> QED
    BY <1>2, <2>4, <2>7, Zenon DEF HandedRecorded, last, Granted, GrantedTo
<1>3. ASSUME NEW t \in Tools, gateCallGranted(t) PROVE HandedRecorded'
  <2>1. Records(t, last) /\ Allowed(t) /\ handed' = Append(handed, t)
    BY <1>3, GateCalls, Zenon DEF gateCallGranted, Allowed, last
  <2>2. PICK v \in Views(Decision(t)) :
            \A a : /\ Reported(last, a) \in Nat
                  /\ Reported(last, a)' = Reported(last, a) + IF last <= last /\ a \subseteq v THEN 1 ELSE 0
    BY <1>0, <2>1, ReportedRecords DEF last
  <2>3. \A a : /\ Reported(1, a) \in Nat
              /\ Reported(1, a)' = Reported(1, a)
                    + IF 1 <= last /\ a \subseteq TraceAttributes(Decision(t)) THEN 1 ELSE 0
    <3>1. PICK w \in Views(Decision(t)) :
              /\ 1 = 1 => w = TraceAttributes(Decision(t))
              /\ \A a : /\ Reported(1, a) \in Nat
                        /\ Reported(1, a)' = Reported(1, a) + IF 1 <= last /\ a \subseteq w THEN 1 ELSE 0
      BY <1>0, <2>1, ReportedRecords DEF last
    <3> QED
      BY <3>1, Zenon
  <2>4. last <= last /\ 1 <= last
    BY <1>0
  <2>5. /\ Granted \subseteq v
        /\ \A u : GrantedTo(u) \subseteq v => u = t
        /\ \A u : GrantedTo(u) \subseteq TraceAttributes(Decision(t)) <=> u = t
    <3>1. TraceAttributes(Decision(t)) \in Views(Decision(t))
      BY Zenon DEF Views
    <3>2. Granted \subseteq v /\ \A u : GrantedTo(u) \subseteq v => u = t
      BY <2>1, <2>2, DecisionViews, ZenonT(40)
    <3>3. \A u : GrantedTo(u) \subseteq TraceAttributes(Decision(t)) <=> u = t /\ Allowed(t)
      BY <3>1, DecisionViews, ZenonT(40)
    <3> QED
      BY <2>1, <3>2, <3>3, Zenon
  <2>6. handed \in Seq(Tools) /\ handed' \in Seq(Tools) /\ Len(handed') = Len(handed) + 1 /\ Len(handed) \in Nat
    BY <2>1 DEF HandedRecorded
  <2>7. \A u : Count(handed, u) \in Nat /\ Count(handed', u) = Count(handed, u) + IF t = u THEN 1 ELSE 0
    BY <2>1, <2>6, CountAppend
  <2>8. Reported(last, Granted)' = Len(handed')
    <3>1. Reported(last, Granted)' = Reported(last, Granted) + 1
      BY <2>2, <2>4, <2>5, Zenon
    <3> QED
      BY <2>6, <3>1 DEF HandedRecorded, last
  <2>9. ASSUME NEW u \in Tools
        PROVE  /\ Reported(last, GrantedTo(u))' <= Count(handed', u)
               /\ Count(handed', u) <= Reported(1, GrantedTo(u))'
    <3>1. Reported(last, GrantedTo(u)) <= Count(handed, u) /\ Count(handed, u) <= Reported(1, GrantedTo(u))
      BY Zenon DEF HandedRecorded, last
    <3>2. CASE u = t
      <4>1. Reported(1, GrantedTo(u))' = Reported(1, GrantedTo(u)) + 1
        BY <2>3, <2>4, <2>5, <3>2, Zenon
      <4>2. Reported(last, GrantedTo(u))' \in {Reported(last, GrantedTo(u)), Reported(last, GrantedTo(u)) + 1}
        BY <2>2
      <4>3. Reported(last, GrantedTo(u)) \in Nat /\ Reported(1, GrantedTo(u)) \in Nat
        BY <2>2, <2>3, Zenon
      <4>4. Count(handed', u) = Count(handed, u) + 1 /\ Count(handed, u) \in Nat
        BY <2>7, <3>2, Zenon
      <4>5. \A y, z \in Nat : y <= z => y + 1 <= z + 1
        OBVIOUS
      <4>6. \/ Reported(last, GrantedTo(u))' = Reported(last, GrantedTo(u))
            \/ Reported(last, GrantedTo(u))' = Reported(last, GrantedTo(u)) + 1
        BY <4>2
      <4>7. Count(handed', u) <= Reported(1, GrantedTo(u))'
        BY <3>1, <4>1, <4>3, <4>4, <4>5, Zenon
      <4>8. Reported(last, GrantedTo(u))' <= Count(handed', u)
        <5>1. Reported(last, GrantedTo(u)) <= Count(handed, u) + 1
              /\ Reported(last, GrantedTo(u)) + 1 <= Count(handed, u) + 1
          <6>1. \A x, y \in Nat : x <= y => x <= y + 1 /\ x + 1 <= y + 1
            OBVIOUS
          <6> QED
            BY <3>1, <4>3, <4>4, <6>1, Zenon
        <5> QED
          BY <4>4, <4>6, <5>1, Zenon
      <4> QED
        BY <4>7, <4>8, Zenon
    <3>3. CASE u # t
      <4>1. ~(GrantedTo(u) \subseteq TraceAttributes(Decision(t))) /\ ~(GrantedTo(u) \subseteq v)
        <5>1. GrantedTo(u) \subseteq v => u = t
          BY <2>5, Zenon
        <5>2. GrantedTo(u) \subseteq TraceAttributes(Decision(t)) => u = t
          BY <2>5, Zenon
        <5> QED
          BY <3>3, <5>1, <5>2, Zenon
      <4>2. Reported(1, GrantedTo(u))' = Reported(1, GrantedTo(u)) + 0 /\ Reported(1, GrantedTo(u)) \in Nat
        BY <2>3, <4>1, Zenon
      <4>3. Reported(last, GrantedTo(u))' = Reported(last, GrantedTo(u)) + 0 /\ Reported(last, GrantedTo(u)) \in Nat
        BY <2>2, <4>1, Zenon
      <4>4. Count(handed', u) = Count(handed, u) + 0 /\ Count(handed, u) \in Nat
        BY <2>7, <3>3, Zenon
      <4> QED
        BY <3>1, <4>2, <4>3, <4>4
    <3> QED
      BY <3>2, <3>3
  <2> QED
    BY <2>6, <2>8, <2>9, Zenon DEF HandedRecorded, last, Granted, GrantedTo
<1>4. ASSUME NEW t \in Tools, gateCallPanics(t) PROVE HandedRecorded'
  <2>1. PICK n \in 1 .. Len(sinks) - 1 : Records(t, n)
    BY <1>4, GateCalls
  <2>2. n \in 1 .. last /\ n # last /\ UNCHANGED handed
    BY <1>4, SinkFacts DEF gateCallPanics, last
  <2> QED
    BY <1>2, <2>1, <2>2
<1>5. ASSUME NEW t \in Tools, gateCallUnauthenticated(t) \/ gateCallDenied(t) PROVE HandedRecorded'
  <2>1. Records(t, last) /\ ~Allowed(t) /\ UNCHANGED handed
    BY <1>5, GateCalls, Zenon DEF gateCallUnauthenticated, gateCallDenied, Allowed, last
  <2> QED
    BY <1>0, <1>2, <2>1
<1> QED
  BY <1>1, <1>3, <1>4, <1>5, AuditSteps

LEMMA RepliesRecordedStep ==
    ASSUME GateOK, LogsOK, RepliesRecorded, [GateNext]_gateVars
    PROVE  RepliesRecorded'
<1> DEFINE last == Len(sinks)
<1>0. last \in 1 .. last /\ last \in Nat /\ last <= last
  BY SinkFacts
<1> HIDE DEF last
<1>1. CASE UNCHANGED <<logs, handed, replies>>
  BY <1>1, ReportedSame DEF RepliesRecorded
<1>2. ASSUME NEW t \in Tools, NEW n \in 1 .. last, Records(t, n)
      PROVE  \E v \in Views(Decision(t)) :
                \A a : /\ Reported(last, a) \in Nat
                      /\ Reported(last, a)' = Reported(last, a) + IF last <= n /\ a \subseteq v THEN 1 ELSE 0
  BY <1>0, <1>2, ReportedRecords DEF last
<1>3. ASSUME NEW t \in Tools, NEW n \in 1 .. last, Records(t, n), UNCHANGED replies,
             n # last \/ Allowed(t)
      PROVE  RepliesRecorded'
  <2>1. PICK v \in Views(Decision(t)) :
            \A a : /\ Reported(last, a) \in Nat
                  /\ Reported(last, a)' = Reported(last, a) + IF last <= n /\ a \subseteq v THEN 1 ELSE 0
    BY <1>2, <1>3, Zenon
  <2>2. last <= n => n = last
    BY <1>0, <1>3
  <2>3. \A r \in Codes : ~(last <= n /\ DeniedFor(r) \subseteq v)
    <3>1. \A r \in Codes : DeniedFor(r) \subseteq v => ~Allowed(t)
      BY DecisionViews, ZenonT(40)
    <3> QED
      BY <1>3, <2>2, <3>1, Zenon
  <2>4. \A r \in Codes : Reported(last, DeniedFor(r))' = Reported(last, DeniedFor(r))
    <3>1. \A m \in Nat : m + 0 = m
      OBVIOUS
    <3> QED
      BY <2>1, <2>3, <3>1, Zenon
  <2> QED
    BY <1>3, <2>4, Zenon DEF RepliesRecorded, last, DeniedFor
<1>4. ASSUME NEW t \in Tools, Records(t, last), ~Allowed(t),
             Decision(t).ReasonCode \in Reasons, replies' = Append(replies, Decision(t).ReasonCode)
      PROVE  RepliesRecorded'
  <2> DEFINE c == Decision(t).ReasonCode
  <2>1. PICK v \in Views(Decision(t)) :
            \A a : /\ Reported(last, a) \in Nat
                  /\ Reported(last, a)' = Reported(last, a) + IF last <= last /\ a \subseteq v THEN 1 ELSE 0
    BY <1>0, <1>2, <1>4, Zenon
  <2>2. \A r \in Codes : DeniedFor(r) \subseteq v <=> r = c
    BY <1>4, DecisionViews, Zenon
  <2> HIDE DEF c
  <2>3. replies \in Seq(Reasons) /\ c \in Reasons /\ replies' = Append(replies, c) /\ replies' \in Seq(Reasons)
    BY <1>4 DEF RepliesRecorded, c
  <2>4. \A r : Count(replies, r) \in Nat /\ Count(replies', r) = Count(replies, r) + IF c = r THEN 1 ELSE 0
    BY <2>3, CountAppend
  <2>5. ASSUME NEW r \in Codes PROVE Reported(last, DeniedFor(r))' = Count(replies', r)
    <3>1. Reported(last, DeniedFor(r)) = Count(replies, r)
      BY Zenon DEF RepliesRecorded, last
    <3>2. Reported(last, DeniedFor(r))' = Reported(last, DeniedFor(r)) + IF c = r THEN 1 ELSE 0
      BY <1>0, <2>1, <2>2, Zenon
    <3> QED
      BY <2>4, <3>1, <3>2, Zenon
  <2> QED
    BY <2>3, <2>5, Zenon DEF RepliesRecorded, last, DeniedFor
<1>5. ASSUME NEW t \in Tools, gateCallGranted(t) PROVE RepliesRecorded'
  <2>1. Records(t, last) /\ Allowed(t) /\ UNCHANGED replies
    BY <1>5, GateCalls, Zenon DEF gateCallGranted, Allowed, last
  <2> QED
    BY <1>0, <1>3, <2>1
<1>6. ASSUME NEW t \in Tools, gateCallPanics(t) PROVE RepliesRecorded'
  <2>1. PICK n \in 1 .. Len(sinks) - 1 : Records(t, n)
    BY <1>6, GateCalls
  <2>2. n \in 1 .. last /\ n # last /\ UNCHANGED replies
    BY <1>6, SinkFacts DEF gateCallPanics, last
  <2> QED
    BY <1>3, <2>1, <2>2
<1>7. ASSUME NEW t \in Tools, gateCallUnauthenticated(t) \/ gateCallDenied(t) PROVE RepliesRecorded'
  <2>1. /\ Records(t, last) /\ ~Allowed(t)
        /\ token = Nil => replies' = Append(replies, "unauthenticated")
        /\ token # Nil => replies' = Append(replies, evaluate(t))
    BY <1>7, GateCalls, Zenon DEF gateCallUnauthenticated, gateCallDenied, Allowed, last
  <2>2. Decision(t).ReasonCode = IF token = Nil THEN "unauthenticated"
                                 ELSE IF evaluate(t) = "ok" THEN "" ELSE evaluate(t)
    BY DecisionIs, Zenon
  <2>3. Decision(t).ReasonCode \in Reasons
    <3>1. Decision(t) \in Events
      BY DecisionIs, Zenon
    <3> QED
      BY <3>1, Zenon DEF Events
  <2>4. replies' = Append(replies, Decision(t).ReasonCode)
    BY <2>1, <2>2, Zenon DEF Allowed
  <2> QED
    BY <1>4, <2>1, <2>3, <2>4, Zenon
<1> QED
  BY <1>1, <1>5, <1>6, <1>7, AuditSteps

LEMMA SinksOrderedStep ==
    ASSUME GateOK, LogsOK, SinksOrdered, [GateNext]_gateVars
    PROVE  SinksOrdered'
<1>1. CASE UNCHANGED logs
  BY <1>1, ReportedSame, Zenon DEF SinksOrdered
<1>2. ASSUME NEW t \in Tools, NEW n \in 1 .. Len(sinks), Records(t, n) PROVE SinksOrdered'
  <2> DEFINE all == TraceAttributes(Decision(t))
  <2>1. ASSUME NEW i \in 1 .. Len(sinks), NEW a PROVE Reported(i, a)' <= Reported(1, a)'
    <3>0. 1 \in 1 .. Len(sinks) /\ 1 <= n
      BY SinkFacts
    <3>1. PICK v \in Views(Decision(t)) :
              \A b : /\ Reported(i, b) \in Nat
                    /\ Reported(i, b)' = Reported(i, b) + IF i <= n /\ b \subseteq v THEN 1 ELSE 0
      BY <1>2, ReportedRecords
    <3>2. \A b : /\ Reported(1, b) \in Nat
                /\ Reported(1, b)' = Reported(1, b) + IF 1 <= n /\ b \subseteq all THEN 1 ELSE 0
      <4>1. PICK w \in Views(Decision(t)) :
                /\ 1 = 1 => w = TraceAttributes(Decision(t))
                /\ \A b : /\ Reported(1, b) \in Nat
                          /\ Reported(1, b)' = Reported(1, b) + IF 1 <= n /\ b \subseteq w THEN 1 ELSE 0
        BY <1>2, <3>0, ReportedRecords
      <4> QED
        BY <4>1, Zenon
    <3>3. v \subseteq all
      <4>1. Decision(t) \in Events
        BY DecisionIs, Zenon
      <4>2. MetricLabels(Decision(t)) \subseteq all
        BY <4>1, Attributes, Zenon
      <4> QED
        BY <4>2, Zenon DEF Views
    <3> HIDE DEF all
    <3>4. Reported(i, a) <= Reported(1, a)
      BY DEF SinksOrdered
    <3>5. a \subseteq v => a \subseteq all
      BY <3>3
    <3> QED
      BY <3>0, <3>1, <3>2, <3>4, <3>5
  <2> QED
    BY <2>1, Zenon DEF SinksOrdered
<1> QED
  BY <1>1, <1>2, StepRecords

\* toolgate.go, gateCall's record over audit/sink.go's fan-out, for any number of sinks of
\* which any but the first may panic, with or without a recording span: the last sink
\* has a granted event per call handed on and a denied event with its reason per error
\* returned, and the durable sink names the tool of each and misses nothing that another
\* reports.
THEOREM AuditMatchesOutcomeHolds == GateSpec => []AuditMatchesOutcome
<1>1. GateInit => HandedRecorded /\ RepliesRecorded /\ SinksOrdered
  BY AuditInit
<1>2. GateOK /\ LogsOK /\ HandedRecorded /\ RepliesRecorded /\ SinksOrdered /\ [GateNext]_gateVars
        => HandedRecorded' /\ RepliesRecorded' /\ SinksOrdered'
  BY HandedRecordedStep, RepliesRecordedStep, SinksOrderedStep
<1>3. HandedRecorded /\ RepliesRecorded /\ SinksOrdered => AuditMatchesOutcome
  BY Zenon DEF HandedRecorded, RepliesRecorded, SinksOrdered, AuditMatchesOutcome, Granted, Codes
<1> QED
  BY <1>1, <1>2, <1>3, GateOKInvariant, LogsOKInvariant, PTL DEF GateSpec
=============================================================================
