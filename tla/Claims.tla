-------------------------------- MODULE Claims --------------------------------
(***************************************************************************)
(* claims.go and verifier.go: what a validated token says and the checks   *)
(* that run on it before it is turned into Claims.  A token is a record of *)
(* the registered claims, whose field private maps the names of the        *)
(* private claims to JSON values; text is a sequence of characters, since  *)
(* scopes are cut out of one.                                              *)
(***************************************************************************)
EXTENDS Naturals, Sequences, Functions

\* JSON values: the text of a string, the elements of an array, and of an object (cnf)
\* its member jkt if it has one.
String(s)  == [type |-> "string", s |-> s, of |-> <<>>]
Array(of)  == [type |-> "array", s |-> <<>>, of |-> of]
Object(of) == [type |-> "object", s |-> <<>>, of |-> of]
Number     == [type |-> "number", s |-> <<>>, of |-> <<>>]
Null       == [type |-> "null", s |-> <<>>, of |-> <<>>]

IsString(v) == v.type = "string"

\* A value's text and its elements are sequences, of anything.
IsValue(v) == v.s \in Seq(Range(v.s)) /\ v.of \in Seq(Range(v.of))

\* tok.Get(name) followed by a type assertion.
HasTyped(private, name, type) == name \in DOMAIN private /\ private[name].type = type

\* What separates the scopes of a scope claim.
Space == " "

\* The body of splitScopes' loop at index i; start is 0 between words, -1 in the code.
SplitStep(s, acc, i) ==
    LET ends == i > Len(s) \/ s[i] = Space IN
    [ out   |-> IF ends /\ acc.start > 0 THEN Append(acc.out, SubSeq(s, acc.start, i - 1)) ELSE acc.out,
      start |-> IF ends THEN 0 ELSE IF acc.start = 0 THEN i ELSE acc.start ]

\* The loop's state after each index.
SplitLoop(s) ==
    LET loop[i \in 0 .. Len(s) + 1] ==
          IF i = 0 THEN [out |-> <<>>, start |-> 0] ELSE SplitStep(s, loop[i - 1], i)
    IN  loop

\* Faulty variant: the loop ends one index early.
splitScopesShort(s) == SplitLoop(s)[Len(s)].out

\* The loop runs over the indices of s and one more.
splitScopes(s) == SplitLoop(s)[Len(s) + 1].out

\* The strings among JSON values, in order: the loop over an array scp, after each element.
StringsLoop(of) ==
    LET loop[i \in 0 .. Len(of)] ==
          IF i = 0 THEN <<>>
          ELSE IF IsString(of[i]) THEN Append(loop[i - 1], of[i].s) ELSE loop[i - 1]
    IN  loop

Strings(of) == StringsLoop(of)[Len(of)]

\* An array scp wins, even if it is empty; its elements are taken as they are.
scopesFromToken(private) ==
    IF HasTyped(private, "scp", "array") THEN Strings(private["scp"].of)
    ELSE IF HasTyped(private, "scope", "string") THEN splitScopes(private["scope"].s) ELSE <<>>

Extracted == {"email", "scope", "scp"}

claimsFromToken(tok) ==
    LET private == tok.private
        jkts    == IF HasTyped(private, "cnf", "object")
                   THEN Strings(private["cnf"].of) ELSE <<>>
    IN  [ Subject      |-> tok.sub,
          Issuer       |-> tok.iss,
          Audience     |-> tok.aud,
          ExpiresAt    |-> tok.exp,
          Email        |-> IF HasTyped(private, "email", "string") THEN private["email"].s ELSE <<>>,
          Scopes       |-> scopesFromToken(private),
          Confirmation |-> IF jkts = <<>> THEN <<>> ELSE jkts[1],
          Raw          |-> [k \in {n \in DOMAIN private \ Extracted : IsString(private[n])}
                               |-> private[k].s] ]

-----------------------------------------------------------------------------
\* ClaimVerifiers.  Custom stands for one of the caller's own that asks a remote service
\* and, when that fails, returns an error that is no *Error.
RequireScopes(S)                == [op |-> "RequireScopes", scopes |-> S, required |-> <<>>]
VerifyRequiredStringClaims(req) == [op |-> "VerifyRequiredStringClaims", scopes |-> {}, required |-> req]
Custom                          == [op |-> "Custom", scopes |-> {}, required |-> <<>>]

IsVerifier(v) ==
    \/ v.op = "RequireScopes" /\ v.required = <<>>
    \/ v.op = "VerifyRequiredStringClaims" /\ v.scopes = {}
    \/ v.op = "Custom" /\ v.scopes = {} /\ v.required = <<>>

\* tok.Get(name) and its assertion to a string: the text, if there is one.  Of the registered
\* claims sub, iss and jti are strings, <<>> when absent, and the others are not.
GetString(tok, name) ==
    CASE name = "sub" -> {tok.sub} \ {<<>>}
      [] name = "iss" -> {tok.iss} \ {<<>>}
      [] name = "jti" -> {tok.jti} \ {<<>>}
      [] name \in {"aud", "exp", "nbf", "iat"} -> {}
      [] OTHER -> {tok.private[n].s : n \in {m \in {name} : HasTyped(tok.private, m, "string")}}

\* What a verifier may return for a token.
Verify(v, tok) ==
    CASE v.op = "RequireScopes" ->
           {IF v.scopes \subseteq Range(scopesFromToken(tok.private)) THEN "ok" ELSE "insufficient_scope"}
      [] v.op = "VerifyRequiredStringClaims" ->
           {IF \A n \in DOMAIN v.required : v.required[n] \in GetString(tok, n) THEN "ok" ELSE "forbidden"}
      [] v.op = "Custom" -> {"ok", "unclassified"}

-----------------------------------------------------------------------------
\* The reference for splitScopes: the longest stretches of s without a separator.
Words(s, seps) ==
    LET Inside(a, b) == \A i \in a .. b : s[i] \notin seps
    IN  { SubSeq(s, p[1], p[2]) : p \in
            { q \in (DOMAIN s) \X (DOMAIN s) :
                /\ q[1] <= q[2] /\ Inside(q[1], q[2])
                /\ q[1] > 1 => s[q[1] - 1] \in seps
                /\ q[2] < Len(s) => s[q[2] + 1] \in seps } }

\* The scopes that an issuer's scope claim, in either form, grants.
GrantedScopes(private) ==
    CASE HasTyped(private, "scp", "array") -> {v.s : v \in {x \in Range(private["scp"].of) : IsString(x)}}
      [] ~HasTyped(private, "scp", "array") /\ HasTyped(private, "scope", "string") -> Words(private["scope"].s, {Space})
      [] OTHER -> {}

\* The claims that Claims does not hand on as they are in the token.
NotHandedOn == {"jti", "scope", "scp"}

\* Where the handlers find the string claim k in Claims.
ClaimStrings(claims, k) ==
    CASE k = "sub" -> {claims.Subject}
      [] k = "iss" -> {claims.Issuer}
      [] k = "email" -> {claims.Email}
      [] OTHER -> {claims.Raw[n] : n \in {k} \cap DOMAIN claims.Raw}
=============================================================================
