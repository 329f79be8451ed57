--------------------------- MODULE MCIntrospection ---------------------------
(* Introspection for TLC: tokens with and without an exp, one for another
   audience, one whose aud is no audience, and the empty bearer. *)
EXTENDS Introspection, TLC

Body(exp, aud) ==
    [ iss |-> "iss", aud |-> aud, exp |-> exp, sub |-> <<"a">>, jkt |-> <<"k">>,
      scope |-> <<"r", " ", "\t", "w">>,
      rest |-> [n \in {"dept", "level", "site", "error"} |->
                   CASE n = "level" -> Number [] n = "site" -> Null [] OTHER -> String(<<n>>)] ]

MCAudience == <<"s", "r", "v">>
MCTokens ==
    { [id |-> 0, body |-> Body(0, Null)],
      [id |-> 1, body |-> Body(3, String(MCAudience))],
      [id |-> 2, body |-> Body(0, Array(<<String(<<"s">>), Null, String(MCAudience)>>))],
      [id |-> 3, body |-> Body(3, String(MCAudience \o <<"2">>))],
      [id |-> 4, body |-> Body(3, Number)] }

Symmetry == Permutations(Calls)
=============================================================================
