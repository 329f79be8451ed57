----------------------------- MODULE MCToolGate -----------------------------
(* ToolGate for TLC: two pages, policies nested two deep, a caller whose       *)
(* scopes come in either form.                                                *)
EXTENDS ToolGate

MCPages == <<{"t1"}, {"t2"}>>
MCSinks == <<"slog", "nil", "otel">>

R == HasScopes({<<"r">>})
W == HasScopes({<<"w">>})
G == HasClaim("tier", <<"g">>)

MCAuthorizers ==
    << R, W, G, HasScopes({}), HasScopes({<<"r">>, <<"w">>}), HasAnyScope({<<"r">>, <<"w">>}),
       HasAnyScope({}), HasClaim("email", <<"g">>), AllowAll, DenyAll,
       AllOf(<<>>), AnyOf(<<>>), AllOf(<<R, G>>), AllOf(<<G, R>>), AllOf(<<R, W>>),
       AnyOf(<<R, G>>), AnyOf(<<R, W>>),
       AllOf(<<AnyOf(<<R, W>>), G>>), AnyOf(<<AllOf(<<R, W>>), AllOf(<<G, R>>)>>) >>

\* Every policy on t1, with t2 open, closed or scoped by Default or open by a nil entry.
None == [t \in {} |-> Nil]
MCGates ==
    {<<None, Nil>>, <<None, DenyAll>>, <<None, R>>, <<[t \in {"t2"} |-> Nil], DenyAll>>}
    \cup {<<[t \in {"t1"} |-> MCAuthorizers[i]], IF i % 2 = 0 THEN Nil ELSE DenyAll>> : i \in DOMAIN MCAuthorizers}

Tok(private) == [sub |-> "ann", iss |-> "i1", aud |-> "a1", exp |-> 9, private |-> private]

r  == String(<<"r">>)
w  == String(<<"w">>)
rw == String(<<" ", "r", " ", "w">>)
g  == String(<<"g">>)

MCTokens ==
    { Tok([email |-> g]), Tok([scope |-> r]), Tok([scope |-> w, tier |-> Number]),
      Tok([scope |-> rw]), Tok([scp |-> Array(<<>>), scope |-> rw, tier |-> g]),
      Tok([scp |-> Array(<<Number, r>>), tier |-> g]), Tok([scope |-> rw, tier |-> g]) }
=============================================================================
