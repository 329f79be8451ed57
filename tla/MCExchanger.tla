----------------------------- MODULE MCExchanger -----------------------------
(* Exchanger for TLC: the requests of its runs. *)
EXTENDS Exchanger, TLC

\* Subject tokens.  The subjects are a, a|b and none; a has two tokens.
Subject(id, sub) ==
    [ id |-> id, sub |-> sub, iss |-> "iss", aud |-> {"srv"}, exp |-> 9, private |-> [n \in {} |-> Number] ]
A1 == Subject(1, <<"a">>)
A2 == Subject(2, <<"a">>)
AB == Subject(3, <<"a", "|", "b">>)
No == Subject(4, <<>>)

Untyped == <<<<>>, <<>>>>
Plain(t, audience) == Ask("exchange", t, t.sub, audience, Untyped, <<"s">>, <<>>)

\* Callers that ask for one audience and scope, and one without a subject.
Exchanges == { Plain(A1, <<"x">>), Plain(AB, <<"x">>), Plain(No, <<"x">>) }

\* Requests that differ in one part, or move one over a separator, exchanges made from
\* contexts, a provider's two legs, cached and uncached, and calls without a token.
Provides ==
    { Ask("provide", A1, A1.sub, <<"x">>, Untyped, <<"s", "t">>, <<>>),
      Ask("provide", No, No.sub, <<"x">>, Untyped, <<"s">>, <<>>),
      Plain(A2, <<"b">>), Plain(AB, <<>>),
      Ask("exchange", A1, A1.sub, <<"b">>, <<<<"id">>, <<"jag">>>>, <<"s">>, <<>>),
      Ask("exchange", A1, A1.sub, <<"b">>, Untyped, <<"t", "s">>, <<"res", "act">>),
      ForCaller(RequestCtx("http", AB), <<"b">>, <<"s", "t">>),
      ForCaller(RequestCtx("bridged", A2), <<"b">>, <<"s", "t">>),
      ForCaller(RequestCtx("sdk", A1), <<"b">>, <<"s">>) }

Symmetry == Permutations(Calls)
=============================================================================
