----------------------------- MODULE MCValidators -----------------------------
(* Validators for TLC: two issuers with verifiers of their own, one of which    *)
(* rotates its key.                                                             *)
EXTENDS Validators, TLC

I1 == <<"i1">>
I2 == <<"i2">>

MCIssuers   == {I1, I2}
MCAudience  == I1 :> "a1" @@ I2 :> "a2"
MCKeys      == I1 :> <<"k1", "k2">> @@ I2 :> <<"k3">>
MCVerifiers == I1 :> <<RequireScopes({<<"r">>}), VerifyRequiredStringClaims([tier |-> <<"g">>])>>
            @@ I2 :> <<Custom, VerifyRequiredStringClaims([sub |-> <<"ann">>, jti |-> <<"j">>]),
                       RequireScopes({<<"r">>, <<"w">>})>>

Gold == String(<<"g">>)
T == [form |-> "jwt", sub |-> <<"ann">>, iss |-> I1, jti |-> <<>>, aud |-> "a1", key |-> "k1", nbf |-> 0, exp |-> 2,
      private |-> [scope |-> String(<<" ", "r">>), tier |-> Gold]]
U == [T EXCEPT !.iss = I2, !.jti = <<"j">>, !.aud = "a2", !.key = "k3",
               !.private = [scope |-> String(<<"w", " ", " ", "r">>)]]

\* Good ones, and one per check that can fail; the scopes in either form, with members and
\* claims of other types.
MCTokens ==
    { T, [T EXCEPT !.key = "k2", !.exp = 0], [T EXCEPT !.key = "k3"], [T EXCEPT !.aud = "a2"],
      [T EXCEPT !.nbf = 2], [T EXCEPT !.iss = <<"i3">>], [T EXCEPT !.form = "empty"],
      [T EXCEPT !.private = [scope |-> String(<<"r">>)]],
      [T EXCEPT !.private = [scope |-> String(<<"r">>), tier |-> Number]],
      [T EXCEPT !.private = [scp |-> Array(<<>>), scope |-> String(<<"r">>), tier |-> Gold]],
      [T EXCEPT !.private = [scp |-> Number, scope |-> String(<<"r", "w", " ", "r">>), tier |-> Gold]],
      U, [U EXCEPT !.sub = <<"bob">>], [U EXCEPT !.jti = <<>>],
      [U EXCEPT !.private = [scp |-> Array(<<String(<<"r">>), Number, String(<<"w">>)>>)]] }
=============================================================================
