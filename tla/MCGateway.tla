------------------------------ MODULE MCGateway ------------------------------
(* Gateway for TLC: one subject with a token bound to key "A", a few proofs
   around it. *)
EXTENDS Gateway, TLC

URL(path, q) == [path |-> path, query |-> q]

Good == [wellFormed |-> TRUE, jti |-> <<"|", "a">>, htm |-> "POST", htu |-> URL(<<"m">>, "none"), iat |-> 2,
         ath |-> ath("tok"), jkt |-> "A", nonce |-> Issue(2)]

Req(p, n, b) == [bound |-> b, proofs |-> n, proof |-> p, method |-> "POST",
                 url |-> URL(p.htu.path, "q"), token |-> "tok", subject |-> "ann", exp |-> 5]

\* The same proof, a later proof that reuses the jti, one with its own jti
\* for another URL, and one proof per check that can fail.
MCInputs ==
    { Req(Good, 1, "A"),
      Req([Good EXCEPT !.iat = 4], 1, "A"),
      Req([Good EXCEPT !.jti = <<"|">>, !.htu = URL(<<"a", "m">>, "none")], 1, "A"),
      Req([Good EXCEPT !.nonce = NoNonce], 1, "A"),
      Req([Good EXCEPT !.jkt = "B"], 1, "A"),
      Req([Good EXCEPT !.ath = ath("other")], 1, "A"),
      Req([Good EXCEPT !.wellFormed = FALSE], 1, "A"),
      Req(Good, 2, "A"),
      Req(Good, 0, Unbound) }

MCKeys == {Key(in) : in \in MCInputs}

MCExpiries == {Deadline(in) : in \in MCInputs}

Symmetry == Permutations(Requests)
=============================================================================
