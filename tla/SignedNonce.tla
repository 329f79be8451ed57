----------------------------- MODULE SignedNonce -----------------------------
(***************************************************************************)
(* dpop.SignedNonce (dpop/nonce.go): a nonce carries the second it was     *)
(* issued in, under a MAC.  A nonce is the record of what decoding it      *)
(* gives: the second, and whether the MAC is this server's.  Bytes that do *)
(* not decode to a nonce are a nonce whose MAC fails.                      *)
(***************************************************************************)
EXTENDS Integers

CONSTANTS TicksPerSecond,  \* clock ticks in a second: Issue truncates to seconds
          NonceLifetime,   \* SignedNonce.lifetime, in ticks
          NonceFutureTL    \* nonceFutureTL, in ticks

ASSUME NonceAssumption ==
    /\ TicksPerSecond \in Nat \ {0}
    /\ NonceLifetime \in Nat
    /\ NonceFutureTL \in Nat

NoNonce == [issued |-> 0, mac |-> FALSE]

Nonce == [issued : Nat, mac : BOOLEAN]

\* SignedNonce.Issue: the Unix second, under the server's MAC.
Issue(now) == [issued |-> now \div TicksPerSecond, mac |-> TRUE]

\* Faulty variant: a second of the lifetime is lost.
ValidateStrict(n, now) ==
    /\ n.mac
    /\ now - n.issued * TicksPerSecond < NonceLifetime - TicksPerSecond
    /\ n.issued * TicksPerSecond <= now + NonceFutureTL

\* SignedNonce.Validate.
Validate(n, now) ==
    /\ n.mac
    /\ now - n.issued * TicksPerSecond <= NonceLifetime
    /\ n.issued * TicksPerSecond <= now + NonceFutureTL
=============================================================================
