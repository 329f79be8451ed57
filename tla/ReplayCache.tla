----------------------------- MODULE ReplayCache -----------------------------
(***************************************************************************)
(* What the dpop.ReplayCache interface (dpop/replay.go) promises, without  *)
(* a map, a sweep or a store: a (jti, htu) pair recorded with expiry exp   *)
(* is remembered while the clock is before exp, and SeenBefore answers     *)
(* whether the pair is remembered.                                         *)
(***************************************************************************)
EXTENDS Naturals

CONSTANTS Keys,     \* the (jti, htu) pairs
          Expiries, \* the expiries considered
          MaxTime   \* bound on the clock

VARIABLES clock,   \* the cache's clock
          window,  \* per pair the expiry it is remembered until, 0 when it is not
          answer   \* the pair of the latest call and what it answered

Init ==
    /\ clock = 0
    /\ window = [k \in Keys |-> 0]
    /\ answer = <<>>

\* Pairs are forgotten at their expiry, and not before.
Tick ==
    /\ clock < MaxTime
    /\ clock' = clock + 1
    /\ window' = [k \in Keys |-> IF clock' < window[k] THEN window[k] ELSE 0]
    /\ UNCHANGED answer

SeenBefore(k, exp) ==
    /\ answer' = <<k, window[k] # 0>>
    /\ window' = IF window[k] = 0 /\ clock < exp THEN [window EXCEPT ![k] = exp] ELSE window
    /\ UNCHANGED clock

Next == Tick \/ \E k \in Keys, exp \in Expiries : SeenBefore(k, exp)

Spec == Init /\ [][Next]_<<clock, window, answer>>
=============================================================================
