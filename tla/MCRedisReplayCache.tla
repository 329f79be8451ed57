-------------------------- MODULE MCRedisReplayCache --------------------------
(* RedisReplayCache for TLC: two replicas, and two proofs that share a jti.    *)
EXTENDS RedisReplayCache, TLC

SkewNone   == [i \in Instances |-> 0]
SkewSpread == CHOOSE f \in [Instances -> -MaxSkew .. MaxSkew] :
                 \E i, j \in Instances : f[i] = -MaxSkew /\ f[j] = MaxSkew

MCProofs == [key : Keys, iat : {2, 5}]

Symmetry == Permutations(Requests)
=============================================================================
