-------------------------- MODULE MemoryReplayCache --------------------------
(***************************************************************************)
(* dpop.MemoryReplayCache: the mutex-guarded map from (jti, htu) to the    *)
(* proof's expiry, with an inline sweep once the map has grown past        *)
(* replaySweepThreshold.  SeenBefore reads the clock and does all of its   *)
(* work with the mutex held, so it is one action.                          *)
(***************************************************************************)
EXTENDS Naturals, FiniteSets

CONSTANTS Keys,                 \* the (jti, htu) pairs
          ReplaySweepThreshold, \* replaySweepThreshold
          Expiries,             \* the expiries SeenBefore is called with
          MaxTime               \* bound on the clock

ASSUME CacheAssumption ==
    /\ IsFiniteSet(Keys)
    /\ ReplaySweepThreshold \in Nat
    /\ Expiries \subseteq Nat \ {0}
    /\ MaxTime \in Nat

VARIABLES clock,   \* what now() returns
          seen,    \* the map; 0, the zero time, for a pair it does not hold
          answer   \* the pair of the latest call and what it returned

cacheVars == <<clock, seen, answer>>

Held(f) == {k \in Keys : f[k] # 0}

\* Faulty variants: a sweep that takes entries about to expire as well; no sweep.
SweepEarly(f) == IF Cardinality(Held(f)) > ReplaySweepThreshold
                 THEN [k \in Keys |-> IF clock + 1 < f[k] THEN f[k] ELSE 0]
                 ELSE f
SweepNever(f) == f

\* A pair in the map whose expiry is still ahead: a replay.
Replayed(k) == clock < seen[k]

\* The inline sweep: past the threshold every expired entry goes, the one just
\* written included.
Sweep(f) == IF Cardinality(Held(f)) > ReplaySweepThreshold
            THEN [k \in Keys |-> IF clock < f[k] THEN f[k] ELSE 0]
            ELSE f

CacheInit ==
    /\ clock = 0
    /\ seen = [k \in Keys |-> 0]
    /\ answer = <<>>

SeenBeforeReplay(k) ==
    /\ Replayed(k)
    /\ answer' = <<k, TRUE>>
    /\ UNCHANGED <<clock, seen>>

SeenBeforeFirst(k, exp) ==
    /\ ~Replayed(k)
    /\ seen' = Sweep([seen EXCEPT ![k] = exp])
    /\ answer' = <<k, FALSE>>
    /\ UNCHANGED clock

SeenBefore(k, exp) == SeenBeforeReplay(k) \/ SeenBeforeFirst(k, exp)

CacheTick ==
    /\ clock < MaxTime
    /\ clock' = clock + 1
    /\ UNCHANGED <<seen, answer>>

CacheNext == CacheTick \/ \E k \in Keys, exp \in Expiries : SeenBefore(k, exp)

CacheSpec == CacheInit /\ [][CacheNext]_cacheVars

-----------------------------------------------------------------------------
\* The pairs still inside their window.  Expired entries the sweep has not reached
\* yet are not part of what the cache promises.
window == [k \in Keys |-> IF clock < seen[k] THEN seen[k] ELSE 0]

Promise == INSTANCE ReplayCache WITH window <- window

CacheTypeOK ==
    /\ clock \in Nat
    /\ seen \in [Keys -> Nat]
    /\ answer \in (Keys \X BOOLEAN) \cup {<<>>}

\* replay.go:11-14: with the sweep and the lazily overwritten entries the map still
\* answers exactly as the interface promises: a pair is reported seen iff it was
\* recorded and its expiry is ahead.
KeepsReplayPromise == Promise!Spec

\* replay.go:42-43: the sweep keeps memory bounded.  A call that leaves more than the
\* threshold in the map leaves only entries whose window is open.
SweepBoundsMap ==
    [][Cardinality(Held(seen')) > ReplaySweepThreshold /\ seen' # seen =>
           \A k \in Held(seen') : clock < seen'[k]]_cacheVars
=============================================================================
