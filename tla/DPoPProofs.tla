------------------------------ MODULE DPoPProofs ------------------------------
(***************************************************************************)
(* Proof of possession, from the replay cache up: the in-memory cache      *)
(* keeps the promise of the ReplayCache interface, the verifier accepts a  *)
(* proof once while its window is open, and so does the middleware over    *)
(* it, for any number of requests, any proofs, leeway, sweep threshold and *)
(* delay; and a signed nonce lives as long as it should.                   *)
(***************************************************************************)
EXTENDS Gateway, FiniteSetTheorems, TLAPS

(***************************************************************************)
(* The in-memory replay cache, for every finite set of pairs and every     *)
(* sweep threshold.                                                        *)
(***************************************************************************)
\* The sweep drops expired entries only.
LEMMA SweepKeepsLive ==
    ASSUME clock \in Nat, NEW f \in [Keys -> Nat]
    PROVE  /\ Sweep(f) \in [Keys -> Nat]
           /\ \A k \in Keys : clock < f[k] => Sweep(f)[k] = f[k]
           /\ \A k \in Keys : Sweep(f)[k] \in {f[k], 0}
BY DEF Sweep

LEMMA CacheInitType == CacheInit => CacheTypeOK
BY DEF CacheInit, CacheTypeOK

LEMMA CacheStepType == CacheTypeOK /\ [CacheNext]_cacheVars => CacheTypeOK'
<1> SUFFICES ASSUME CacheTypeOK, [CacheNext]_cacheVars PROVE CacheTypeOK'
  OBVIOUS
<1>1. CASE CacheTick
  BY <1>1 DEF CacheTick, CacheTypeOK
<1>2. ASSUME NEW k \in Keys, NEW exp \in Expiries, SeenBefore(k, exp)
      PROVE  CacheTypeOK'
  <2>1. CASE SeenBeforeReplay(k)
    BY <2>1, Zenon DEF SeenBeforeReplay, CacheTypeOK
  <2>2. CASE SeenBeforeFirst(k, exp)
    <3>1. [seen EXCEPT ![k] = exp] \in [Keys -> Nat]
      BY CacheAssumption DEF CacheTypeOK
    <3>2. seen' \in [Keys -> Nat]
      BY <2>2, <3>1, SweepKeepsLive, Zenon DEF SeenBeforeFirst, CacheTypeOK
    <3>3. answer' \in Keys \X BOOLEAN
      BY <2>2, Zenon DEF SeenBeforeFirst
    <3> QED
      BY <2>2, <3>2, <3>3, Zenon DEF SeenBeforeFirst, CacheTypeOK
  <2> QED
    BY <1>2, <2>1, <2>2 DEF SeenBefore
<1>3. CASE UNCHANGED cacheVars
  BY <1>3 DEF cacheVars, CacheTypeOK
<1> QED
  BY <1>1, <1>2, <1>3 DEF CacheNext

\* The map holds an expiry for each pair at all times.
THEOREM CacheTypeInvariance == CacheSpec => []CacheTypeOK
BY CacheInitType, CacheStepType, PTL DEF CacheSpec

\* Recording a pair that is not in its window opens its window, until exp, and
\* leaves every other window as it is, whether or not the sweep runs.
LEMMA FirstSightOpensWindow ==
    ASSUME CacheTypeOK, NEW k \in Keys, NEW exp \in Nat, SeenBeforeFirst(k, exp)
    PROVE  window' = IF window[k] = 0 /\ clock < exp
                     THEN [window EXCEPT ![k] = exp] ELSE window
<1> DEFINE f == [seen EXCEPT ![k] = exp]
<1>1. f \in [Keys -> Nat] /\ clock \in Nat /\ seen \in [Keys -> Nat]
  BY DEF CacheTypeOK
<1>2. seen' = Sweep(f) /\ clock' = clock /\ ~(clock < seen[k])
  BY DEF SeenBeforeFirst, Replayed
<1>3. /\ seen' \in [Keys -> Nat]
      /\ \A j \in Keys : clock < f[j] => seen'[j] = f[j]
      /\ \A j \in Keys : seen'[j] \in {f[j], 0}
  BY <1>1, <1>2, SweepKeepsLive, Zenon
<1>4. \A j \in Keys : (IF clock' < seen'[j] THEN seen'[j] ELSE 0) = IF clock < f[j] THEN f[j] ELSE 0
  BY <1>1, <1>2, <1>3, Zenon
<1>5. window' = [j \in Keys |-> IF clock < f[j] THEN f[j] ELSE 0]
  BY <1>4 DEF window
<1>6. window[k] = 0
  BY <1>2 DEF window
<1>7. CASE clock < exp
  <2>1. \A j \in Keys : (IF clock < f[j] THEN f[j] ELSE 0) = IF j = k THEN exp ELSE window[j]
    BY <1>1, <1>7 DEF window
  <2> QED
    BY <1>5, <1>6, <1>7, <2>1, Zenon DEF window
<1>8. CASE ~(clock < exp)
  <2>1. \A j \in Keys : (IF clock < f[j] THEN f[j] ELSE 0) = window[j]
    BY <1>1, <1>2, <1>8 DEF window
  <2> QED
    BY <1>5, <1>6, <1>8, <2>1 DEF window
<1> QED
  BY <1>7, <1>8

LEMMA CacheStepRefines ==
    CacheTypeOK /\ [CacheNext]_cacheVars => [Promise!Next]_<<clock, window, answer>>
<1> SUFFICES ASSUME CacheTypeOK, [CacheNext]_cacheVars
             PROVE  Promise!Next \/ UNCHANGED <<clock, window, answer>>
  OBVIOUS
<1>1. CASE CacheTick
  <2>1. \A k \in Keys : (IF clock' < seen'[k] THEN seen'[k] ELSE 0)
                          = IF clock' < window[k] THEN window[k] ELSE 0
    BY <1>1 DEF CacheTick, CacheTypeOK, window
  <2>2. Promise!Tick
    BY <1>1, <2>1 DEF CacheTick, Promise!Tick, window
  <2> QED
    BY <2>2 DEF Promise!Next
<1>2. ASSUME NEW k \in Keys, NEW exp \in Expiries, SeenBefore(k, exp)
      PROVE  Promise!Next
  <2>0. clock \in Nat /\ seen[k] \in Nat /\ exp \in Nat
    BY CacheAssumption DEF CacheTypeOK
  <2>1. CASE SeenBeforeReplay(k)
    <3>1. window[k] # 0 /\ window' = window
      BY <2>0, <2>1 DEF SeenBeforeReplay, Replayed, window
    <3>2. Promise!SeenBefore(k, exp)
      BY <2>1, <3>1, Zenon DEF SeenBeforeReplay, Promise!SeenBefore
    <3> QED
      BY <3>2 DEF Promise!Next
  <2>2. CASE SeenBeforeFirst(k, exp)
    <3>1. window[k] = 0
      BY <2>2 DEF SeenBeforeFirst, Replayed, window
    <3>2. answer' = <<k, window[k] # 0>> /\ clock' = clock
      BY <2>2, <3>1, Zenon DEF SeenBeforeFirst
    <3>3. Promise!SeenBefore(k, exp)
      BY <2>0, <2>2, <3>2, FirstSightOpensWindow DEF Promise!SeenBefore
    <3> QED
      BY <3>3 DEF Promise!Next
  <2> QED
    BY <1>2, <2>1, <2>2 DEF SeenBefore
<1>3. CASE UNCHANGED cacheVars
  BY <1>3 DEF cacheVars, window
<1> QED
  BY <1>1, <1>2, <1>3 DEF CacheNext

\* replay.go:11-14: the swept map implements the interface: SeenBefore answers true
\* exactly for a pair whose recorded expiry is ahead, for every threshold.
THEOREM CacheRefinesPromise == CacheSpec => KeepsReplayPromise
<1>1. CacheInit => Promise!Init
  BY DEF CacheInit, Promise!Init, window
<1> QED
  BY <1>1, CacheStepRefines, CacheTypeInvariance, PTL
     DEF CacheSpec, KeepsReplayPromise, Promise!Spec

\* replay.go:42-50: when a call leaves more than the threshold in the map, the sweep has run
\* and every entry left has its expiry ahead.
THEOREM SweepBoundsMapHolds == CacheSpec => SweepBoundsMap
<1>1. CacheTypeOK /\ [CacheNext]_cacheVars =>
        [Cardinality(Held(seen')) > ReplaySweepThreshold /\ seen' # seen =>
             \A k \in Held(seen') : clock < seen'[k]]_cacheVars
  <2> SUFFICES ASSUME CacheTypeOK, CacheNext, Cardinality(Held(seen')) > ReplaySweepThreshold,
                      seen' # seen, NEW j \in Held(seen')
               PROVE  clock < seen'[j]
    BY Zenon
  <2>1. PICK k \in Keys, exp \in Expiries : SeenBeforeFirst(k, exp)
    BY Zenon DEF CacheNext, CacheTick, SeenBefore, SeenBeforeReplay
  <2> DEFINE f == [seen EXCEPT ![k] = exp]
  <2>2. seen' = Sweep(f)
    BY <2>1, Zenon DEF SeenBeforeFirst
  <2>3. CASE Cardinality(Held(f)) > ReplaySweepThreshold
    <3>1. seen' = [i \in Keys |-> IF clock < f[i] THEN f[i] ELSE 0] /\ j \in Keys /\ seen'[j] # 0
      BY <2>2, <2>3, Zenon DEF Sweep, Held
    <3> QED
      BY <3>1, Zenon
  <2>4. CASE ~(Cardinality(Held(f)) > ReplaySweepThreshold)
    <3>1. seen' = f
      BY <2>2, <2>4, Zenon DEF Sweep
    <3> QED
      BY <2>4, <3>1, Zenon
  <2> QED
    BY <2>3, <2>4
<1> QED
  BY <1>1, CacheTypeInvariance, PTL DEF CacheSpec, SweepBoundsMap

-----------------------------------------------------------------------------
(***************************************************************************)
(* The verifier: single use while a proof's window is open, and no refusal *)
(* as a replay without an earlier use.                                     *)
(***************************************************************************)
\* An accepted proof whose deadline is ahead is in the map, under its deadline.
AcceptedRemembered ==
    \A r \in Accepted :
        clock < Deadline(input[r]) => seen[Key(input[r])] = Deadline(input[r])

\* A request on its way to the cache passed the other checks at its clock reading,
\* which is at most MaxDelay old.
CheckedRecently ==
    \A r \in Requests :
        stage[r] = "checked" =>
            /\ readAt[r] <= clock /\ clock - readAt[r] <= MaxDelay
            /\ Holds(input[r], readAt[r])
            /\ NonceOK(input[r], readAt[r])

IInv ==
    /\ TypeOK
    /\ AcceptedRemembered
    /\ CheckedRecently
    /\ SingleUseInWindow
    /\ AcceptedFresh
    /\ OnlyAcceptedRecorded

LEMMA InputTypes ==
    ASSUME TypeOK, NEW r \in Requests
    PROVE  /\ Key(input[r]) \in Keys
           /\ input[r].proof.iat \in Nat
           /\ Deadline(input[r]) \in Nat
           /\ Deadline(input[r]) # 0
BY VerifierAssumption, SMTT(30) DEF TypeOK, Deadline

LEMMA InitIInv == Init => IInv
<1> SUFFICES ASSUME Init PROVE IInv
  OBVIOUS
<1>1. TypeOK
  BY DEF Init, CacheInit, TypeOK, Stages
<1>2. Accepted = {} /\ (\A k \in Keys : seen[k] = 0) /\ \A r \in Requests : stage[r] # "checked"
  BY DEF Init, CacheInit, Accepted
<1> QED
  BY <1>1, <1>2 DEF IInv, AcceptedRemembered, CheckedRecently, SingleUseInWindow,
                     AcceptedFresh, OnlyAcceptedRecorded

\* A verdict that does not involve the cache adds no accepted request.
LEMMA DecideKeepsIInv ==
    ASSUME IInv, NEW r \in Requests, NEW s \in {"bearer", "rejected", "nonce"},
           Decide(r, s), readAt' \in [Requests -> Nat],
           \A q \in Requests : q # r => readAt'[q] = readAt[q]
    PROVE  IInv'
<1> USE DEF IInv
<1>1. TypeOK'
  BY Zenon DEF TypeOK, Decide, Stages
<1>2. /\ Accepted' = Accepted
      /\ \A q \in Requests : stage'[q] = "checked" => stage[q] = "checked" /\ q # r
  BY DEF Accepted, Decide, TypeOK
<1>3. AcceptedRemembered' /\ AcceptedFresh'
  BY <1>2 DEF AcceptedRemembered, AcceptedFresh, Decide
<1>4. SingleUseInWindow'
  BY <1>2 DEF SingleUseInWindow, SameKey, Decide
<1>5. OnlyAcceptedRecorded'
  BY <1>2 DEF OnlyAcceptedRecorded, Decide
<1>6. CheckedRecently'
  BY <1>2 DEF CheckedRecently, Decide
<1> QED
  BY <1>1, <1>3, <1>4, <1>5, <1>6

LEMMA CheckedKeepsIInv ==
    ASSUME IInv, NEW r \in Requests, EnforceChecked(r)
    PROVE  IInv'
<1> USE DEF IInv, EnforceChecked, Decide
<1>1. TypeOK'
  BY DEF TypeOK, Stages
<1>2. Accepted' = Accepted
  BY DEF Accepted, TypeOK
<1>3. AcceptedRemembered' /\ AcceptedFresh'
  BY <1>2 DEF AcceptedRemembered, AcceptedFresh
<1>4. SingleUseInWindow'
  BY <1>2 DEF SingleUseInWindow, SameKey
<1>5. OnlyAcceptedRecorded'
  BY <1>2 DEF OnlyAcceptedRecorded
<1>6. CheckedRecently'
  <2> SUFFICES ASSUME NEW q \in Requests, stage'[q] = "checked"
               PROVE  /\ readAt'[q] <= clock /\ clock - readAt'[q] <= MaxDelay
                      /\ Holds(input[q], readAt'[q])
                      /\ NonceOK(input[q], readAt'[q])
    BY DEF CheckedRecently
  <2>1. CASE q = r
    <3>1. readAt'[q] = clock /\ clock \in Nat
      BY <2>1 DEF TypeOK
    <3> QED
      BY <2>1, <3>1, VerifierAssumption
  <2>2. CASE q # r
    <3>1. readAt'[q] = readAt[q] /\ stage[q] = "checked"
      BY <2>2 DEF TypeOK
    <3> QED
      BY <3>1 DEF CheckedRecently
  <2> QED
    BY <2>1, <2>2
<1> QED
  BY <1>1, <1>3, <1>4, <1>5, <1>6

LEMMA ReplayKeepsIInv ==
    ASSUME IInv, NEW r \in Requests, EnforceReplay(r)
    PROVE  IInv'
<1> USE DEF IInv, EnforceReplay, SeenBeforeReplay
<1>1. TypeOK'
  BY DEF TypeOK, Stages
<1>2. /\ Accepted' = Accepted
      /\ \A q \in Requests : stage'[q] = "checked" => stage[q] = "checked"
  BY DEF Accepted, TypeOK
<1>3. AcceptedRemembered' /\ AcceptedFresh'
  BY <1>2 DEF AcceptedRemembered, AcceptedFresh
<1>4. SingleUseInWindow'
  BY <1>2 DEF SingleUseInWindow, SameKey
<1>5. OnlyAcceptedRecorded' /\ CheckedRecently'
  BY <1>2 DEF OnlyAcceptedRecorded, CheckedRecently
<1> QED
  BY <1>1, <1>3, <1>4, <1>5

LEMMA TickKeepsIInv == ASSUME IInv, Tick PROVE IInv'
<1> USE DEF IInv, Tick, CacheTick
<1>1. TypeOK'
  BY DEF TypeOK
<1>2. AcceptedRemembered'
  <2> SUFFICES ASSUME NEW q \in Accepted, clock' < Deadline(input[q])
               PROVE  seen[Key(input[q])] = Deadline(input[q])
    BY DEF AcceptedRemembered, Accepted
  <2>1. clock < Deadline(input[q])
    BY InputTypes DEF TypeOK, Accepted
  <2> QED
    BY <2>1 DEF AcceptedRemembered
<1>3. SingleUseInWindow'
  BY DEF SingleUseInWindow, SameKey, Accepted
<1>4. AcceptedFresh' /\ OnlyAcceptedRecorded'
  BY DEF AcceptedFresh, OnlyAcceptedRecorded, Accepted
<1>5. CheckedRecently'
  BY VerifierAssumption DEF CheckedRecently, TypeOK
<1> QED
  BY <1>1, <1>2, <1>3, <1>4, <1>5

\* The step that matters: the cache did not know the pair, so the deadline of every
\* earlier accepted proof for it has passed.
LEMMA AcceptKeepsIInv ==
    ASSUME IInv, NEW r \in Requests, EnforceAccept(r)
    PROVE  IInv'
<1> USE DEF IInv
<1> DEFINE k == Key(input[r])
           d == Deadline(input[r])
           f == [seen EXCEPT ![k] = d]
<1>1. /\ stage[r] = "checked" /\ ~(clock < seen[k])
      /\ seen' = Sweep(f) /\ clock' = clock /\ input' = input /\ readAt' = readAt
      /\ stage' = [stage EXCEPT ![r] = "accepted"]
      /\ acceptedAt' = [acceptedAt EXCEPT ![r] = clock]
  BY DEF EnforceAccept, SeenBeforeFirst, Replayed
<1>2. k \in Keys /\ d \in Nat /\ d # 0 /\ clock \in Nat /\ f \in [Keys -> Nat]
  BY InputTypes DEF TypeOK
<1>3. /\ seen' \in [Keys -> Nat]
      /\ \A j \in Keys : clock < f[j] => seen'[j] = f[j]
      /\ \A j \in Keys : seen'[j] \in {f[j], 0}
  BY <1>1, <1>2, SweepKeepsLive, Zenon
<1>4. /\ Accepted' = Accepted \cup {r} /\ r \notin Accepted
      /\ acceptedAt'[r] = clock
      /\ \A q \in Accepted : acceptedAt'[q] = acceptedAt[q]
  BY <1>1 DEF Accepted, TypeOK
<1>5. \A q \in Accepted : Key(input[q]) = k => clock >= Deadline(input[q])
  <2> SUFFICES ASSUME NEW q \in Accepted, Key(input[q]) = k, clock < Deadline(input[q])
               PROVE  FALSE
    BY <1>2, InputTypes DEF Accepted
  <2>1. seen[k] = Deadline(input[q])
    BY DEF AcceptedRemembered
  <2> QED
    BY <1>1, <2>1
<1>6. TypeOK'
  BY <1>1, <1>2, <1>3, Zenon DEF TypeOK, Stages
<1>7. AcceptedRemembered'
  <2> SUFFICES ASSUME NEW q \in Accepted', clock < Deadline(input[q])
               PROVE  seen'[Key(input[q])] = Deadline(input[q])
    BY <1>1, Zenon DEF AcceptedRemembered
  <2>1. CASE q = r
    BY <2>1, <1>2, <1>3 DEF TypeOK
  <2>2. CASE q # r
    <3>1. q \in Accepted /\ q \in Requests
      BY <2>2, <1>4 DEF Accepted
    <3>2. Key(input[q]) # k /\ Key(input[q]) \in Keys
      BY <1>2, <1>5, <3>1, InputTypes
    <3>3. f[Key(input[q])] = Deadline(input[q])
      BY <3>1, <3>2 DEF AcceptedRemembered, TypeOK
    <3> QED
      BY <1>3, <3>2, <3>3
  <2> QED
    BY <2>1, <2>2
<1>8. CheckedRecently'
  BY <1>1 DEF CheckedRecently, TypeOK
<1>9. SingleUseInWindow'
  <2> SUFFICES ASSUME NEW q \in Accepted', NEW s \in Accepted', q # s,
                      Key(input[q]) = Key(input[s])
               PROVE  \/ acceptedAt'[s] >= Deadline(input[q])
                      \/ acceptedAt'[q] >= Deadline(input[s])
    BY <1>1 DEF SingleUseInWindow, SameKey
  <2>1. CASE q = r
    BY <2>1, <1>4, <1>5
  <2>2. CASE s = r
    BY <2>2, <1>4, <1>5
  <2>3. CASE q # r /\ s # r
    BY <2>3, <1>4 DEF SingleUseInWindow, SameKey
  <2> QED
    BY <2>1, <2>2, <2>3
<1>10. AcceptedFresh'
  <2> SUFFICES ASSUME NEW q \in Accepted'
               PROVE  /\ input[q].proof.iat <= acceptedAt'[q] + IATLeeway
                      /\ acceptedAt'[q] <= Deadline(input[q]) + MaxDelay
    BY <1>1 DEF AcceptedFresh
  <2>1. CASE q = r
    <3>1. readAt[r] \in Nat /\ readAt[r] <= clock /\ clock - readAt[r] <= MaxDelay
      BY <1>1 DEF CheckedRecently, TypeOK
    <3>2. Fresh(input[r].proof, readAt[r])
      BY <1>1 DEF CheckedRecently, Holds
    <3>3. input[r].proof.iat \in Nat
      BY InputTypes
    <3>4. IATLeeway \in Nat /\ MaxDelay \in Nat
      BY VerifierAssumption
    <3> QED
      BY <2>1, <1>2, <1>4, <3>1, <3>2, <3>3, <3>4 DEF Fresh, Deadline
  <2>2. CASE q # r
    BY <2>2, <1>4 DEF AcceptedFresh
  <2> QED
    BY <2>1, <2>2
<1>11. OnlyAcceptedRecorded'
  <2> SUFFICES ASSUME NEW j \in Keys, seen'[j] # 0
               PROVE  \E q \in Accepted' :
                        /\ Key(input[q]) = j
                        /\ seen'[j] = Deadline(input[q])
                        /\ input[q].proof.wellFormed /\ input[q].proof.jkt = input[q].bound
                        /\ input[q].proof.ath = ath(input[q].token)
                        /\ NonceRequired => input[q].proof.nonce.mac
    BY <1>1, Zenon DEF OnlyAcceptedRecorded
  <2>1. seen'[j] = f[j]
    BY <1>3
  <2>2. CASE j = k
    <3>1. seen'[j] = d
      BY <1>2, <2>1, <2>2 DEF TypeOK
    <3>2. Holds(input[r], readAt[r]) /\ NonceOK(input[r], readAt[r])
      BY <1>1 DEF CheckedRecently
    <3> QED
      BY <1>4, <2>2, <3>1, <3>2 DEF Holds, NonceOK, Validate
  <2>3. CASE j # k
    <3>1. seen[j] # 0 /\ seen'[j] = seen[j]
      BY <1>2, <2>1, <2>3 DEF TypeOK
    <3> QED
      BY <1>4, <3>1 DEF OnlyAcceptedRecorded
  <2> QED
    BY <2>2, <2>3
<1> QED
  BY <1>6, <1>7, <1>8, <1>9, <1>10, <1>11

\* One case per action of Next.
LEMMA StepKeepsIInv == IInv /\ [Next]_vars => IInv'
<1> SUFFICES ASSUME IInv, [Next]_vars PROVE IInv'
  OBVIOUS
<1>1. CASE Tick
  BY <1>1, TickKeepsIInv
<1>2. ASSUME NEW r \in Requests, Enforce(r) PROVE IInv'
  <2>1. CASE EnforceUnbound(r) \/ EnforceNotOneProof(r)
    BY <2>1, DecideKeepsIInv DEF EnforceUnbound, EnforceNotOneProof, IInv, TypeOK
  <2>2. CASE EnforceRejected(r) \/ EnforceNonce(r)
    BY <2>2, DecideKeepsIInv DEF EnforceRejected, EnforceNonce, IInv, TypeOK
  <2>3. CASE EnforceChecked(r)
    BY <2>3, CheckedKeepsIInv
  <2>4. CASE EnforceReplay(r)
    BY <2>4, ReplayKeepsIInv
  <2>5. CASE EnforceAccept(r)
    BY <2>5, AcceptKeepsIInv
  <2> QED
    BY <1>2, <2>1, <2>2, <2>3, <2>4, <2>5 DEF Enforce
<1>3. CASE UNCHANGED vars
  BY <1>3, Zenon DEF vars, IInv, TypeOK, AcceptedRemembered, CheckedRecently, SingleUseInWindow,
              AcceptedFresh, OnlyAcceptedRecorded, Accepted, SameKey
<1> QED
  BY <1>1, <1>2, <1>3 DEF Next, Terminating

THEOREM Invariance == Spec => []IInv
BY InitIInv, StepKeepsIInv, PTL DEF Spec

\* The state keeps the types Init gives it.
THEOREM TypesHold == Spec => []TypeOK
<1>1. IInv => TypeOK
  BY DEF IInv
<1> QED
  BY <1>1, Invariance, PTL

\* proof.go:136-139: what the verifier does to its cache are calls of SeenBefore, with the
\* deadline of the proof as expiry, so every run of the verifier is a run of the cache.
THEOREM VerifierImplementsCache == Spec => CacheSpec
<1>1. ASSUME TypeOK, [Next]_vars PROVE [CacheNext]_cacheVars
  <2>1. CASE Tick
    BY <2>1, Zenon DEF Tick, CacheNext
  <2>2. ASSUME NEW r \in Requests, Enforce(r) PROVE [CacheNext]_cacheVars
    <3>1. input[r] \in Inputs
      BY <1>1 DEF TypeOK
    <3>2. Key(input[r]) \in Keys /\ Deadline(input[r]) \in Expiries
      BY <3>1, VerifierAssumption, Zenon
    <3>3. CASE EnforceReplay(r) \/ EnforceAccept(r)
      BY <3>2, <3>3, Zenon DEF EnforceReplay, EnforceAccept, CacheNext, SeenBefore
    <3>4. CASE ~(EnforceReplay(r) \/ EnforceAccept(r))
      <4>1. UNCHANGED <<clock, seen, answer>>
        BY <2>2, <3>4, Zenon DEF Enforce, EnforceUnbound, EnforceNotOneProof, EnforceRejected, EnforceNonce,
                                 EnforceChecked, Decide
      <4> QED
        BY <4>1 DEF cacheVars
    <3> QED
      BY <3>3, <3>4
  <2>3. CASE Terminating \/ UNCHANGED vars
    BY <2>3 DEF Terminating, vars, cacheVars
  <2> QED
    BY <1>1, <2>1, <2>2, <2>3, Zenon DEF Next
<1>2. Init => CacheInit
  BY DEF Init
<1> QED
  BY <1>1, <1>2, TypesHold, PTL DEF Spec, CacheSpec

\* proof.go:136-139 with replay.go:44-61: two accepted requests never share a (jti, htu)
\* pair unless one of them was answered at or after the other's iat + IATLeeway.
THEOREM SingleUseHolds == Spec => []SingleUseInWindow
<1>1. IInv => SingleUseInWindow
  BY DEF IInv
<1> QED
  BY <1>1, Invariance, PTL

\* proof.go:104-107: an accepted proof is late by at most the delay between Enforce's
\* clock reading and the cache's.  With SingleUseHolds this confines a second
\* acceptance to the MaxDelay ticks from the deadline on.
THEOREM FreshHolds == Spec => []AcceptedFresh
<1>1. IInv => AcceptedFresh
  BY DEF IInv
<1> QED
  BY <1>1, Invariance, PTL

\* proof.go:33-35: only proofs that passed every other check enter the replay map.
THEOREM RecordedHolds == Spec => []OnlyAcceptedRecorded
<1>1. IInv => OnlyAcceptedRecorded
  BY DEF IInv
<1> QED
  BY <1>1, Invariance, PTL

-----------------------------------------------------------------------------
Separated(a) == a \in Seq(Char) /\ \A i \in DOMAIN a : a[i] # "|"

JoinKey(s, a) == s \o <<"|">> \o a

\* What follows the last separator of a key is the URL.
LEMMA KeyParts ==
    ASSUME NEW s \in Seq(Char), NEW t \in Seq(Char), NEW a, NEW b,
           Separated(a), Separated(b), JoinKey(s, a) = JoinKey(t, b)
    PROVE  s = t /\ a = b
<1> DEFINE x == s \o <<"|">> \o a
           y == t \o <<"|">> \o b
<1>0. x = y
  BY DEF JoinKey
<1>1. "|" \in Char
  BY DEF Char
<1> USE <1>0, <1>1 DEF Separated
<1>2. /\ Len(x) = Len(s) + 1 + Len(a) /\ Len(y) = Len(t) + 1 + Len(b)
      /\ x[Len(s) + 1] = "|" /\ y[Len(t) + 1] = "|"
  OBVIOUS
<1>3. /\ \A i \in 1 .. Len(a) : x[Len(s) + 1 + i] = a[i]
      /\ \A i \in 1 .. Len(b) : y[Len(t) + 1 + i] = b[i]
  OBVIOUS
<1>4. /\ \A i \in 1 .. Len(s) : x[i] = s[i]
      /\ \A i \in 1 .. Len(t) : y[i] = t[i]
  OBVIOUS
<1>5. ASSUME Len(s) < Len(t) PROVE FALSE
  <2> DEFINE i == Len(t) - Len(s)
  <2>1. i \in 1 .. Len(a) /\ Len(s) + 1 + i = Len(t) + 1
    BY <1>2, <1>5
  <2>2. a[i] = "|"
    BY <1>2, <1>3, <2>1, Zenon
  <2> QED
    BY <2>1, <2>2
<1>6. ASSUME Len(t) < Len(s) PROVE FALSE
  <2> DEFINE i == Len(s) - Len(t)
  <2>1. i \in 1 .. Len(b) /\ Len(t) + 1 + i = Len(s) + 1
    BY <1>2, <1>6
  <2>2. b[i] = "|"
    BY <1>2, <1>3, <2>1, Zenon
  <2> QED
    BY <2>1, <2>2
<1>7. Len(s) = Len(t) /\ Len(a) = Len(b)
  BY <1>2, <1>5, <1>6
<1>8. \A i \in 1 .. Len(s) : s[i] = t[i]
  BY <1>4, <1>7
<1>9. \A i \in 1 .. Len(a) : a[i] = b[i]
  BY <1>3, <1>7, Zenon
<1>10. s = t
  BY <1>7, <1>8
<1>11. a = b
  BY <1>7, <1>9
<1> QED
  BY <1>10, <1>11

\* An accepted proof names the URL of its request.
AcceptedForURL == \A r \in Accepted : stripURL(input[r].proof.htu) = stripURL(input[r].url)

UsedBefore(in) ==
    \E s \in Accepted : input[s].proof.jti = in.proof.jti /\ stripURL(input[s].url) = stripURL(in.url)

\* Two requests that each name their own URL have one key only for one jti and one URL.
LEMMA KeyTellsProofs ==
    ASSUME NEW x \in Inputs, NEW y \in Inputs, Key(x) = Key(y),
           stripURL(x.proof.htu) = stripURL(x.url), stripURL(y.proof.htu) = stripURL(y.url)
    PROVE  x.proof.jti = y.proof.jti /\ stripURL(x.url) = stripURL(y.url)
<1> DEFINE s == x.proof.jti
           t == y.proof.jti
           a == stripURL(x.url)
           b == stripURL(y.url)
<1>1. s \in Seq(Char) /\ t \in Seq(Char)
  BY VerifierAssumption
<1>2. Separated(a) /\ Separated(b)
  BY VerifierAssumption, Zenon DEF Separated
<1>3. JoinKey(s, a) = JoinKey(t, b)
  BY Zenon DEF Key, JoinKey
<1> HIDE DEF s, t, a, b
<1>4. s = t /\ a = b
  BY <1>1, <1>2, <1>3, KeyParts
<1> QED
  BY <1>4 DEF s, t, a, b

\* The verdicts of one call of Enforce: a refusal of a proof that holds comes from the
\* cache, whose entry an accepted request wrote.
LEMMA EnforceRefuses ==
    ASSUME IInv, AcceptedForURL, NEW r \in Requests, Enforce(r)
    PROVE  /\ input' = input
           /\ stage[r] \in {"new", "checked"}
           /\ \A q \in Requests : q # r => stage'[q] = stage[q] /\ readAt'[q] = readAt[q]
           /\ stage'[r] = "accepted" => stripURL(input[r].proof.htu) = stripURL(input[r].url)
           /\ stage'[r] = "rejected" /\ OneProof(input[r]) /\ Holds(input[r], readAt'[r])
                => UsedBefore(input[r])
<1> USE DEF IInv, TypeOK, Decide
<1>1. CASE EnforceUnbound(r)
  BY <1>1 DEF EnforceUnbound, OneProof
<1>2. CASE EnforceNotOneProof(r)
  BY <1>2 DEF EnforceNotOneProof, OneProof
<1>3. CASE EnforceRejected(r)
  BY <1>3 DEF EnforceRejected
<1>4. CASE EnforceNonce(r)
  BY <1>4 DEF EnforceNonce
<1>5. CASE EnforceChecked(r)
  BY <1>5 DEF EnforceChecked
<1>6. CASE EnforceReplay(r)
  <2>1. seen[Key(input[r])] # 0 /\ Key(input[r]) \in Keys
    BY <1>6, InputTypes DEF EnforceReplay, SeenBeforeReplay, Replayed
  <2>2. PICK s \in Accepted : Key(input[s]) = Key(input[r])
    BY <2>1 DEF OnlyAcceptedRecorded
  <2>3. /\ stripURL(input[r].proof.htu) = stripURL(input[r].url)
        /\ stripURL(input[s].proof.htu) = stripURL(input[s].url)
    BY <1>6 DEF EnforceReplay, CheckedRecently, Holds, AcceptedForURL
  <2>4. input[r] \in Inputs /\ input[s] \in Inputs
    BY DEF Accepted
  <2>5. UsedBefore(input[r])
    BY <2>2, <2>3, <2>4, KeyTellsProofs DEF UsedBefore
  <2> QED
    BY <1>6, <2>5, Zenon DEF EnforceReplay
<1>7. CASE EnforceAccept(r)
  <2>1. Holds(input[r], readAt[r])
    BY <1>7 DEF EnforceAccept, CheckedRecently
  <2> QED
    BY <1>7, <2>1, Zenon DEF EnforceAccept, Holds
<1> QED
  BY <1>1, <1>2, <1>3, <1>4, <1>5, <1>6, <1>7, Zenon DEF Enforce

LEMMA RefusedStep ==
    IInv /\ AcceptedForURL /\ RefusedOnlyIfUsed /\ [Next]_vars
        => AcceptedForURL' /\ RefusedOnlyIfUsed'
<1> SUFFICES ASSUME IInv, AcceptedForURL, RefusedOnlyIfUsed, [Next]_vars
             PROVE  AcceptedForURL' /\ RefusedOnlyIfUsed'
  OBVIOUS
<1>1. ASSUME NEW r \in Requests, Enforce(r) PROVE AcceptedForURL' /\ RefusedOnlyIfUsed'
  <2>1. /\ input' = input /\ Accepted \subseteq Accepted'
        /\ \A q \in Requests : q # r => stage'[q] = stage[q] /\ readAt'[q] = readAt[q]
    BY <1>1, EnforceRefuses, Zenon DEF Accepted
  <2>2. AcceptedForURL'
    BY <1>1, <2>1, EnforceRefuses, SMTT(30) DEF AcceptedForURL, Accepted
  <2>3. ASSUME NEW q \in Requests, stage'[q] = "rejected", OneProof(input[q]),
               Holds(input[q], readAt'[q]), NonceOK(input[q], readAt'[q])
        PROVE  UsedBefore(input[q])
    <3>1. CASE q = r
      BY <1>1, <2>3, <3>1, EnforceRefuses, SMTT(30)
    <3>2. CASE q # r
      BY <2>1, <2>3, <3>2 DEF RefusedOnlyIfUsed, UsedBefore
    <3> QED
      BY <3>1, <3>2
  <2>4. RefusedOnlyIfUsed'
    BY <2>1, <2>3, Zenon DEF RefusedOnlyIfUsed, UsedBefore
  <2> QED
    BY <2>2, <2>4
<1>2. CASE Tick \/ UNCHANGED vars
  BY <1>2, SMTT(30) DEF Tick, vars, AcceptedForURL, RefusedOnlyIfUsed, Accepted
<1> QED
  BY <1>1, <1>2 DEF Next, Terminating

\* replay.go:42-51: a proof that passes every other check is only refused if one with its
\* jti was accepted for its URL before, whatever characters the jtis are made of.
THEOREM RefusedOnlyIfUsedHolds == Spec => []RefusedOnlyIfUsed
<1>1. Init => AcceptedForURL /\ RefusedOnlyIfUsed
  BY DEF Init, AcceptedForURL, RefusedOnlyIfUsed, Accepted
<1> QED
  BY <1>1, Invariance, RefusedStep, PTL DEF Spec

-----------------------------------------------------------------------------
\* Truncation to the second never moves the issue time into the future and moves
\* it back by less than a second.
LEMMA IssueTruncates ==
    ASSUME NEW t \in Nat
    PROVE  /\ Issue(t).issued \in Nat
           /\ Issue(t).issued * TicksPerSecond <= t
           /\ t < Issue(t).issued * TicksPerSecond + TicksPerSecond
BY NonceAssumption DEF Issue

\* nonce.go:73-108: a nonce this server issued is good for its lifetime less the part
\* of a second Issue cuts off.
THEOREM NonceLives ==
    ASSUME NEW t \in Nat, NEW elapsed \in Nat, elapsed + TicksPerSecond <= NonceLifetime + 1
    PROVE  Validate(Issue(t), t + elapsed)
<1> DEFINE s == Issue(t).issued * TicksPerSecond
<1>1. s \in Int /\ s <= t /\ t < s + TicksPerSecond
  BY IssueTruncates, NonceAssumption
<1>2. (t + elapsed) - s <= NonceLifetime
  BY <1>1, NonceAssumption
<1>3. s <= (t + elapsed) + NonceFutureTL
  BY <1>1, NonceAssumption
<1> QED
  BY <1>2, <1>3 DEF Validate, Issue

\* nonce.go:104-105: past its lifetime a nonce is refused, whatever the truncation.
THEOREM NonceExpires ==
    ASSUME NEW t \in Nat, NEW elapsed \in Nat, elapsed > NonceLifetime
    PROVE  ~Validate(Issue(t), t + elapsed)
<1> DEFINE s == Issue(t).issued * TicksPerSecond
<1>1. s \in Int /\ s <= t
  BY IssueTruncates, NonceAssumption
<1> QED
  BY <1>1, NonceAssumption DEF Validate

-----------------------------------------------------------------------------
(***************************************************************************)
(* The middleware over the verifier implements the verifier alone, and the *)
(* limiter is only charged for requests that proved possession.            *)
(***************************************************************************)
LEMMA GatewayStepRefines == [GatewayNext]_allVars => [Next]_vars
<1> SUFFICES ASSUME [GatewayNext]_allVars PROVE [Next]_vars
  OBVIOUS
<1>1. CASE GatewayTick
  BY <1>1 DEF GatewayTick, Next
<1>2. CASE GatewayTerminating \/ UNCHANGED allVars
  BY <1>2 DEF GatewayTerminating, allVars
<1>3. ASSUME NEW r \in Requests, GatewayValidate(r) \/ GatewayLimit(r) PROVE UNCHANGED vars
  BY <1>3 DEF GatewayValidate, GatewayLimit
<1>4. ASSUME NEW r \in Requests, GatewayEnforce(r) PROVE Next
  BY <1>4 DEF GatewayEnforce, Next
<1> QED
  BY <1>1, <1>2, <1>3, <1>4 DEF GatewayNext

\* middleware.go:93-153: putting Validate before Enforce and the limiter and the handler
\* after it adds no behaviour to the verifier: every run of the middleware is a run of
\* the verifier's specification.
THEOREM GatewayImplementsVerifier == GatewaySpec => Spec
<1>1. GatewayInit => Init
  BY DEF GatewayInit
<1> QED
  BY <1>1, GatewayStepRefines, PTL DEF GatewaySpec, Spec

\* middleware.go:107-126: behind the middleware too, a proof is accepted once while its
\* window is open.
THEOREM GatewaySingleUse == GatewaySpec => []SingleUseInWindow
  BY GatewayImplementsVerifier, SingleUseHolds, PTL

\* replay.go:11-14 and 42-50, in the composed system: behind the middleware the cache answers
\* as its interface promises, and a call leaves more than the threshold in its map only if
\* every entry is live.
THEOREM GatewayCache == GatewaySpec => KeepsReplayPromise /\ SweepBoundsMap
  BY GatewayImplementsVerifier, VerifierImplementsCache, CacheRefinesPromise, SweepBoundsMapHolds, PTL

-----------------------------------------------------------------------------
\* What Enforce let through, and what the limiter was asked.
PassedProven ==
    \A r \in Requests :
        /\ stage[r] = "bearer" => input[r].bound = Unbound
        /\ stage[r] = "accepted" => input[r].proof.jkt = input[r].bound

AllowedPassed ==
    \A r \in allowed : phase[r] \in {"served", "limited"} /\ Passed(r)

\* What the budget of the limiter went to.
SpentOnServed == \A u \in Subjects : left[u] + Cardinality(Served(u)) = Budget

GatewayInv == GatewayTypeOK /\ PassedProven /\ AllowedPassed /\ SpentOnServed

LEMMA GatewayInitInv == GatewayInit => GatewayInv
<1> SUFFICES ASSUME GatewayInit PROVE GatewayInv
  OBVIOUS
<1>1. GatewayTypeOK
  BY GatewayAssumption DEF GatewayInit, GatewayTypeOK
<1>2. PassedProven /\ AllowedPassed
  BY DEF GatewayInit, Init, PassedProven, AllowedPassed
<1>3. ASSUME NEW u \in Subjects PROVE Served(u) = {}
  BY DEF GatewayInit, Served
<1>4. SpentOnServed
  BY <1>3, FS_EmptySet, GatewayAssumption DEF GatewayInit, SpentOnServed
<1> QED
  BY <1>1, <1>2, <1>4 DEF GatewayInv

\* Steps that leave phase and left alone keep what was spent.
LEMMA SameServed ==
    ASSUME SpentOnServed, UNCHANGED <<phase, left, input>>
    PROVE  SpentOnServed'
<1>1. \A u \in Subjects : Served(u)' = Served(u)
  BY DEF Served
<1> QED
  BY <1>1 DEF SpentOnServed

\* What one call of Enforce may do to the verdicts.
LEMMA EnforceVerdicts ==
    ASSUME IInv, NEW r \in Requests, Enforce(r)
    PROVE  /\ input' = input
           /\ stage[r] \in {"new", "checked"}
           /\ \A q \in Requests : q # r => stage'[q] = stage[q]
           /\ stage'[r] = "bearer" => input[r].bound = Unbound
           /\ stage'[r] = "accepted" => input[r].proof.jkt = input[r].bound
<1> USE DEF IInv, TypeOK, Decide
<1>1. CASE EnforceUnbound(r)
  BY <1>1 DEF EnforceUnbound
<1>2. CASE EnforceNotOneProof(r)
  BY <1>2 DEF EnforceNotOneProof
<1>3. CASE EnforceRejected(r)
  BY <1>3 DEF EnforceRejected
<1>4. CASE EnforceNonce(r)
  BY <1>4 DEF EnforceNonce
<1>5. CASE EnforceChecked(r)
  BY <1>5 DEF EnforceChecked
<1>6. CASE EnforceReplay(r)
  BY <1>6 DEF EnforceReplay
<1>7. CASE EnforceAccept(r)
  <2>1. Holds(input[r], readAt[r])
    BY <1>7 DEF EnforceAccept, CheckedRecently
  <2> QED
    BY <1>7, <2>1, Zenon DEF EnforceAccept, Holds
<1> QED
  BY <1>1, <1>2, <1>3, <1>4, <1>5, <1>6, <1>7, Zenon DEF Enforce

LEMMA EnforceKeepsInv ==
    ASSUME IInv, GatewayInv, NEW r \in Requests, GatewayEnforce(r)
    PROVE  GatewayInv'
<1> USE DEF GatewayInv, GatewayEnforce, gatewayVars
<1>1. GatewayTypeOK'
  BY DEF GatewayTypeOK
<1>2. PassedProven'
  BY EnforceVerdicts DEF PassedProven
<1>3. AllowedPassed'
  BY EnforceVerdicts DEF AllowedPassed, Passed, GatewayTypeOK
<1>4. SpentOnServed'
  BY EnforceVerdicts, SameServed
<1> QED
  BY <1>1, <1>2, <1>3, <1>4

LEMMA ValidateKeepsInv ==
    ASSUME IInv, GatewayInv, NEW r \in Requests, GatewayValidate(r)
    PROVE  GatewayInv'
<1> USE DEF GatewayInv, GatewayValidate, vars
<1>1. GatewayTypeOK'
  BY DEF GatewayTypeOK
<1>2. PassedProven'
  BY DEF PassedProven
<1>3. AllowedPassed'
  BY DEF AllowedPassed, Passed, GatewayTypeOK
<1>4. \A u \in Subjects : Served(u)' = Served(u)
  BY DEF Served, GatewayTypeOK
<1>5. SpentOnServed'
  BY <1>4 DEF SpentOnServed
<1> QED
  BY <1>1, <1>2, <1>3, <1>5

\* A request that is admitted costs its subject one; a refused one costs nothing.
LEMMA LimitKeepsInv ==
    ASSUME IInv, GatewayInv, NEW r \in Requests, GatewayLimit(r)
    PROVE  GatewayInv'
<1> DEFINE u == input[r].subject
<1> USE DEF GatewayInv, GatewayLimit, vars
<1>1. u \in Subjects
  BY GatewayAssumption DEF IInv, TypeOK
<1>2. GatewayTypeOK'
  BY <1>1, GatewayAssumption DEF GatewayTypeOK
<1>3. PassedProven'
  BY DEF PassedProven
<1>4. AllowedPassed'
  BY DEF AllowedPassed, Passed, GatewayTypeOK
<1>5. CASE left[u] > 0
  <2>1. r \notin Served(u) /\ Served(u)' = Served(u) \cup {r}
    BY <1>5 DEF Served, GatewayTypeOK
  <2>2. IsFiniteSet(Served(u))
    BY GatewayAssumption, FS_Subset DEF Served
  <2>3. Cardinality(Served(u)') = Cardinality(Served(u)) + 1 /\ Cardinality(Served(u)) \in Nat
    BY <2>1, <2>2, FS_AddElement, FS_CardinalityType, Zenon
  <2>4. left'[u] = left[u] - 1 /\ left[u] \in Nat
    BY <1>1, <1>5, GatewayAssumption, SMTT(30) DEF GatewayTypeOK
  <2>5. ASSUME NEW w \in Subjects, w # u
        PROVE  left'[w] = left[w] /\ Served(w)' = Served(w)
    BY <1>5, <2>5 DEF Served, GatewayTypeOK
  <2>6. left'[u] + Cardinality(Served(u)') = Budget
    BY <1>1, <2>3, <2>4, GatewayAssumption, SMTT(30) DEF SpentOnServed
  <2>7. ASSUME NEW w \in Subjects PROVE left'[w] + Cardinality(Served(w)') = Budget
    <3>1. CASE w = u
      BY <2>6, <3>1
    <3>2. CASE w # u
      BY <2>5, <3>2 DEF SpentOnServed
    <3> QED
      BY <3>1, <3>2
  <2>8. SpentOnServed'
    BY <2>7 DEF SpentOnServed
  <2> QED
    BY <1>2, <1>3, <1>4, <2>8
<1>6. CASE ~(left[u] > 0)
  <2>1. left' = left /\ \A w \in Subjects : Served(w)' = Served(w)
    BY <1>6 DEF Served, GatewayTypeOK
  <2>2. SpentOnServed'
    BY <2>1 DEF SpentOnServed
  <2> QED
    BY <1>2, <1>3, <1>4, <2>2
<1> QED
  BY <1>5, <1>6

LEMMA GatewayStepInv == IInv /\ GatewayInv /\ [GatewayNext]_allVars => GatewayInv'
<1> SUFFICES ASSUME IInv, GatewayInv, [GatewayNext]_allVars PROVE GatewayInv'
  OBVIOUS
<1>1. CASE GatewayTick \/ GatewayTerminating \/ UNCHANGED allVars
  <2>1. UNCHANGED <<phase, left, allowed, stage, input>>
    BY <1>1 DEF GatewayTick, Tick, GatewayTerminating, allVars, gatewayVars, vars
  <2> QED
    BY <2>1, SameServed, Zenon DEF GatewayInv, GatewayTypeOK, PassedProven, AllowedPassed, Passed
<1>2. ASSUME NEW r \in Requests, GatewayValidate(r) \/ GatewayEnforce(r) \/ GatewayLimit(r)
      PROVE  GatewayInv'
  BY <1>2, ValidateKeepsInv, EnforceKeepsInv, LimitKeepsInv
<1> QED
  BY <1>1, <1>2 DEF GatewayNext

LEMMA InvCharges == IInv /\ GatewayInv => OnlyProvenCharged
<1> SUFFICES ASSUME IInv, GatewayInv PROVE OnlyProvenCharged
  OBVIOUS
<1>1. ASSUME NEW r \in allowed, input[r].bound # Unbound
      PROVE  r \in Accepted /\ input[r].proof.jkt = input[r].bound
  BY <1>1 DEF GatewayInv, GatewayTypeOK, PassedProven, AllowedPassed, Passed, Accepted
<1>2. SpentOnServed /\ SingleUseInWindow
  BY DEF IInv, GatewayInv
<1>3. ASSUME NEW r \in allowed, NEW s \in allowed, s # r, input[r].bound # Unbound,
             input[s].bound # Unbound, SameKey(r, s)
      PROVE  acceptedAt[s] >= Deadline(input[r]) \/ acceptedAt[r] >= Deadline(input[s])
  <2>1. r \in Accepted /\ s \in Accepted
    BY <1>1, <1>3
  <2> QED
    BY <1>2, <1>3, <2>1 DEF SingleUseInWindow
<1> QED
  BY <1>1, <1>2, <1>3 DEF OnlyProvenCharged, SpentOnServed

\* middleware.go:107-136: for any requests and budgets, a subject's budget is only spent on
\* requests that proved possession, each with a proof of its own, and on nothing else.
THEOREM OnlyProvenChargedHolds == GatewaySpec => []OnlyProvenCharged
<1>1. GatewaySpec => []IInv
  BY GatewayImplementsVerifier, Invariance, PTL
<1> QED
  BY <1>1, GatewayInitInv, GatewayStepInv, InvCharges, PTL DEF GatewaySpec
=============================================================================
