---------------------------- MODULE TransportProofs ----------------------------
(***************************************************************************)
(* What the transports keep for their clients: the session store, and the  *)
(* writer that adds challenges and nonces to responses.                    *)
(***************************************************************************)
EXTENDS SessionStore, ChallengeWriter, FiniteSetTheorems, TLAPS

(***************************************************************************)
(* The cap and the sliding timeout of the session store, for every set of  *)
(* users and callers, every finite set of ids, every timeout, cap, lag and *)
(* clock bound.                                                            *)
(***************************************************************************)
\* A call in flight read its clock at most MaxLag ago.
CallsRecent ==
    \A c \in Callers :
        InFlight(c) => call[c].now <= clock /\ clock - call[c].now <= MaxLag

\* No successful Open or Touch carried a time from the future.
UsesPast == \A i \in Ids : lastUse[i] <= clock

IInv == TypeOK /\ CallsRecent /\ UsesPast /\ LastSeenLag /\ CapRespected

-----------------------------------------------------------------------------
\* reapForUserLocked and delete only take entries out: what is left is a map of
\* the same shape, with the same values, no larger for any user.
LEMMA WithoutShrinks ==
    ASSUME TypeOK, NEW S
    PROVE  /\ DOMAIN Without(S) \subseteq DOMAIN sessions
           /\ DOMAIN Without(S) \subseteq used
           /\ Without(S) \in [DOMAIN Without(S) -> Session]
           /\ \A i \in DOMAIN Without(S) : Without(S)[i] = sessions[i]
           /\ \A u \in Users :
                /\ IsFiniteSet(OwnedBy(Without(S), u))
                /\ countForUserLocked(Without(S), u) \in Nat
                /\ countForUserLocked(sessions, u) \in Nat
                /\ countForUserLocked(Without(S), u) <= countForUserLocked(sessions, u)
<1> DEFINE g == Without(S)
<1>1. DOMAIN g = DOMAIN sessions \ S
  BY DEF Without
<1>2. \A i \in DOMAIN g : g[i] = sessions[i]
  BY DEF Without
<1>3. g \in [DOMAIN g -> Session]
  BY <1>1, <1>2 DEF TypeOK, Without
<1>4. ASSUME NEW u \in Users
      PROVE  /\ IsFiniteSet(OwnedBy(g, u))
             /\ countForUserLocked(g, u) \in Nat
             /\ countForUserLocked(sessions, u) \in Nat
             /\ countForUserLocked(g, u) <= countForUserLocked(sessions, u)
  <2>1. OwnedBy(sessions, u) \subseteq Ids
    BY DEF TypeOK, OwnedBy
  <2>2. IsFiniteSet(OwnedBy(sessions, u))
    BY <2>1, NameAssumption, FS_Subset
  <2>3. OwnedBy(g, u) \subseteq OwnedBy(sessions, u)
    BY <1>1, <1>2 DEF OwnedBy
  <2>4. IsFiniteSet(OwnedBy(g, u)) /\ Cardinality(OwnedBy(g, u)) <= Cardinality(OwnedBy(sessions, u))
    BY <2>2, <2>3, FS_Subset
  <2> QED
    BY <2>2, <2>4, FS_CardinalityType DEF countForUserLocked
<1> QED
  BY <1>1, <1>2, <1>3, <1>4 DEF TypeOK

\* A step that replaces the map by a part of it, and leaves the ids and the
\* history alone, keeps every fact about the map.
LEMMA ShrinkKeepsMapFacts ==
    ASSUME TypeOK, LastSeenLag, CapRespected, NEW S,
           sessions' = Without(S), used' = used, lastUse' = lastUse
    PROVE  /\ DOMAIN sessions' \subseteq used'
           /\ sessions' \in [DOMAIN sessions' -> Session]
           /\ LastSeenLag'
           /\ CapRespected'
<1>1. /\ DOMAIN sessions' \subseteq DOMAIN sessions
      /\ DOMAIN sessions' \subseteq used'
      /\ sessions' \in [DOMAIN sessions' -> Session]
      /\ \A i \in DOMAIN sessions' : sessions'[i] = sessions[i]
  BY WithoutShrinks
<1>2. LastSeenLag'
  BY <1>1 DEF LastSeenLag
<1>3. CapRespected'
  <2> SUFFICES ASSUME MaxConcurrentPerUser > 0, NEW u \in Users
               PROVE  Cardinality(OwnedBy(sessions', u)) <= MaxConcurrentPerUser
    BY DEF CapRespected, countForUserLocked, OwnedBy
  <2>1. countForUserLocked(sessions, u) <= MaxConcurrentPerUser
    BY DEF CapRespected
  <2>2. /\ countForUserLocked(Without(S), u) \in Nat
        /\ countForUserLocked(sessions, u) \in Nat
        /\ countForUserLocked(Without(S), u) <= countForUserLocked(sessions, u)
    BY WithoutShrinks
  <2> QED
    BY <2>1, <2>2, TimeAssumption DEF countForUserLocked
<1> QED
  BY <1>1, <1>2, <1>3

\* What every operation does to its caller: the call ends, with its result.
LEMMA ReturnTypes ==
    ASSUME TypeOK, NEW c \in Callers, NEW r \in Results, Return(c, r)
    PROVE  /\ call' \in [Callers -> Call]
           /\ \A d \in Callers : call'[d].op = "Open" => call'[d].arg \in Users \cup {NoUser}
           /\ result' \in [Callers -> Results]
           /\ \A d \in Callers : call'[d].op # "Idle" => call'[d] = call[d] /\ InFlight(d)
BY DEF TypeOK, Return, Idle, Call, Ops, Args, InFlight

\* An operation does not move the clock, and the calls still in flight after it
\* were in flight before it.
LEMMA ReturnKeepsRecent ==
    ASSUME TypeOK, CallsRecent, NEW c \in Callers, NEW r \in Results, Return(c, r),
           clock' = clock
    PROVE  CallsRecent'
BY ReturnTypes DEF CallsRecent, InFlight

LEMMA InitIInv == Init => IInv
<1> SUFFICES ASSUME Init PROVE IInv
  OBVIOUS
<1>1. TypeOK
  BY DEF Init, TypeOK, Session, Call, Ops, Args, Idle, Results
<1>2. CallsRecent /\ UsesPast /\ LastSeenLag
  BY DEF Init, CallsRecent, UsesPast, LastSeenLag, InFlight, Idle
<1>3. CapRespected
  <2>1. \A u \in Users : OwnedBy(sessions, u) = {}
    BY DEF Init, OwnedBy
  <2> QED
    BY <2>1, FS_EmptySet, TimeAssumption DEF CapRespected, countForUserLocked
<1> QED
  BY <1>1, <1>2, <1>3 DEF IInv

\* The four operations that can only take sessions out of the map.
LEMMA ShrinkKeepsIInv ==
    ASSUME IInv, NEW c \in Callers, NEW r \in Results, NEW S,
           sessions' = Without(S), Return(c, r), UNCHANGED <<clock, used, lastUse>>
    PROVE  IInv'
<1>1. /\ DOMAIN sessions' \subseteq used'
      /\ sessions' \in [DOMAIN sessions' -> Session]
      /\ LastSeenLag'
      /\ CapRespected'
  BY ShrinkKeepsMapFacts DEF IInv
<1>2. TypeOK'
  BY <1>1, ReturnTypes DEF IInv, TypeOK
<1>3. CallsRecent'
  BY ReturnKeepsRecent DEF IInv
<1>4. UsesPast'
  BY DEF IInv, UsesPast
<1> QED
  BY <1>1, <1>2, <1>3, <1>4 DEF IInv

\* A successful Open: the reaped map is below the cap, so one more session fits.
LEMMA OpenKeepsIInv ==
    ASSUME IInv, NEW c \in Callers, OpenGranted(c)
    PROVE  IInv'
<1> DEFINE u    == call[c].arg
           now  == call[c].now
           S    == {i \in OwnedBy(sessions, u) : TimedOut(i, now)}
           kept == Without(S)
<1> USE DEF IInv
<1>1. PICK id \in Ids \ used :
        /\ sessions' = [i \in DOMAIN kept \cup {id} |->
                          IF i = id THEN [userID |-> u, lastSeen |-> now] ELSE kept[i]]
        /\ used' = used \cup {id}
        /\ lastUse' = [lastUse EXCEPT ![id] = now]
  BY Zenon DEF OpenGranted, reapForUserLocked
<1>2. u \in Users /\ now \in Nat /\ now <= clock /\ clock \in Nat
  BY DEF OpenGranted, TypeOK, CallsRecent, InFlight, Call
<1>3. /\ DOMAIN kept \subseteq DOMAIN sessions
      /\ DOMAIN kept \subseteq used
      /\ kept \in [DOMAIN kept -> Session]
      /\ \A i \in DOMAIN kept : kept[i] = sessions[i]
      /\ \A v \in Users :
           /\ IsFiniteSet(OwnedBy(kept, v))
           /\ countForUserLocked(kept, v) \in Nat
           /\ countForUserLocked(sessions, v) \in Nat
           /\ countForUserLocked(kept, v) <= countForUserLocked(sessions, v)
  BY WithoutShrinks
<1>4. id \notin DOMAIN kept
  BY <1>1, <1>3
<1>5. /\ DOMAIN sessions' = DOMAIN kept \cup {id}
      /\ sessions'[id] = [userID |-> u, lastSeen |-> now]
      /\ \A i \in DOMAIN kept : sessions'[i] = sessions[i]
  BY <1>1, <1>3, <1>4
<1>6. TypeOK'
  <2>1. [userID |-> u, lastSeen |-> now] \in Session
    BY <1>2 DEF Session
  <2>2. sessions' \in [DOMAIN sessions' -> Session]
    BY <1>1, <1>3, <1>5, <2>1
  <2>3. DOMAIN sessions' \subseteq used' /\ used' \subseteq Ids
    BY <1>1, <1>3, <1>5 DEF TypeOK
  <2>4. lastUse' \in [Ids -> Nat]
    BY <1>1, <1>2 DEF TypeOK
  <2>5. Return(c, "ok") /\ clock' = clock
    BY DEF OpenGranted
  <2> QED
    BY <2>2, <2>3, <2>4, <2>5, ReturnTypes DEF TypeOK, Results
<1>7. CallsRecent'
  BY ReturnKeepsRecent DEF OpenGranted, Results
<1>8. UsesPast'
  BY <1>1, <1>2 DEF UsesPast, TypeOK, OpenGranted
<1>9. LastSeenLag'
  <2> SUFFICES ASSUME NEW i \in DOMAIN sessions'
               PROVE  lastUse'[i] - sessions'[i].lastSeen <= MaxLag
    BY DEF LastSeenLag
  <2>1. CASE i = id
    BY <2>1, <1>1, <1>2, <1>5, TimeAssumption DEF TypeOK
  <2>2. CASE i # id
    <3>1. i \in DOMAIN sessions /\ sessions'[i] = sessions[i] /\ i \in Ids
      BY <2>2, <1>3, <1>5 DEF TypeOK
    <3>2. lastUse'[i] = lastUse[i]
      BY <1>1, <2>2, <3>1 DEF TypeOK
    <3> QED
      BY <3>1, <3>2 DEF LastSeenLag
  <2> QED
    BY <2>1, <2>2
<1>10. CapRespected'
  <2> SUFFICES ASSUME MaxConcurrentPerUser > 0, NEW v \in Users
               PROVE  Cardinality(OwnedBy(sessions', v)) <= MaxConcurrentPerUser
    BY DEF CapRespected, countForUserLocked, OwnedBy
  <2>0. /\ DOMAIN sessions' = DOMAIN kept \cup {id}
        /\ sessions'[id].userID = u
        /\ \A i \in DOMAIN kept : sessions'[i].userID = kept[i].userID
    BY <1>3, <1>5
  <2> HIDE DEF kept
  <2>1. CASE v = u
    <3>1. OwnedBy(sessions', v) = OwnedBy(kept, v) \cup {id} /\ id \notin OwnedBy(kept, v)
      BY <2>0, <2>1, <1>4 DEF OwnedBy
    <3>2. Cardinality(OwnedBy(sessions', v)) = Cardinality(OwnedBy(kept, v)) + 1
      BY <3>1, <1>3, FS_AddElement, Zenon
    <3>3. Cardinality(OwnedBy(kept, v)) \in Nat /\ Cardinality(OwnedBy(kept, v)) < MaxConcurrentPerUser
      BY <2>1, <1>3, TimeAssumption DEF kept, OpenGranted, AtCap, countForUserLocked, reapForUserLocked
    <3> QED
      BY <3>2, <3>3, TimeAssumption
  <2>2. CASE v # u
    <3>1. OwnedBy(sessions', v) = OwnedBy(kept, v)
      BY <2>0, <2>2, <1>4 DEF OwnedBy
    <3>2. countForUserLocked(sessions, v) <= MaxConcurrentPerUser
      BY DEF CapRespected
    <3> QED
      BY <3>1, <3>2, <1>3, TimeAssumption DEF countForUserLocked
  <2> QED
    BY <2>1, <2>2
<1> QED
  BY <1>6, <1>7, <1>8, <1>9, <1>10

\* A successful Touch: lastSeen may move backwards, but the time it takes was read
\* at most MaxLag ago, and no use is later than now.
LEMMA TouchKeepsIInv ==
    ASSUME IInv, NEW c \in Callers, TouchLive(c)
    PROVE  IInv'
<1> DEFINE i   == call[c].arg
           now == call[c].now
<1> USE DEF IInv
<1>1. /\ i \in DOMAIN sessions /\ i \in Ids
      /\ sessions' = [sessions EXCEPT ![i].lastSeen = now]
      /\ lastUse' = [lastUse EXCEPT ![i] = LaterOf(lastUse[i], now)]
      /\ Return(c, "ok") /\ clock' = clock /\ used' = used
  BY DEF TouchLive, TypeOK
<1>2. now \in Nat /\ now <= clock /\ clock - now <= MaxLag /\ clock \in Nat
  BY DEF TouchLive, TypeOK, CallsRecent, InFlight, Call
<1>3. /\ DOMAIN sessions' = DOMAIN sessions
      /\ \A j \in DOMAIN sessions : j # i => sessions'[j] = sessions[j]
      /\ sessions'[i] = [sessions[i] EXCEPT !.lastSeen = now]
  BY <1>1 DEF TypeOK
<1>4. sessions[i] \in Session
  BY <1>1 DEF TypeOK
<1>5. /\ sessions'[i] \in Session
      /\ sessions'[i].userID = sessions[i].userID
      /\ sessions'[i].lastSeen = now
  BY <1>2, <1>3, <1>4 DEF Session
<1>6. lastUse[i] \in Nat /\ lastUse[i] <= clock /\ LaterOf(lastUse[i], now) \in Nat /\ LaterOf(lastUse[i], now) <= clock
  BY <1>1, <1>2 DEF TypeOK, UsesPast, LaterOf
<1>7. TypeOK'
  <2>1. sessions' \in [DOMAIN sessions' -> Session]
    BY <1>1, <1>3, <1>5 DEF TypeOK
  <2>2. lastUse' \in [Ids -> Nat]
    BY <1>1, <1>6 DEF TypeOK
  <2> QED
    BY <1>1, <1>3, <2>1, <2>2, ReturnTypes DEF TypeOK, Results
<1>8. CallsRecent'
  BY <1>1, ReturnKeepsRecent DEF Results
<1>9. UsesPast'
  BY <1>1, <1>6 DEF UsesPast, TypeOK
<1>10. LastSeenLag'
  <2> SUFFICES ASSUME NEW j \in DOMAIN sessions'
               PROVE  lastUse'[j] - sessions'[j].lastSeen <= MaxLag
    BY DEF LastSeenLag
  <2>1. CASE j = i
    <3>1. lastUse'[i] = LaterOf(lastUse[i], now)
      BY <1>1 DEF TypeOK
    <3> QED
      BY <2>1, <3>1, <1>2, <1>5, <1>6, TimeAssumption
  <2>2. CASE j # i
    BY <2>2, <1>1, <1>3 DEF LastSeenLag, TypeOK
  <2> QED
    BY <2>1, <2>2
<1>11. CapRespected'
  <2>1. \A u : OwnedBy(sessions', u) = OwnedBy(sessions, u)
    BY <1>1, <1>3, <1>5 DEF OwnedBy
  <2> QED
    BY <2>1 DEF CapRespected, countForUserLocked
<1> QED
  BY <1>7, <1>8, <1>9, <1>10, <1>11

\* Reading the clock for a new call.
LEMMA BeginKeepsIInv ==
    ASSUME IInv, NEW c \in Callers, NEW op \in Ops, NEW arg \in Args,
           op = "Open" => arg \in Users \cup {NoUser},
           Begin(c, op, arg)
    PROVE  IInv'
<1> USE DEF IInv
<1>1. [op |-> op, arg |-> arg, now |-> clock] \in Call
  BY DEF TypeOK, Call
<1>2. TypeOK'
  BY <1>1 DEF TypeOK, Begin, Results
<1>3. CallsRecent'
  BY TimeAssumption DEF CallsRecent, Begin, InFlight, TypeOK
<1>4. UsesPast' /\ LastSeenLag' /\ CapRespected'
  BY DEF UsesPast, LastSeenLag, CapRespected, countForUserLocked, OwnedBy, Begin
<1> QED
  BY <1>2, <1>3, <1>4

LEMMA TickKeepsIInv == ASSUME IInv, Tick PROVE IInv'
<1> USE DEF IInv, Tick
<1>1. TypeOK' /\ LastSeenLag' /\ CapRespected'
  BY DEF TypeOK, LastSeenLag, CapRespected, countForUserLocked, OwnedBy
<1>2. CallsRecent'
  BY TimeAssumption DEF CallsRecent, InFlight, TypeOK, Call
<1>3. UsesPast'
  BY DEF UsesPast, TypeOK
<1> QED
  BY <1>1, <1>2, <1>3

\* One case per action of Next.
LEMMA StepKeepsIInv == IInv /\ [Next]_vars => IInv'
<1> SUFFICES ASSUME IInv, [Next]_vars PROVE IInv'
  OBVIOUS
<1>1. CASE Tick
  BY <1>1, TickKeepsIInv
<1>2. ASSUME NEW c \in Callers, CallStep(c) PROVE IInv'
  <2>1. CASE BeginOpen(c)
    BY <2>1, BeginKeepsIInv DEF BeginOpen, Ops, Args
  <2>2. CASE BeginTouch(c) \/ BeginClose(c)
    BY <2>2, BeginKeepsIInv DEF BeginTouch, BeginClose, Ops, Args, IInv, TypeOK
  <2>3. CASE BeginCount(c)
    BY <2>3, BeginKeepsIInv DEF BeginCount, Ops, Args
  <2>4. CASE OpenEmptyUser(c) \/ TouchUnknown(c)
    <3>1. PICK r \in Results : Return(c, r) /\ UNCHANGED <<clock, sessions, used, lastUse>>
      BY <2>4 DEF OpenEmptyUser, TouchUnknown, Results
    <3>2. TypeOK' /\ CallsRecent'
      BY <3>1, ReturnTypes, ReturnKeepsRecent DEF IInv, TypeOK
    <3>3. UsesPast' /\ LastSeenLag' /\ CapRespected'
      BY <3>1 DEF IInv, UsesPast, LastSeenLag, CapRespected, countForUserLocked, OwnedBy
    <3> QED
      BY <3>2, <3>3 DEF IInv
  <2>5. CASE OpenAtCap(c)
    BY <2>5, ShrinkKeepsIInv DEF OpenAtCap, reapForUserLocked, Results
  <2>6. CASE OpenGranted(c)
    BY <2>6, OpenKeepsIInv
  <2>7. CASE TouchExpired(c)
    BY <2>7, ShrinkKeepsIInv DEF TouchExpired, Results
  <2>8. CASE TouchLive(c)
    BY <2>8, TouchKeepsIInv
  <2>9. CASE Close(c)
    BY <2>9, ShrinkKeepsIInv DEF Close, Results
  <2>10. CASE Count(c)
    BY <2>10, ShrinkKeepsIInv DEF Count, reapForUserLocked, Results
  <2> QED
    BY <1>2, <2>1, <2>2, <2>3, <2>4, <2>5, <2>6, <2>7, <2>8, <2>9, <2>10 DEF CallStep
<1>3. CASE UNCHANGED vars
  BY <1>3 DEF vars, IInv, TypeOK, CallsRecent, UsesPast, LastSeenLag, CapRespected,
              countForUserLocked, OwnedBy, InFlight
<1> QED
  BY <1>1, <1>2, <1>3 DEF Next

\* The conjunction of types, recent calls, past uses, lag and cap holds always.
THEOREM Invariance == Spec => []IInv
BY InitIInv, StepKeepsIInv, PTL DEF Spec

\* The state keeps the types Init gives it.
THEOREM TypesHold == Spec => []TypeOK
<1>1. IInv => TypeOK
  BY DEF IInv
<1> QED
  BY <1>1, Invariance, PTL

\* session.go:47-49: under every interleaving of Open, Touch, Close and Count, and
\* however stale the time a call carries, no user holds more than
\* MaxConcurrentPerUser sessions.
THEOREM CapHolds == Spec => []CapRespected
<1>1. IInv => CapRespected
  BY DEF IInv
<1> QED
  BY <1>1, Invariance, PTL

\* The stored lastSeen is never more than MaxLag behind the latest use.
THEOREM LagHolds == Spec => []LastSeenLag
<1>1. IInv => LastSeenLag
  BY DEF IInv
<1> QED
  BY <1>1, Invariance, PTL

-----------------------------------------------------------------------------
\* A reap takes out a session only when its stored lastSeen is more than Timeout
\* old, and the lag bound turns that into a bound on its latest use.
LEMMA TimedOutMeansIdle ==
    ASSUME IInv, NEW c \in Callers, NEW i \in DOMAIN sessions, TimedOut(i, call[c].now)
    PROVE  Timeout > 0 /\ call[c].now - lastUse[i] > Timeout - MaxLag
<1>1. sessions[i].lastSeen \in Nat /\ lastUse[i] \in Nat /\ call[c].now \in Nat
  BY DEF IInv, TypeOK, Session, Call
<1>2. lastUse[i] - sessions[i].lastSeen <= MaxLag
  BY DEF IInv, LastSeenLag
<1> QED
  BY <1>1, <1>2, TimeAssumption DEF TimedOut

LEMMA StepKeepsActive == IInv /\ [Next]_vars => [KeptUnlessIdle(MaxLag)]_vars
<1> SUFFICES ASSUME IInv, Next PROVE KeptUnlessIdle(MaxLag)
  OBVIOUS
<1> SUFFICES ASSUME NEW i \in Ids, Removed(i)
             PROVE  \/ ClosedNow(i)
                    \/ /\ Timeout > 0
                       /\ \E c \in Callers : Finished(c) /\ call[c].now - lastUse[i] > Timeout - MaxLag
  BY DEF KeptUnlessIdle
<1>1. i \in DOMAIN sessions /\ i \notin DOMAIN sessions'
  BY DEF Removed
<1>2. PICK c \in Callers : CallStep(c)
  BY <1>1 DEF Next, Tick
<1>3. ASSUME NEW r, Return(c, r), call[c].op # "Idle" PROVE Finished(c)
  BY <1>3 DEF IInv, TypeOK, Return, Finished, InFlight
<1>4. ASSUME NEW S, S \subseteq {j \in DOMAIN sessions : TimedOut(j, call[c].now)},
             DOMAIN Without(S) \subseteq DOMAIN sessions', Finished(c)
      PROVE  /\ Timeout > 0
             /\ \E d \in Callers : Finished(d) /\ call[d].now - lastUse[i] > Timeout - MaxLag
  <2>1. i \in S
    BY <1>1, <1>4 DEF Without
  <2> QED
    BY <1>1, <1>4, <2>1, TimedOutMeansIdle
<1>5. CASE BeginOpen(c) \/ BeginTouch(c) \/ BeginClose(c) \/ BeginCount(c)
  BY <1>1, <1>5 DEF BeginOpen, BeginTouch, BeginClose, BeginCount, Begin
<1>6. CASE OpenEmptyUser(c) \/ TouchUnknown(c)
  BY <1>1, <1>6 DEF OpenEmptyUser, TouchUnknown
<1>7. CASE OpenAtCap(c) \/ OpenGranted(c) \/ Count(c)
  <2> DEFINE S == {j \in OwnedBy(sessions, call[c].arg) : TimedOut(j, call[c].now)}
  <2>1. S \subseteq {j \in DOMAIN sessions : TimedOut(j, call[c].now)}
    BY DEF OwnedBy
  <2>2. DOMAIN Without(S) \subseteq DOMAIN sessions'
    BY <1>7, Zenon DEF OpenAtCap, OpenGranted, Count, reapForUserLocked
  <2>3. Finished(c)
    BY <1>3, <1>7 DEF OpenAtCap, OpenGranted, Count
  <2> QED
    BY <1>4, <2>1, <2>2, <2>3, Zenon
<1>8. CASE TouchExpired(c)
  <2> DEFINE S == {call[c].arg}
  <2>1. S \subseteq {j \in DOMAIN sessions : TimedOut(j, call[c].now)}
    BY <1>8 DEF TouchExpired
  <2>2. DOMAIN Without(S) \subseteq DOMAIN sessions'
    BY <1>8 DEF TouchExpired
  <2>3. Finished(c)
    BY <1>3, <1>8 DEF TouchExpired
  <2> QED
    BY <1>4, <2>1, <2>2, <2>3
<1>9. CASE TouchLive(c)
  BY <1>1, <1>9 DEF TouchLive, IInv, TypeOK
<1>10. CASE Close(c)
  <2>1. i = call[c].arg
    BY <1>1, <1>10 DEF Close, Without
  <2>2. Finished(c)
    BY <1>3, <1>10 DEF Close
  <2> QED
    BY <2>1, <2>2, <1>10 DEF ClosedNow, Close
<1> QED
  BY <1>2, <1>5, <1>6, <1>7, <1>8, <1>9, <1>10 DEF CallStep

\* session.go:42-44 and 23-24, with the lag made explicit: a session leaves the map
\* by Close, or because it had not been used for Timeout - MaxLag; with Timeout 0 by
\* Close only.  When calls reach the mutex in the tick they read the clock in
\* (MaxLag = 0) this is the documented sliding timeout.
THEOREM SlidingTimeoutHolds == Spec => SlidingTimeout
BY Invariance, StepKeepsActive, PTL DEF Spec, SlidingTimeout

\* session.go:92-95: Open refuses a user only when, at the time it read, the user held the cap in
\* sessions that had not timed out; it counts after its own reap, whatever other calls did
\* between its clock read and the mutex.
THEOREM RefusedOnlyAtCapHolds == Spec => RefusedOnlyAtCap
<1> DEFINE Live(c) == {i \in OwnedBy(sessions, call[c].arg) :
                          ~(Timeout > 0 /\ call[c].now - sessions[i].lastSeen > Timeout)}
           Refused(c) == call[c].op = "Open" /\ Finished(c) /\ result'[c] = "limit"
<1>1. ASSUME IInv, Next, NEW c \in Callers, Refused(c)
      PROVE  Cardinality(Live(c)) >= MaxConcurrentPerUser
  <2>1. call[c].op = "Open" /\ call'[c] # call[c] /\ result'[c] = "limit"
    BY <1>1 DEF Finished, InFlight, Idle
  <2>2. PICK d \in Callers : CallStep(d)
    BY <1>1, <2>1 DEF Next, Tick
  <2>3. OpenAtCap(c)
    <3>1. call \in [Callers -> Call] /\ result \in [Callers -> Results]
      BY <1>1 DEF IInv, TypeOK
    <3>2. CASE BeginOpen(d) \/ BeginTouch(d) \/ BeginClose(d) \/ BeginCount(d)
      <4>1. \A e \in Callers : call'[e] # call[e] => call[e].op = "Idle"
        BY <3>1, <3>2 DEF BeginOpen, BeginTouch, BeginClose, BeginCount, Begin, InFlight
      <4> QED
        BY <2>1, <4>1
    <3>3. ASSUME NEW r, Return(d, r) PROVE d = c /\ r = "limit"
      BY <2>1, <3>1, <3>3 DEF Return
    <3>4. CASE OpenEmptyUser(d) \/ OpenGranted(d)
      BY <3>3, <3>4, SMTT(30) DEF OpenEmptyUser, OpenGranted
    <3>5. CASE TouchUnknown(d) \/ TouchExpired(d) \/ TouchLive(d) \/ Close(d) \/ Count(d)
      <4>1. call[d].op # "Open" /\ \E r : Return(d, r)
        BY <3>5 DEF TouchUnknown, TouchExpired, TouchLive, Close, Count
      <4> QED
        BY <2>1, <3>3, <4>1
    <3>6. CASE OpenAtCap(d)
      <4>1. Return(d, "limit")
        BY <3>6 DEF OpenAtCap
      <4> QED
        BY <3>3, <3>6, <4>1
    <3> QED
      BY <2>2, <3>2, <3>4, <3>5, <3>6, Zenon DEF CallStep
  <2> DEFINE u == call[c].arg
             kept == reapForUserLocked(u, call[c].now)
  <2>4. Cardinality(OwnedBy(kept, u)) >= MaxConcurrentPerUser
    BY <2>3, Zenon DEF OpenAtCap, AtCap, countForUserLocked
  <2>5. OwnedBy(kept, u) = Live(c)
    BY DEF reapForUserLocked, Without, OwnedBy, TimedOut
  <2> QED
    BY <2>4, <2>5, Zenon
<1>2. IInv /\ [Next]_vars =>
        [\A c \in Callers : Refused(c) => LET u == call[c].arg IN
             Cardinality(Live(c)) >= MaxConcurrentPerUser]_vars
  BY <1>1, Zenon
<1> QED
  BY <1>2, Invariance, PTL DEF Spec, RefusedOnlyAtCap

\* An id that has left the map never returns: Touch does not insert, and Open
\* inserts only an id newID had not produced before.
THEOREM NoRevivalHolds == Spec => NoRevival
<1>1. IInv /\ [Next]_vars => [\A i \in used \ DOMAIN sessions : i \notin DOMAIN sessions']_vars
  <2> SUFFICES ASSUME IInv, Next, NEW i \in used \ DOMAIN sessions
               PROVE  i \notin DOMAIN sessions'
    OBVIOUS
  <2>1. CASE Tick
    BY <2>1 DEF Tick
  <2>2. ASSUME NEW c \in Callers, CallStep(c) PROVE i \notin DOMAIN sessions'
    <3>1. CASE OpenGranted(c)
      BY <3>1 DEF OpenGranted, reapForUserLocked, Without
    <3>2. CASE OpenAtCap(c) \/ TouchExpired(c) \/ Close(c) \/ Count(c)
      BY <3>2 DEF OpenAtCap, TouchExpired, Close, Count, reapForUserLocked, Without
    <3>3. CASE TouchLive(c)
      BY <3>3 DEF TouchLive, IInv, TypeOK
    <3>4. CASE OpenEmptyUser(c) \/ TouchUnknown(c)
      BY <3>4 DEF OpenEmptyUser, TouchUnknown
    <3>5. CASE BeginOpen(c) \/ BeginTouch(c) \/ BeginClose(c) \/ BeginCount(c)
      BY <3>5 DEF BeginOpen, BeginTouch, BeginClose, BeginCount, Begin
    <3> QED
      BY <2>2, <3>1, <3>2, <3>3, <3>4, <3>5 DEF CallStep
  <2> QED
    BY <2>1, <2>2 DEF Next
<1> QED
  BY <1>1, Invariance, PTL DEF Spec, NoRevival

-----------------------------------------------------------------------------
(***************************************************************************)
(* The response writer.                                                    *)
(***************************************************************************)
Headers == [challenge : {"", "Bearer", "DPoP use_dpop_nonce", "DPoP invalid_dpop_proof"},
            nonce : BOOLEAN, cache : {"", "no-store", "no-cache"}]

DPoPCodes == {"invalid_dpop_proof", "use_dpop_nonce"}

\* Whether IssueNonce always returns a nonce.
Rotates == NonceConfigured /\ ~RNGFails

LEMMA RotateKeeps ==
    ASSUME NEW h \in Headers, NEW g \in rotate(h)
    PROVE  /\ g \in Headers /\ g.challenge = h.challenge
           /\ h.cache = "no-cache" => g.cache = "no-cache"
           /\ Rotates => g.nonce
<1>1. PICK n \in Nonces : g = IF n THEN [h EXCEPT !.nonce = TRUE, !.cache = IF @ = "" THEN "no-store" ELSE @] ELSE h
  BY DEF rotate
<1>2. n \in BOOLEAN /\ (Rotates => n)
  BY Zenon DEF Nonces, Rotates
<1>3. CASE n
  <2>1. g = [h EXCEPT !.nonce = TRUE, !.cache = IF h.cache = "" THEN "no-store" ELSE h.cache]
    BY <1>1, <1>3
  <2>2. g \in Headers /\ g.challenge = h.challenge /\ g.nonce = TRUE
        /\ g.cache = IF h.cache = "" THEN "no-store" ELSE h.cache
    BY <2>1, Zenon DEF Headers
  <2> QED
    BY <2>2, Zenon
<1>4. CASE ~n
  BY <1>1, <1>2, <1>4, Zenon
<1> QED
  BY <1>2, <1>3, <1>4

\* challengeWriter.inject after a DPoP failure.
LEMMA InjectChallenge ==
    ASSUME NEW h \in Headers, st.isDPoP, st.code \in DPoPCodes, NEW g \in inject(h, 401)
    PROVE  /\ g \in Headers /\ g.challenge = dpopChallenge(st.code) /\ g.cache = "no-store"
           /\ g.nonce => h.nonce \/ st.code = "use_dpop_nonce"
           /\ st.code = "use_dpop_nonce" /\ Rotates => g.nonce
<1>1. PICK n \in Nonces : g = [h EXCEPT !.challenge = dpopChallenge(st.code), !.cache = "no-store",
                                       !.nonce = @ \/ (st.code = "use_dpop_nonce" /\ n)]
  BY Zenon DEF inject
<1> DEFINE b == h.nonce \/ (st.code = "use_dpop_nonce" /\ n)
           d == dpopChallenge(st.code)
<1>2. n \in BOOLEAN /\ (Rotates => n)
  BY Zenon DEF Nonces, Rotates
<1>3. g = [h EXCEPT !.challenge = d, !.cache = "no-store", !.nonce = b]
  BY <1>1, Zenon
<1>4. b \in BOOLEAN
  BY <1>2, Zenon DEF Headers
<1>5. d \in {"", "Bearer", "DPoP use_dpop_nonce", "DPoP invalid_dpop_proof"}
  BY DEF dpopChallenge
<1>6. b => h.nonce \/ st.code = "use_dpop_nonce"
  BY Zenon
<1>7. st.code = "use_dpop_nonce" /\ Rotates => b
  BY <1>2, Zenon
<1> HIDE DEF b, d
<1>8. g \in Headers /\ g.challenge = d /\ g.cache = "no-store" /\ g.nonce = b
  <2>1. DOMAIN h = {"challenge", "nonce", "cache"} /\ h = [k \in DOMAIN h |-> h[k]]
    BY Zenon DEF Headers
  <2>2. g.challenge = d /\ g.cache = "no-store" /\ DOMAIN g = {"challenge", "nonce", "cache"}
        /\ g = [k \in DOMAIN g |-> g[k]]
    BY <1>3, <2>1, Zenon
  <2>3. g.nonce = b
    BY <1>3, <2>1, Zenon
  <2>4. g \in Headers
    BY <1>4, <1>5, <2>2, <2>3, Zenon DEF Headers
  <2> QED
    BY <2>2, <2>3, <2>4, Zenon
<1> QED
  BY <1>6, <1>7, <1>8, Zenon DEF d

\* challengeWriter.inject otherwise.
LEMMA InjectKeeps ==
    ASSUME NEW h \in Headers, ~st.isDPoP, NEW code, NEW g \in inject(h, code)
    PROVE  /\ g \in Headers /\ g.challenge = h.challenge
           /\ h.cache = "no-cache" => g.cache = "no-cache"
           /\ Is2xx(code) /\ Rotates => g.nonce
           /\ g.nonce => h.nonce \/ (Is2xx(code) /\ NonceConfigured)
           /\ ~Is2xx(code) => g = h
<1>1. CASE Is2xx(code) /\ NonceConfigured
  <2>1. g \in rotate(h)
    BY <1>1, Zenon DEF inject
  <2> QED
    BY <1>1, <2>1, RotateKeeps, Zenon
<1>2. CASE ~(Is2xx(code) /\ NonceConfigured)
  <2>1. g = h
    BY <1>2, Zenon DEF inject
  <2> QED
    BY <1>2, <2>1, Zenon DEF Rotates
<1> QED
  BY <1>1, <1>2

\* The inductive invariant: until the response is committed only a handler has touched the
\* headers, which have no nonce then, a response that has begun with a final write is
\* committed, and one that has begun otherwise is committed or past injection.
WriterInv ==
    /\ outcome \in {"new", "ok", "invalid_token", "scope"} \cup DPoPCodes
    /\ st \in [isDPoP : BOOLEAN, code : {""} \cup DPoPCodes]
    /\ wroteHeader \in BOOLEAN /\ header \in Headers /\ sent \in Headers /\ status \in Nat
    /\ first \in {"none", "write", "past"}
    /\ st.isDPoP <=> outcome \in DPoPCodes
    /\ st.isDPoP => st.code = outcome
    /\ outcome = "use_dpop_nonce" => NonceConfigured
    /\ status = 0 /\ outcome # "ok" => ~wroteHeader /\ header = NoHeader
    /\ outcome = "new" => status = 0
    /\ outcome = "ok" => header.challenge = ""
    /\ first = "none" => status = 0 /\ ~wroteHeader
    /\ first = "write" => status # 0
    /\ status = 0 => ~header.nonce /\ (~wroteHeader => first = "none")
    /\ ChallengeShaped /\ RotatedBeforeCommit

\* What a call of the handler does: it commits nothing, or it commits the headers.
Keeps ==
    /\ UNCHANGED <<status, sent>>
    /\ first' = "none" => first = "none" /\ ~wroteHeader'
    /\ first' = "write" <=> first = "write"
    /\ status = 0 => ~header'.nonce /\ (~wroteHeader' => first' = "none")

Commits ==
    /\ status = 0 /\ status' \in Nat \ {0} /\ sent' = header' /\ first' # "none"
    /\ first' = "write" /\ Is2xx(status') /\ Rotates => header'.nonce
    /\ header'.nonce => NonceConfigured /\ first' = "write"
    /\ header.cache = "no-cache" => header'.cache = "no-cache"

Handled ==
    /\ outcome = "ok" /\ UNCHANGED <<outcome, st>>
    /\ wroteHeader' \in BOOLEAN /\ header' \in Headers /\ header'.challenge = ""
    /\ first' \in {"none", "write", "past"}
    /\ Keeps \/ Commits

LEMMA OutcomeOK == "ok" \notin DPoPCodes /\ "ok" \notin {"invalid_token", "scope", "new", "use_dpop_nonce"}
  BY DEF DPoPCodes

LEMMA HandledStep ==
    ASSUME WriterInv, Handled
    PROVE  WriterInv'
<1>1. outcome = "ok" /\ outcome' = "ok" /\ st' = st /\ ~st.isDPoP
  BY OutcomeOK, Zenon DEF WriterInv, Handled
<1>2. /\ st' \in [isDPoP : BOOLEAN, code : {""} \cup DPoPCodes]
      /\ wroteHeader' \in BOOLEAN /\ header' \in Headers /\ header'.challenge = ""
      /\ first' \in {"none", "write", "past"}
  BY <1>1, Zenon DEF WriterInv, Handled
<1>3. CASE Keeps
  <2>1. status' = status /\ sent' = sent
    BY <1>3 DEF Keeps
  <2>2. ChallengeShaped'
    BY <1>1, <2>1, Zenon DEF ChallengeShaped, WriterInv
  <2>3. RotatedBeforeCommit'
    BY <1>3, <2>1, Zenon DEF Keeps, WriterInv, RotatedBeforeCommit, Success
  <2>4. status' \in Nat /\ sent' \in Headers
    BY <2>1, Zenon DEF WriterInv
  <2>5. /\ first' = "none" => status' = 0 /\ ~wroteHeader'
        /\ first' = "write" => status' # 0
        /\ status' = 0 => ~header'.nonce /\ (~wroteHeader' => first' = "none")
    BY <1>3, <2>1, Zenon DEF Keeps, WriterInv
  <2> QED
    BY <1>1, <1>2, <2>2, <2>3, <2>4, <2>5, OutcomeOK, Zenon DEF WriterInv
<1>4. CASE Commits
  <2>1. status' \in Nat /\ status' # 0 /\ sent' = header' /\ first' # "none"
    BY <1>4 DEF Commits
  <2>2. ChallengeShaped'
    BY <1>1, <1>2, <2>1, OutcomeOK, Zenon DEF ChallengeShaped
  <2>3. RotatedBeforeCommit'
    BY <1>4, <2>1, Zenon DEF Commits, Rotates, RotatedBeforeCommit, Success
  <2> QED
    BY <1>1, <1>2, <2>1, <2>2, <2>3, OutcomeOK, Zenon DEF WriterInv
<1> QED
  BY <1>3, <1>4, Zenon DEF Handled

LEMMA BeganType ==
    ASSUME WriterInv, NEW how \in {"write", "past"}, Began(how)
    PROVE  /\ first' \in {"none", "write", "past"} /\ first' # "none"
           /\ first # "none" => first' = first
           /\ first = "none" => first' = how
<1>1. first \in {"none", "write", "past"}
  BY Zenon DEF WriterInv
<1> QED
  BY <1>1 DEF Began

\* The handler's WriteHeader, Write and Flush, with what net/http does below.
LEMMA WriteHeaderHandled ==
    ASSUME WriterInv, outcome = "ok", UNCHANGED <<outcome, st>>, NEW code \in Nat, code >= 200,
           WriteHeader(code, header), Began("write")
    PROVE  Handled
<1>1. ~st.isDPoP /\ header \in Headers /\ header.challenge = "" /\ status \in Nat
  BY OutcomeOK, Zenon DEF WriterInv
<1>2. wroteHeader' = TRUE /\ header' \in IF wroteHeader THEN {header} ELSE inject(header, code)
  BY Zenon DEF WriteHeader
<1>3. /\ header' \in Headers /\ header'.challenge = ""
      /\ header.cache = "no-cache" => header'.cache = "no-cache"
      /\ ~wroteHeader /\ Is2xx(code) /\ Rotates => header'.nonce
      /\ header'.nonce => header.nonce \/ (~wroteHeader /\ NonceConfigured)
  <2>1. CASE wroteHeader
    BY <1>1, <1>2, <2>1, Zenon
  <2>2. CASE ~wroteHeader
    <3>1. header' \in inject(header, code)
      BY <1>2, <2>2, Zenon
    <3>2. /\ header' \in Headers /\ header'.challenge = header.challenge
          /\ header.cache = "no-cache" => header'.cache = "no-cache"
          /\ Is2xx(code) /\ Rotates => header'.nonce
          /\ header'.nonce => header.nonce \/ (Is2xx(code) /\ NonceConfigured)
      BY <1>1, <3>1, InjectKeeps, Zenon
    <3> QED
      BY <1>1, <2>2, <3>2, Zenon
  <2> QED
    BY <2>1, <2>2, Zenon
<1>4. first' \in {"none", "write", "past"} /\ first' # "none"
      /\ (first # "none" => first' = first) /\ (first = "none" => first' = "write")
  BY BeganType
<1>5. CASE status = 0
  <2>1. status' = code /\ sent' = header'
    BY <1>5 DEF WriteHeader, Commit
  <2>2. /\ first' = "write" => ~wroteHeader
        /\ header'.nonce => NonceConfigured /\ first' = "write"
    BY <1>3, <1>4, <1>5, Zenon DEF WriterInv
  <2>3. Commits
    <3>1. status' \in Nat \ {0}
      BY <2>1
    <3> QED
      BY <1>3, <1>4, <1>5, <2>1, <2>2, <3>1, Zenon DEF Commits
  <2> QED
    BY <1>2, <1>3, <1>4, <2>3, Zenon DEF Handled
<1>6. CASE status # 0
  <2>1. UNCHANGED <<status, sent>>
    BY <1>6 DEF WriteHeader, Commit
  <2>2. first # "none"
    BY <1>6, Zenon DEF WriterInv
  <2>3. Keeps
    BY <1>4, <1>6, <2>1, <2>2, Zenon DEF Keeps
  <2> QED
    BY <1>2, <1>3, <1>4, <2>3, Zenon DEF Handled
<1> QED
  BY <1>5, <1>6

LEMMA CommitHandled ==
    ASSUME WriterInv, outcome = "ok", UNCHANGED <<outcome, st, wroteHeader, header>>, Commit(200, header),
           \/ Began("past")
           \/ Began("write") /\ wroteHeader
    PROVE  Handled
<1>1. header' \in Headers /\ header'.challenge = "" /\ status \in Nat /\ wroteHeader' \in BOOLEAN
      /\ header' = header
  BY Zenon DEF WriterInv
<1>2. first' \in {"none", "write", "past"} /\ first' # "none" /\ (first # "none" => first' = first)
      /\ (first = "none" => first' = "past")
  <2>1. CASE Began("past")
    BY <2>1, BeganType
  <2>2. CASE Began("write") /\ wroteHeader
    <3>1. first # "none"
      BY <2>2, Zenon DEF WriterInv
    <3>2. first' \in {"none", "write", "past"} /\ first' # "none" /\ (first # "none" => first' = first)
      BY <2>2, BeganType
    <3> QED
      BY <3>1, <3>2, Zenon
  <2> QED
    BY <2>1, <2>2
<1>3. CASE status = 0
  <2>0. 200 >= 200
    OBVIOUS
  <2>1. status' = 200 /\ sent' = header'
    BY <1>1, <1>3, <2>0, Zenon DEF Commit
  <2>2. first' # "write"
    <3>1. first # "write"
      BY <1>3, Zenon DEF WriterInv
    <3> QED
      BY <1>2, <3>1
  <2>3. status' \in Nat \ {0}
    BY <2>1
  <2>4. ~header'.nonce
    BY <1>1, <1>3, Zenon DEF WriterInv
  <2>5. Commits
    BY <1>1, <1>2, <1>3, <2>1, <2>2, <2>3, <2>4, Zenon DEF Commits
  <2> QED
    BY <1>1, <1>2, <2>5, Zenon DEF Handled
<1>4. CASE status # 0
  <2>1. UNCHANGED <<status, sent>>
    BY <1>4 DEF Commit
  <2>2. first # "none"
    BY <1>4, Zenon DEF WriterInv
  <2>3. Keeps
    BY <1>2, <1>4, <2>1, <2>2, Zenon DEF Keeps
  <2> QED
    BY <1>1, <1>2, <2>3, Zenon DEF Handled
<1> QED
  BY <1>3, <1>4

\* The rejections before the handler, and the handler's calls.
LEMMA VerifyStep ==
    ASSUME WriterInv, NEW code \in {"invalid_dpop_proof", "use_dpop_nonce"},
           VerifyDPoP(code) \/ VerifyOK
    PROVE  WriterInv'
<1>1. outcome = "new" /\ status = 0 /\ ~wroteHeader /\ header = NoHeader /\ ~st.isDPoP /\ first \in {"none", "write", "past"}
  <2>1. outcome = "new" /\ "new" # "ok" /\ "new" \notin DPoPCodes
    BY DEF VerifyDPoP, VerifyOK, DPoPCodes
  <2> QED
    BY <2>1, Zenon DEF WriterInv
<1>2. UNCHANGED <<wroteHeader, header, status, sent, first>>
  BY DEF VerifyDPoP, VerifyOK
<1>3. /\ wroteHeader' \in BOOLEAN /\ header' \in Headers /\ sent' \in Headers /\ status' \in Nat
      /\ first' \in {"none", "write", "past"}
      /\ status' = 0 /\ ~wroteHeader' /\ header' = NoHeader
      /\ first' # "write" /\ ~header'.nonce /\ first' = "none"
  BY <1>1, <1>2, Zenon DEF WriterInv
<1>4. ChallengeShaped' /\ RotatedBeforeCommit'
  <2>1. ~Is2xx(0)
    BY DEF Is2xx
  <2> QED
    BY <1>3, <2>1, Zenon DEF ChallengeShaped, RotatedBeforeCommit, Success
<1>5. header'.challenge = ""
  BY <1>3, Zenon DEF NoHeader
<1>6. CASE VerifyOK
  <2>1. outcome' = "ok" /\ st' = st
    BY <1>6 DEF VerifyOK
  <2> QED
    BY <1>1, <1>3, <1>4, <1>5, <2>1, OutcomeOK, Zenon DEF WriterInv
<1>7. CASE VerifyDPoP(code)
  <2>1. /\ outcome' = code /\ code \in DPoPCodes /\ st' = [isDPoP |-> TRUE, code |-> code]
        /\ code # "new" /\ code # "ok" /\ (code = "use_dpop_nonce" => NonceConfigured)
    BY <1>7 DEF VerifyDPoP, DPoPCodes
  <2>2. st'.isDPoP = TRUE /\ st'.code = code /\ st' \in [isDPoP : BOOLEAN, code : {""} \cup DPoPCodes]
    BY <2>1, Zenon
  <2> QED
    BY <1>3, <1>4, <2>1, <2>2, Zenon DEF WriterInv
<1> QED
  BY <1>6, <1>7

LEMMA RejectStep ==
    ASSUME WriterInv, VerifyInvalid \/ VerifyScope \/ RejectDPoP
    PROVE  WriterInv'
<1> DEFINE h == [header EXCEPT !.challenge = "Bearer"]
<1>1. status = 0 /\ outcome # "ok"
  <2>1. outcome = "new" \/ (st.isDPoP /\ status = 0)
    BY Zenon DEF VerifyInvalid, VerifyScope, RejectDPoP
  <2>2. "new" # "ok" /\ (outcome = "new" => status = 0) /\ (st.isDPoP => outcome \in DPoPCodes)
    BY Zenon DEF WriterInv
  <2> QED
    BY <2>1, <2>2, OutcomeOK, Zenon
<1>2. ~wroteHeader /\ header = NoHeader
  BY <1>1, Zenon DEF WriterInv
<1>3. h \in Headers /\ h.challenge = "Bearer" /\ h.nonce = FALSE
  BY <1>2, Zenon DEF Headers, NoHeader
<1>4. Began("write")
  BY Zenon DEF VerifyInvalid, VerifyScope, RejectDPoP
<1>5. first' \in {"none", "write", "past"} /\ first' # "none"
  BY <1>4, BeganType
<1>6. ASSUME NEW code \in {401, 403}, WriteHeader(code, h)
      PROVE  /\ header' \in inject(h, code) /\ status' = code /\ sent' = header' /\ wroteHeader' = TRUE
             /\ status' \in Nat /\ status' # 0 /\ ~Is2xx(status')
  <2>1. code \in Nat /\ code >= 200 /\ code # 0 /\ ~Is2xx(code)
    BY DEF Is2xx
  <2>2. header' \in inject(h, code) /\ wroteHeader' = TRUE /\ Commit(code, header')
    BY <1>2, <1>6, Zenon DEF WriteHeader
  <2>3. status' = code /\ sent' = header'
    BY <1>1, <2>1, <2>2, Zenon DEF Commit
  <2> QED
    BY <2>1, <2>2, <2>3
<1> HIDE DEF h
<1>7. CASE RejectDPoP
  <2>1. st.isDPoP /\ outcome' = outcome /\ st' = st /\ WriteHeader(401, h)
    BY <1>7, Zenon DEF RejectDPoP, h
  <2>2. outcome \in DPoPCodes /\ st.code = outcome /\ (outcome = "use_dpop_nonce" => NonceConfigured)
    BY <2>1, Zenon DEF WriterInv
  <2>3. /\ header' \in inject(h, 401) /\ status' = 401 /\ sent' = header' /\ wroteHeader' = TRUE
        /\ status' \in Nat /\ status' # 0 /\ ~Is2xx(status')
    BY <1>6, <2>1
  <2>4. /\ header' \in Headers /\ header'.challenge = dpopChallenge(outcome) /\ header'.cache = "no-store"
        /\ header'.nonce => outcome = "use_dpop_nonce"
        /\ outcome = "use_dpop_nonce" /\ Rotates => header'.nonce
    <3>1. st.code \in DPoPCodes
      BY <2>2, Zenon
    <3>2. /\ header' \in Headers /\ header'.challenge = dpopChallenge(st.code) /\ header'.cache = "no-store"
          /\ header'.nonce => h.nonce \/ st.code = "use_dpop_nonce"
          /\ st.code = "use_dpop_nonce" /\ Rotates => header'.nonce
      BY <1>3, <2>1, <2>3, <3>1, InjectChallenge
    <3> QED
      BY <1>3, <2>2, <3>2, Zenon
  <2>5. ChallengeShaped' /\ RotatedBeforeCommit'
    BY <2>1, <2>2, <2>3, <2>4, ZenonT(40) DEF ChallengeShaped, RotatedBeforeCommit, Success, Rotates
  <2>6. outcome # "new"
    BY <2>2 DEF DPoPCodes
  <2> QED
    BY <1>1, <1>5, <2>1, <2>2, <2>3, <2>4, <2>5, <2>6, Zenon DEF WriterInv
<1>8. ASSUME NEW o \in {"invalid_token", "scope"}, NEW code \in {401, 403}, outcome = "new",
             outcome' = o, st' = st, WriteHeader(code, h)
      PROVE  WriterInv'
  <2>1. "new" \notin DPoPCodes /\ o \notin DPoPCodes /\ o # "ok" /\ o # "new" /\ o # "use_dpop_nonce"
    BY DEF DPoPCodes
  <2>2. ~st.isDPoP
    BY <1>8, <2>1, Zenon DEF WriterInv
  <2>3. /\ header' \in inject(h, code) /\ status' = code /\ sent' = header' /\ wroteHeader' = TRUE
        /\ status' \in Nat /\ status' # 0 /\ ~Is2xx(status')
    BY <1>6, <1>8, ZenonT(40)
  <2>4. header' = h
    BY <1>3, <2>2, <2>3, InjectKeeps
  <2>5. ChallengeShaped' /\ RotatedBeforeCommit'
    BY <1>3, <1>8, <2>1, <2>2, <2>3, <2>4, Zenon DEF ChallengeShaped, RotatedBeforeCommit, Success
  <2>6. /\ outcome' \in {"new", "ok", "invalid_token", "scope"} \cup DPoPCodes
        /\ st' \in [isDPoP : BOOLEAN, code : {""} \cup DPoPCodes] /\ ~st'.isDPoP
        /\ st'.isDPoP <=> outcome' \in DPoPCodes
        /\ st'.isDPoP => st'.code = outcome'
    BY <1>8, <2>1, <2>2, Zenon DEF WriterInv
  <2>7. header' \in Headers /\ sent' \in Headers /\ wroteHeader' \in BOOLEAN
    BY <1>3, <2>3, <2>4, Zenon
  <2>8. outcome' # "use_dpop_nonce" /\ outcome' # "new" /\ outcome' # "ok"
    BY <1>8, <2>1, Zenon
  <2> QED
    BY <1>5, <2>3, <2>5, <2>6, <2>7, <2>8, Zenon DEF WriterInv
<1>9. CASE VerifyInvalid
  BY <1>8, <1>9, ZenonT(40) DEF VerifyInvalid, h
<1>10. CASE VerifyScope
  BY <1>8, <1>10, ZenonT(40) DEF VerifyScope, h
<1> QED
  BY <1>7, <1>9, <1>10

LEMMA HandlerSteps ==
    ASSUME WriterInv,
           \/ HandlerSets \/ HandlerWrite \/ HandlerInforms \/ HandlerFlush \/ HandlerReturns
           \/ \E code \in Codes : HandlerWriteHeader(code)
    PROVE  Handled
<1>1. outcome = "ok" /\ UNCHANGED <<outcome, st>>
  BY Zenon DEF HandlerSets, HandlerWrite, HandlerInforms, HandlerFlush, HandlerReturns, HandlerWriteHeader, Handler
<1>2. /\ ~st.isDPoP /\ header \in Headers /\ header.challenge = "" /\ wroteHeader \in BOOLEAN
      /\ first \in {"none", "write", "past"}
  BY <1>1, OutcomeOK, Zenon DEF WriterInv
<1>3. CASE HandlerSets
  <2>1. header' = [header EXCEPT !.cache = "no-cache"] /\ UNCHANGED <<wroteHeader, status, sent, first>>
    BY <1>3 DEF HandlerSets
  <2>2. header' \in Headers /\ header'.challenge = "" /\ header'.nonce = header.nonce
    BY <1>2, <2>1, Zenon DEF Headers
  <2>3. Keeps
    BY <2>1, <2>2, Zenon DEF Keeps, WriterInv
  <2> QED
    BY <1>1, <1>2, <2>1, <2>2, <2>3, Zenon DEF Handled
<1>4. CASE HandlerWrite
  <2>1. Write(header) /\ Began("write")
    BY <1>4 DEF HandlerWrite
  <2>2. CASE wroteHeader
    <3>1. header' = header /\ wroteHeader' = wroteHeader /\ Commit(200, header)
      BY <2>1, <2>2, Zenon DEF Write
    <3> QED
      BY <1>1, <2>1, <2>2, <3>1, CommitHandled
  <2>3. CASE ~wroteHeader
    <3>1. WriteHeader(200, header)
      BY <2>1, <2>3, Zenon DEF Write
    <3> QED
      BY <1>1, <2>1, <3>1, WriteHeaderHandled
  <2> QED
    BY <2>2, <2>3
<1>5. CASE HandlerInforms
  <2>1. WriteHeader(103, header) /\ Began("past")
    BY <1>5 DEF HandlerInforms
  <2>2. wroteHeader' = TRUE /\ header' \in (IF wroteHeader THEN {header} ELSE inject(header, 103))
        /\ UNCHANGED <<status, sent>>
    BY <2>1 DEF WriteHeader, Commit
  <2>3. header' = header
    <3>1. CASE wroteHeader
      BY <1>2, <2>2, <3>1, Zenon
    <3>2. CASE ~wroteHeader
      <4>1. header' \in inject(header, 103)
        BY <2>2, <3>2, Zenon
      <4>2. /\ header' \in Headers /\ header'.challenge = header.challenge
            /\ header.cache = "no-cache" => header'.cache = "no-cache"
            /\ Is2xx(103) /\ Rotates => header'.nonce
            /\ header'.nonce => header.nonce \/ (Is2xx(103) /\ NonceConfigured)
            /\ ~Is2xx(103) => header' = header
        BY <1>2, <4>1, InjectKeeps, Zenon
      <4>3. ~Is2xx(103)
        BY DEF Is2xx
      <4> QED
        BY <4>2, <4>3, Zenon
    <3> QED
      BY <3>1, <3>2, Zenon
  <2>4. first' \in {"none", "write", "past"} /\ first' # "none" /\ (first' = "write" <=> first = "write")
    <3>1. "past" \in {"write", "past"} /\ "past" # "write"
      OBVIOUS
    <3> QED
      BY <1>2, <2>1, <3>1, BeganType, Zenon
  <2>5. Keeps
    BY <2>2, <2>3, <2>4, Zenon DEF Keeps, WriterInv
  <2> QED
    BY <1>1, <1>2, <2>2, <2>3, <2>4, <2>5, Zenon DEF Handled
<1>6. CASE HandlerFlush
  BY <1>1, <1>6, CommitHandled DEF HandlerFlush
<1>7. CASE HandlerReturns
  BY <1>1, <1>7, CommitHandled DEF HandlerReturns
<1>8. ASSUME NEW code \in Codes, HandlerWriteHeader(code) PROVE Handled
  <2>1. code \in Nat /\ code >= 200
    BY DEF Codes
  <2> QED
    BY <1>1, <1>8, <2>1, WriteHeaderHandled DEF HandlerWriteHeader
<1> QED
  BY <1>3, <1>4, <1>5, <1>6, <1>7, <1>8

LEMMA WriterInvariant == WriterSpec => []WriterInv
<1>1. WriterInit => WriterInv
  <2> SUFFICES ASSUME WriterInit PROVE WriterInv
    OBVIOUS
  <2>1. NoHeader \in Headers /\ NoHeader.challenge = "" /\ NoHeader.nonce = FALSE /\ ~Is2xx(0) /\ "new" \notin DPoPCodes
        /\ "new" # "use_dpop_nonce" /\ "new" # "ok"
    BY DEF NoHeader, Headers, Is2xx, DPoPCodes
  <2>2. st.isDPoP = FALSE /\ st.code = "" /\ st \in [isDPoP : BOOLEAN, code : {""} \cup DPoPCodes]
    BY Zenon DEF WriterInit
  <2>3. status = 0 /\ status \in Nat /\ first = "none" /\ "none" # "write"
    BY Zenon DEF WriterInit
  <2>4. ChallengeShaped /\ RotatedBeforeCommit
    BY <2>1, <2>3, Zenon DEF ChallengeShaped, RotatedBeforeCommit, Success
  <2> QED
    BY <2>1, <2>2, <2>3, <2>4, Zenon DEF WriterInit, WriterInv
<1>2. WriterInv /\ [WriterNext]_writerVars => WriterInv'
  <2> SUFFICES ASSUME WriterInv, [WriterNext]_writerVars PROVE WriterInv'
    OBVIOUS
  <2>1. CASE UNCHANGED writerVars
    BY <2>1, ZenonT(40) DEF writerVars, WriterInv, ChallengeShaped, RotatedBeforeCommit, Success
  <2> QED
    BY <2>1, VerifyStep, RejectStep, HandlerSteps, HandledStep DEF WriterNext, Done
<1> QED
  BY <1>1, <1>2, PTL DEF WriterSpec

\* challenge.go:5-8: however the handler uses the writer, a response to a DPoP failure is a 401
\* with the challenge for that failure, and no other response is given one.
THEOREM ChallengeShapedHolds == WriterSpec => []ChallengeShaped
<1>1. WriterInv => ChallengeShaped
  BY Zenon DEF WriterInv
<1> QED
  BY <1>1, WriterInvariant, PTL

\* challenge.go:93-110: of the successful responses those that begin with a Write or a final
\* WriteHeader carry a nonce, and those that begin with a 1xx or a Flush or stay empty do
\* not, whatever else the handler does.
THEOREM RotatedBeforeCommitHolds == WriterSpec => []RotatedBeforeCommit
<1>1. WriterInv => RotatedBeforeCommit
  BY Zenon DEF WriterInv
<1> QED
  BY <1>1, WriterInvariant, PTL

\* challenge.go:124-130: rotation keeps the Cache-Control that the handler has set.
THEOREM CacheControlKeptHolds == WriterSpec => CacheControlKept
<1>1. ASSUME WriterInv, [WriterNext]_writerVars, status = 0, status' # 0, header.cache = "no-cache"
      PROVE  sent'.cache = "no-cache"
  <2>1. header # NoHeader
    <3>1. NoHeader.cache # "no-cache"
      BY DEF NoHeader
    <3> QED
      BY <1>1, <3>1, Zenon
  <2>2. outcome = "ok"
    BY <1>1, <2>1, Zenon DEF WriterInv
  <2>3. "ok" # "new"
    OBVIOUS
  <2>4. ~st.isDPoP
    BY <1>1, <2>2, OutcomeOK, Zenon DEF WriterInv
  <2>5. \/ HandlerSets \/ HandlerWrite \/ HandlerInforms \/ HandlerFlush \/ HandlerReturns
        \/ \E code \in Codes : HandlerWriteHeader(code)
    BY <1>1, <2>2, <2>3, <2>4 DEF WriterNext, writerVars, VerifyInvalid, VerifyScope, VerifyOK, RejectDPoP, VerifyDPoP, Done
  <2>6. Handled
    BY <1>1, <2>5, HandlerSteps
  <2> QED
    BY <1>1, <2>6, Zenon DEF Handled, Keeps, Commits
<1>2. WriterInv /\ [WriterNext]_writerVars =>
        [status = 0 /\ status' # 0 /\ header.cache = "no-cache" => sent'.cache = "no-cache"]_writerVars
  BY <1>1, Zenon
<1> QED
  BY <1>2, WriterInvariant, PTL DEF WriterSpec, CacheControlKept

===============================================================================
