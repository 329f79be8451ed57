------------------------ MODULE RedisReplayCacheProofs ------------------------
(***************************************************************************)
(* Single use through a shared Redis, for any number of replicas, requests *)
(* and proofs, every skew and fail mode, and any number of resent, late    *)
(* and lost commands.                                                      *)
(***************************************************************************)
EXTENDS RedisReplayCache, TLAPS

\* A request that waits has sent a command with the TTL of that moment.  A command still on
\* its way has no reply yet, and when its request is decided it was given up.
WaitingSound ==
    \A r \in Requests :
        /\ since[r] <= clock /\ (wire[r] # 0 => tries[r] > 0)
        /\ stage[r] = "waiting" => tries[r] > 0 /\ TTL(r, since[r]) >= Millisecond
        /\ stage[r] = "waiting" /\ wire[r] # 0 => wire[r] = PX(TTL(r, since[r]))
        /\ stage[r] \in {"new", "checked"} => wire[r] = 0 /\ tries[r] = 0
        /\ reply[r] # "none" => stage[r] = "waiting" /\ wire[r] = 0
        /\ stage[r] \in {"new", "checked", "waiting"} => verdict[r] = "none"
        /\ stage[r] \in {"accepted", "rejected"} /\ wire[r] # 0 => verdict[r] = "error"

\* The store answered that the request set the key.
Won(r) == reply[r] = "set" \/ (stage[r] = "accepted" /\ verdict[r] = "store")

\* The request is decided, or can only be decided, after the store vouches for its proof.
Late(r) == (IF stage[r] = "accepted" THEN since[r] ELSE clock) > Guarded(r)

\* A key that was set stays for as long as the store vouches for the proof.
WinsHeld == \A r \in Requests : Won(r) => store[proof[r].key] > Guarded(r) \/ clock > Guarded(r)

OneWinner ==
    \A r, s \in Requests :
        r # s /\ SameProof(r, s) /\ Won(r) /\ Won(s) => Late(r) \/ Late(s)

\* The ways past the store.
AcceptedSound ==
    \A r \in Accepted :
        /\ verdict[r] \in {"store", "unrecorded", "error"}
        /\ verdict[r] = "unrecorded" => since[r] > Guarded(r)
        /\ verdict[r] = "error" => failMode # "FailClosed"

\* Whoever set a key has no first command under way any more, and knows or has given up.
Setter(s) ==
    tries[s] > 0 /\ (tries[s] = 1 => wire[s] = 0 /\ (Won(s) \/ verdict[s] = "error"))

SetterKnown ==
    \A k \in Keys : store[k] # 0 => \E s \in Requests : proof[s].key = k /\ Setter(s)

\* The store answered that the key was there.
Lost(r) == reply[r] = "exists" \/ (stage[r] = "rejected" /\ verdict[r] = "store")

\* The key that beat a request is, or was, in Redis, and another request's if this one has
\* sent its command once.
RejectedByOther ==
    \A r \in Requests : Lost(r) =>
        /\ store[proof[r].key] # 0
        /\ tries[r] = 1 => \E s \in Requests \ {r} : proof[s].key = proof[r].key /\ tries[s] > 0

IInv ==
    TypeOK /\ WaitingSound /\ WinsHeld /\ OneWinner /\ AcceptedSound /\ SetterKnown /\ RejectedByOther

-----------------------------------------------------------------------------
\* A TTL in whole milliseconds is shorter by less than one.
LEMMA PXBound ==
    ASSUME NEW ttl \in Nat
    PROVE  PX(ttl) \in Nat /\ ttl - Millisecond < PX(ttl)
  BY RedisAssumption DEF PX

LEMMA Bounds ==
    ASSUME TypeOK, NEW r \in Requests
    PROVE  /\ proof[r].key \in Keys /\ proof[r].iat \in Nat
           /\ Skew[inst[r]] \in Int /\ -MaxSkew <= Skew[inst[r]] /\ Skew[inst[r]] <= MaxSkew
           /\ Deadline(r) \in Nat /\ Guarded(r) \in Int
           /\ \A t \in Nat : TTL(r, t) \in Int /\ TTL(r, t) = Deadline(r) - (t + Skew[inst[r]])
  BY RedisAssumption DEF TypeOK, Deadline, Guarded, TTL

\* What a step leaves alone: the fail mode, who serves a request, and with which proof.
LEMMA Fixed ==
    ASSUME [Next]_vars
    PROVE  /\ UNCHANGED <<failMode, inst, proof>>
           /\ \A r \in Requests : Guarded(r)' = Guarded(r) /\ \A t : TTL(r, t)' = TTL(r, t)
<1>1. UNCHANGED <<failMode, inst, proof>>
  BY DEF Next, Tick, Step, Terminating, Check, SeenBeforeTooLate, SeenBeforeSend, SeenBeforeAnswer,
         SeenBeforeError, RedisSetNX, RedisLost, RedisRetry, vars
<1> QED
  BY <1>1 DEF Guarded, TTL, Deadline

LEMMA InitIInv == Init => IInv
<1> SUFFICES ASSUME Init PROVE IInv
  OBVIOUS
<1>1. TypeOK
  BY RedisAssumption DEF Init, TypeOK, Stages
<1>2. WaitingSound /\ WinsHeld /\ OneWinner /\ AcceptedSound /\ RejectedByOther
  BY DEF Init, WaitingSound, WinsHeld, OneWinner, AcceptedSound, RejectedByOther, Won, Lost, Accepted
<1>3. SetterKnown
  BY DEF Init, SetterKnown
<1> QED
  BY <1>1, <1>2, <1>3 DEF IInv

LEMMA StepTypeOK ==
    ASSUME IInv, NEW r \in Requests, Step(r)
    PROVE  TypeOK'
<1> USE DEF IInv
<1>1. CASE Check(r)
  BY <1>1 DEF Check, Goto, TypeOK, Stages
<1>2. CASE SeenBeforeTooLate(r)
  BY <1>2 DEF SeenBeforeTooLate, Decide, Goto, TypeOK, Stages
<1>3. CASE SeenBeforeSend(r)
  <2>1. PX(TTL(r, clock)) \in Nat
    BY <1>3, PXBound, Bounds, RedisAssumption DEF SeenBeforeSend, TypeOK
  <2> QED
    BY <1>3, <2>1, RedisAssumption DEF SeenBeforeSend, Goto, TypeOK, Stages
<1>4. CASE SeenBeforeAnswer(r) \/ SeenBeforeError(r)
  <2>1. PICK d \in {"accepted", "rejected"}, why \in {"store", "error"} : Decide(r, d, why)
    BY <1>4 DEF SeenBeforeAnswer, SeenBeforeError
  <2>2. /\ reply' = [reply EXCEPT ![r] = "none"]
        /\ UNCHANGED <<failMode, clock, store, inst, proof, wire, tries>>
    BY <1>4 DEF SeenBeforeAnswer, SeenBeforeError
  <2> QED
    BY <2>1, <2>2 DEF Decide, Goto, TypeOK, Stages
<1>5. CASE RedisSetNX(r)
  <2>1. store' \in [Keys -> Nat]
    <3>1. proof[r].key \in Keys /\ clock + wire[r] \in Nat
      BY Bounds DEF TypeOK
    <3>2. store' = store \/ store' = [store EXCEPT ![proof[r].key] = clock + wire[r]]
      BY <1>5 DEF RedisSetNX
    <3> QED
      BY <3>1, <3>2 DEF TypeOK
  <2>2. reply' \in [Requests -> {"none", "set", "exists"}]
    BY <1>5 DEF RedisSetNX, Back, TypeOK
  <2>3. wire' \in [Requests -> Nat]
    BY <1>5 DEF RedisSetNX, TypeOK
  <2> QED
    BY <1>5, <2>1, <2>2, <2>3 DEF RedisSetNX, TypeOK
<1>6. CASE RedisLost(r)
  BY <1>6 DEF RedisLost, TypeOK
<1>7. CASE RedisRetry(r)
  <2>1. PX(TTL(r, since[r])) \in Nat
    BY <1>7, PXBound, Bounds, RedisAssumption DEF RedisRetry, WaitingSound, TypeOK
  <2>2. tries[r] + 1 \in 0 .. MaxRetries + 1
    BY <1>7, RedisAssumption DEF RedisRetry, TypeOK
  <2> QED
    BY <1>7, <2>1, <2>2 DEF RedisRetry, TypeOK
<1> QED
  BY <1>1, <1>2, <1>3, <1>4, <1>5, <1>6, <1>7 DEF Step

LEMMA StepWaiting ==
    ASSUME IInv, NEW r \in Requests, Step(r)
    PROVE  WaitingSound'
<1> USE DEF IInv
<1>0. \A q \in Requests : \A t : TTL(q, t)' = TTL(q, t)
  BY Fixed DEF Next
<1>1. CASE Check(r)
  BY <1>0, <1>1 DEF Check, Goto, TypeOK, WaitingSound
<1>2. CASE SeenBeforeTooLate(r)
  BY <1>0, <1>2 DEF SeenBeforeTooLate, Decide, Goto, TypeOK, WaitingSound
<1>3. CASE SeenBeforeSend(r)
  BY <1>0, <1>3 DEF SeenBeforeSend, Goto, TypeOK, WaitingSound
<1>4. CASE SeenBeforeAnswer(r) \/ SeenBeforeError(r)
  BY <1>0, <1>4 DEF SeenBeforeAnswer, SeenBeforeError, Decide, Goto, TypeOK, WaitingSound
<1>5. CASE RedisSetNX(r)
  BY <1>0, <1>5 DEF RedisSetNX, Back, TypeOK, WaitingSound
<1>6. CASE RedisLost(r)
  BY <1>0, <1>6 DEF RedisLost, TypeOK, WaitingSound
<1>7. CASE RedisRetry(r)
  BY <1>0, <1>7 DEF RedisRetry, TypeOK, WaitingSound
<1> QED
  BY <1>1, <1>2, <1>3, <1>4, <1>5, <1>6, <1>7 DEF Step

\* A step that sets no key and lets nobody win keeps what was won.
LEMMA QuietKeepsWins ==
    ASSUME IInv, [Next]_vars, TypeOK', UNCHANGED store, clock' \in Nat, clock <= clock',
           \A q \in Requests : Won(q)' => Won(q) /\ (Late(q) => Late(q)')
    PROVE  WinsHeld' /\ OneWinner'
<1>1. WinsHeld'
  <2> SUFFICES ASSUME NEW q \in Requests, Won(q)'
               PROVE  store[proof[q].key] > Guarded(q) \/ clock' > Guarded(q)
    BY Fixed DEF WinsHeld
  <2>1. store[proof[q].key] > Guarded(q) \/ clock > Guarded(q)
    BY DEF IInv, WinsHeld
  <2> QED
    BY <2>1, Bounds DEF IInv, TypeOK
<1>2. OneWinner'
  BY Fixed DEF IInv, OneWinner, SameProof
<1> QED
  BY <1>1, <1>2

\* Redis executes a command.  It sets the key only if no earlier winner's entry is live;
\* then the store no longer vouches for the proof, and the new winner is late.
LEMMA SetKeepsWins ==
    ASSUME IInv, NEW r \in Requests, RedisSetNX(r), TypeOK'
    PROVE  WinsHeld' /\ OneWinner'
<1> DEFINE k == proof[r].key
<1>0. /\ \A q \in Requests : Guarded(q)' = Guarded(q) /\ Guarded(q) \in Int /\ proof[q].key \in Keys
      /\ UNCHANGED <<clock, proof, inst, stage, since, verdict>>
  BY Fixed, Bounds, Zenon DEF RedisSetNX, IInv, Next, Step
<1>1. CASE clock < store[k]
  <2>1. UNCHANGED store /\ \A q \in Requests : Won(q)' => Won(q) /\ (Late(q) => Late(q)')
    BY <1>0, <1>1 DEF RedisSetNX, Back, Won, Late, IInv, TypeOK
  <2> QED
    BY <1>0, <2>1, QuietKeepsWins DEF IInv, TypeOK, Next, Step
<1>2. CASE ~(clock < store[k])
  <2>1. /\ store' = [store EXCEPT ![k] = clock + wire[r]] /\ k \in Keys /\ wire[r] # 0
        /\ Back(r, "set") /\ clock \in Nat /\ wire[r] \in Nat
    BY <1>0, <1>2 DEF RedisSetNX, IInv, TypeOK
  <2>2. \A q \in Requests : Won(q)' => Won(q) \/ (q = r /\ stage[r] = "waiting")
    BY <1>0, <2>1 DEF Back, Won, IInv, TypeOK
  <2>3. \A q \in Requests : Won(q) /\ proof[q].key = k => clock > Guarded(q)
    BY <1>0, <1>2 DEF IInv, WinsHeld, TypeOK
  <2>4. stage[r] = "waiting" => clock + wire[r] > Guarded(r)
    <3> SUFFICES ASSUME stage[r] = "waiting" PROVE clock + wire[r] > Guarded(r)
      OBVIOUS
    <3>1. /\ wire[r] = PX(TTL(r, since[r])) /\ since[r] <= clock /\ since[r] \in Nat
          /\ TTL(r, since[r]) >= Millisecond
      BY <2>1 DEF IInv, WaitingSound, TypeOK
    <3>2. TTL(r, since[r]) = Deadline(r) - (since[r] + Skew[inst[r]])
      BY <3>1, Bounds DEF IInv
    <3>3. TTL(r, since[r]) \in Nat
      BY <3>1, Bounds, RedisAssumption DEF IInv
    <3>4. wire[r] > Deadline(r) - (since[r] + Skew[inst[r]]) - Millisecond
      BY <3>1, <3>2, <3>3, PXBound
    <3> QED
      BY <2>1, <3>1, <3>4, Bounds, RedisAssumption DEF IInv, Guarded
  <2>5. WinsHeld'
    <3> SUFFICES ASSUME NEW q \in Requests, Won(q)'
                 PROVE  store'[proof[q].key] > Guarded(q) \/ clock > Guarded(q)
      BY <1>0 DEF WinsHeld
    <3>1. CASE q = r /\ stage[r] = "waiting"
      BY <2>1, <2>4, <3>1 DEF IInv, TypeOK
    <3>2. CASE Won(q) /\ proof[q].key = k
      BY <2>3, <3>2
    <3>3. CASE Won(q) /\ proof[q].key # k
      BY <1>0, <2>1, <3>3 DEF IInv, WinsHeld, TypeOK
    <3> QED
      BY <2>2, <3>1, <3>2, <3>3
  <2>6. OneWinner'
    <3> SUFFICES ASSUME NEW q \in Requests, NEW s \in Requests, q # s, proof[q] = proof[s],
                        Won(q)', Won(s)'
                 PROVE  Late(q)' \/ Late(s)'
      BY <1>0 DEF OneWinner, SameProof
    <3>1. Guarded(q) = Guarded(s) /\ proof[q].key = proof[s].key
      BY DEF Guarded, Deadline
    <3>2. CASE Won(q) /\ Won(s)
      BY <1>0, <3>2 DEF IInv, OneWinner, SameProof, Late
    <3>3. CASE q = r /\ stage[r] = "waiting" /\ Won(s)
      BY <1>0, <2>3, <3>1, <3>3 DEF Late
    <3>4. CASE s = r /\ stage[r] = "waiting" /\ Won(q)
      BY <1>0, <2>3, <3>1, <3>4 DEF Late
    <3> QED
      BY <2>2, <3>2, <3>3, <3>4
  <2> QED
    BY <2>5, <2>6
<1> QED
  BY <1>1, <1>2

LEMMA StepWins ==
    ASSUME IInv, NEW r \in Requests, Step(r), TypeOK'
    PROVE  WinsHeld' /\ OneWinner'
<1>1. CASE RedisSetNX(r)
  BY <1>1, SetKeepsWins
<1>2. CASE ~RedisSetNX(r)
  <2>1. UNCHANGED <<store, clock>>
    BY <1>2, Zenon DEF Step, Check, SeenBeforeTooLate, SeenBeforeSend, SeenBeforeAnswer,
                SeenBeforeError, RedisLost, RedisRetry
  <2>2. ASSUME NEW q \in Requests, Won(q)' PROVE Won(q) /\ (Late(q) => Late(q)')
    <3>0. Guarded(q)' = Guarded(q)
      BY Fixed DEF Next
    <3> USE DEF IInv, TypeOK
    <3>1. CASE Check(r)
      BY <2>1, <2>2, <3>0, <3>1 DEF Check, Goto, Won, Late, WaitingSound
    <3>2. CASE SeenBeforeTooLate(r)
      BY <2>1, <2>2, <3>0, <3>2 DEF SeenBeforeTooLate, Decide, Goto, Won, Late, WaitingSound
    <3>3. CASE SeenBeforeSend(r)
      BY <2>1, <2>2, <3>0, <3>3 DEF SeenBeforeSend, Goto, Won, Late, WaitingSound
    <3>4. CASE SeenBeforeAnswer(r)
      BY <2>1, <2>2, <3>0, <3>4 DEF SeenBeforeAnswer, Decide, Goto, Won, Late, WaitingSound
    <3>5. CASE SeenBeforeError(r)
      BY <2>1, <2>2, <3>0, <3>5 DEF SeenBeforeError, Decide, Goto, Won, Late, WaitingSound
    <3>6. CASE RedisLost(r) \/ RedisRetry(r)
      BY <2>1, <2>2, <3>0, <3>6 DEF RedisLost, RedisRetry, Won, Late
    <3> QED
      BY <1>2, <3>1, <3>2, <3>3, <3>4, <3>5, <3>6 DEF Step
  <2> QED
    BY <2>1, <2>2, QuietKeepsWins DEF Next, IInv, TypeOK
<1> QED
  BY <1>1, <1>2

LEMMA StepAccepted ==
    ASSUME IInv, NEW r \in Requests, Step(r), TypeOK'
    PROVE  AcceptedSound'
<1> USE DEF IInv
<1>0. /\ \A q \in Requests : Guarded(q)' = Guarded(q)
      /\ UNCHANGED failMode
  BY Fixed DEF Next
<1>1. CASE SeenBeforeTooLate(r)
  <2>1. clock > Guarded(r)
    BY <1>1, Bounds, RedisAssumption DEF SeenBeforeTooLate, Guarded, TypeOK
  <2> QED
    BY <1>0, <1>1, <2>1 DEF SeenBeforeTooLate, Decide, Goto, AcceptedSound, Accepted, TypeOK
<1>2. CASE SeenBeforeAnswer(r)
  BY <1>0, <1>2 DEF SeenBeforeAnswer, Decide, Goto, AcceptedSound, Accepted, TypeOK
<1>3. CASE SeenBeforeError(r)
  BY <1>0, <1>3 DEF SeenBeforeError, Decide, Goto, AcceptedSound, Accepted, TypeOK
<1>4. CASE Check(r) \/ SeenBeforeSend(r)
  BY <1>0, <1>4 DEF Check, SeenBeforeSend, Goto, AcceptedSound, Accepted, TypeOK
<1>5. CASE RedisSetNX(r) \/ RedisLost(r) \/ RedisRetry(r)
  <2>1. UNCHANGED <<stage, since, verdict>>
    BY <1>5, Zenon DEF RedisSetNX, RedisLost, RedisRetry
  <2> QED
    BY <1>0, <2>1 DEF AcceptedSound, Accepted
<1> QED
  BY <1>1, <1>2, <1>3, <1>4, <1>5 DEF Step

LEMMA StepSetter ==
    ASSUME IInv, NEW r \in Requests, Step(r), TypeOK'
    PROVE  SetterKnown'
<1> USE DEF IInv
<1>0. UNCHANGED proof
  BY Fixed DEF Next
<1>1. ASSUME NEW s \in Requests, Setter(s) PROVE Setter(s)'
  <2>1. CASE s # r
    <3>1. tries'[s] = tries[s] /\ wire'[s] = wire[s] /\ reply'[s] = reply[s]
      BY <2>1 DEF Step, Check, SeenBeforeTooLate, SeenBeforeSend, SeenBeforeAnswer, SeenBeforeError,
                  RedisSetNX, RedisLost, RedisRetry, Back, TypeOK
    <3>2. stage'[s] = stage[s] /\ verdict'[s] = verdict[s]
      BY <2>1 DEF Step, Check, SeenBeforeTooLate, SeenBeforeSend, SeenBeforeAnswer, SeenBeforeError,
                  RedisSetNX, RedisLost, RedisRetry, Goto, Decide, TypeOK
    <3> QED
      BY <1>1, <3>1, <3>2, Zenon DEF Setter, Won
  <2>2. CASE s = r /\ (Check(r) \/ SeenBeforeTooLate(r) \/ SeenBeforeSend(r))
    BY <1>1, <2>2 DEF Setter, Check, SeenBeforeTooLate, SeenBeforeSend, WaitingSound, TypeOK
  <2>3. CASE s = r /\ SeenBeforeAnswer(r)
    BY <1>1, <2>3 DEF Setter, Won, SeenBeforeAnswer, Decide, Goto, WaitingSound, TypeOK
  <2>4. CASE s = r /\ SeenBeforeError(r)
    BY <1>1, <2>4 DEF Setter, SeenBeforeError, Decide, Goto, TypeOK
  <2>5. CASE s = r /\ (RedisSetNX(r) \/ RedisLost(r))
    <3>1. tries'[r] = tries[r] /\ tries[r] > 0 /\ tries[r] # 1
      BY <1>1, <2>5 DEF Setter, RedisSetNX, RedisLost, WaitingSound, TypeOK
    <3> QED
      BY <2>5, <3>1 DEF Setter
  <2>6. CASE s = r /\ RedisRetry(r)
    <3>1. tries'[r] = tries[r] + 1 /\ tries[r] > 0 /\ tries[r] \in Nat
      BY <1>1, <2>6, SMTT(30) DEF Setter, RedisRetry, TypeOK
    <3> QED
      BY <2>6, <3>1 DEF Setter
  <2> QED
    BY <2>1, <2>2, <2>3, <2>4, <2>5, <2>6, Zenon DEF Step
<1>2. \A k \in Keys : store'[k] # 0 => store[k] # 0 \/ (k = proof[r].key /\ Setter(r)')
  <2>1. CASE RedisSetNX(r) /\ ~(clock < store[proof[r].key])
    <3>1. store' = [store EXCEPT ![proof[r].key] = clock + wire[r]] /\ Back(r, "set")
          /\ wire[r] # 0 /\ wire' = [wire EXCEPT ![r] = 0] /\ UNCHANGED <<stage, tries, verdict>>
      BY <2>1 DEF RedisSetNX
    <3>2. CASE stage[r] = "waiting"
      <4>1. reply'[r] = "set"
        BY <3>1, <3>2 DEF Back, TypeOK
      <4> QED
        BY <3>1, <4>1, SMTT(30) DEF Setter, Won, WaitingSound, TypeOK
    <3>3. CASE stage[r] # "waiting"
      <4>1. verdict[r] = "error" /\ tries[r] > 0
        BY <3>1, <3>3 DEF WaitingSound, TypeOK, Stages
      <4> QED
        BY <3>1, <4>1 DEF Setter, TypeOK
    <3> QED
      BY <3>2, <3>3
  <2>2. CASE RedisSetNX(r) /\ clock < store[proof[r].key]
    BY <2>2 DEF RedisSetNX
  <2>3. CASE ~RedisSetNX(r)
    BY <2>3, Zenon DEF Step, Check, SeenBeforeTooLate, SeenBeforeSend, SeenBeforeAnswer,
                SeenBeforeError, RedisLost, RedisRetry
  <2> QED
    BY <2>1, <2>2, <2>3, Zenon
<1> QED
  BY <1>0, <1>1, <1>2, Zenon DEF SetterKnown

LEMMA StepRejected ==
    ASSUME IInv, NEW r \in Requests, Step(r), TypeOK'
    PROVE  RejectedByOther'
<1> USE DEF IInv
<1> DEFINE Other(q) == \E s \in Requests \ {q} : proof[s].key = proof[q].key /\ tries[s] > 0
<1>0. UNCHANGED proof
  BY Fixed DEF Next
<1>1. \A s \in Requests : tries[s] > 0 => tries'[s] > 0
  BY SMTT(30) DEF Step, Check, SeenBeforeTooLate, SeenBeforeSend, SeenBeforeAnswer, SeenBeforeError,
         RedisSetNX, RedisLost, RedisRetry, TypeOK
<1>2. \A q \in Requests : Other(q) => Other(q)'
  BY <1>0, <1>1, Zenon
<1>3. \A k \in Keys : store[k] # 0 => store'[k] # 0
  <2>1. CASE RedisSetNX(r)
    <3>1. store' = store \/ store' = [store EXCEPT ![proof[r].key] = clock + wire[r]]
      BY <2>1 DEF RedisSetNX
    <3>2. clock + wire[r] # 0
      BY <2>1 DEF RedisSetNX, TypeOK
    <3> QED
      BY <3>1, <3>2 DEF TypeOK
  <2>2. CASE ~RedisSetNX(r)
    BY <2>2, Zenon DEF Step, Check, SeenBeforeTooLate, SeenBeforeSend, SeenBeforeAnswer,
                SeenBeforeError, RedisLost, RedisRetry
  <2> QED
    BY <2>1, <2>2
<1>4. ASSUME NEW q \in Requests, Lost(q)'
      PROVE  /\ store[proof[q].key] # 0
             /\ tries'[q] = 1 => (Lost(q) /\ tries[q] = 1) \/ Other(q)
  <2>1. CASE RedisSetNX(r)
    <3>1. CASE q # r \/ Lost(r)
      <4>1. Lost(q) /\ tries'[q] = tries[q]
        BY <1>4, <2>1, <3>1 DEF Lost, RedisSetNX, Back, TypeOK
      <4> QED
        BY <4>1, Zenon DEF RejectedByOther
    <3>2. CASE q = r /\ ~Lost(r)
      <4>1. tries' = tries /\ wire[r] # 0 /\ store[proof[r].key] # 0
        BY <1>4, <2>1, <3>2 DEF Lost, RedisSetNX, Back, TypeOK
      <4>2. PICK s \in Requests : /\ proof[s].key = proof[r].key /\ tries[s] > 0
                                  /\ tries[s] = 1 => wire[s] = 0
        BY <4>1, Bounds, Zenon DEF SetterKnown, Setter
      <4> QED
        BY <3>2, <4>1, <4>2
    <3> QED
      BY <3>1, <3>2, SMTT(30)
  <2>2. CASE Check(r) \/ SeenBeforeTooLate(r) \/ SeenBeforeError(r)
    <3>1. Lost(q) /\ tries' = tries
      BY <1>4, <2>2 DEF Lost, Check, SeenBeforeTooLate, SeenBeforeError, Decide, Goto, TypeOK, WaitingSound
    <3> QED
      BY <3>1, Zenon DEF RejectedByOther
  <2>3. CASE SeenBeforeAnswer(r)
    <3>1. Lost(q) /\ tries' = tries
      BY <1>4, <2>3 DEF Lost, SeenBeforeAnswer, Decide, Goto, TypeOK, WaitingSound
    <3> QED
      BY <3>1, Zenon DEF RejectedByOther
  <2>4. CASE SeenBeforeSend(r)
    <3>1. Lost(q) /\ q # r /\ tries'[q] = tries[q]
      BY <1>4, <2>4 DEF Lost, SeenBeforeSend, Goto, TypeOK, WaitingSound
    <3> QED
      BY <3>1, Zenon DEF RejectedByOther
  <2>5. CASE RedisLost(r) \/ RedisRetry(r)
    <3>1. Lost(q) /\ tries'[q] = tries[q]
      BY <1>4, <2>5 DEF Lost, RedisLost, RedisRetry, TypeOK, WaitingSound
    <3> QED
      BY <3>1, Zenon DEF RejectedByOther
  <2> QED
    BY <2>1, <2>2, <2>3, <2>4, <2>5, Zenon DEF Step
<1>5. ASSUME NEW q \in Requests, Lost(q)'
      PROVE  store'[proof[q].key] # 0 /\ (tries'[q] = 1 => Other(q)')
  <2>1. store'[proof[q].key] # 0
    BY <1>3, <1>4, <1>5, Bounds, Zenon
  <2>2. tries'[q] = 1 => Other(q)
    BY <1>4, <1>5, Zenon DEF RejectedByOther
  <2> QED
    BY <1>2, <2>1, <2>2, Zenon
<1> QED
  BY <1>0, <1>5, Zenon DEF RejectedByOther

LEMMA TickKeepsIInv ==
    ASSUME IInv, Tick
    PROVE  IInv'
<1> USE DEF IInv
<1>0. /\ \A q \in Requests : /\ Guarded(q)' = Guarded(q) /\ Guarded(q) \in Int
                              /\ \A t : TTL(q, t)' = TTL(q, t)
      /\ clock \in Nat /\ clock' = clock + 1
      /\ UNCHANGED <<failMode, store, inst, proof, stage, since, wire, tries, reply, verdict>>
  BY Fixed, Bounds DEF Next, Tick, TypeOK
<1>1. TypeOK'
  BY <1>0 DEF TypeOK
<1>2. WaitingSound'
  BY <1>0 DEF WaitingSound, TypeOK
<1>3. WinsHeld' /\ OneWinner'
  <2>1. ASSUME NEW q \in Requests, Won(q)' PROVE Won(q) /\ (Late(q) => Late(q)')
    <3>1. Won(q)
      BY <1>0, <2>1, Zenon DEF Won
    <3>2. CASE stage[q] = "accepted"
      BY <1>0, <3>1, <3>2, Zenon DEF Late
    <3>3. CASE stage[q] # "accepted"
      <4>1. (Late(q) <=> clock > Guarded(q)) /\ (Late(q)' <=> clock' > Guarded(q))
        BY <1>0, <3>3, Zenon DEF Late
      <4>2. clock > Guarded(q) => clock' > Guarded(q)
        BY <1>0
      <4> QED
        BY <3>1, <4>1, <4>2, Zenon
    <3> QED
      BY <3>2, <3>3, Zenon
  <2> QED
    BY <1>0, <1>1, <2>1, QuietKeepsWins DEF Next
<1>4. AcceptedSound' /\ SetterKnown' /\ RejectedByOther'
  BY <1>0, ZenonT(40) DEF AcceptedSound, SetterKnown, RejectedByOther, Accepted, Setter, Won, Lost
<1> QED
  BY <1>1, <1>2, <1>3, <1>4

LEMMA StepKeepsIInv == IInv /\ [Next]_vars => IInv'
<1> SUFFICES ASSUME IInv, [Next]_vars PROVE IInv'
  OBVIOUS
<1>1. ASSUME NEW r \in Requests, Step(r) PROVE IInv'
  BY <1>1, StepTypeOK, StepWaiting, StepWins, StepAccepted, StepSetter, StepRejected DEF IInv
<1>2. CASE UNCHANGED vars
  <2> USE <1>2 DEF vars, IInv
  <2>1. TypeOK' /\ WaitingSound'
    BY Zenon DEF TypeOK, WaitingSound, TTL, Deadline
  <2>2. WinsHeld' /\ OneWinner'
    BY Zenon DEF WinsHeld, OneWinner, Won, Late, Guarded, Deadline, SameProof
  <2>3. AcceptedSound' /\ SetterKnown' /\ RejectedByOther'
    BY DEF AcceptedSound, SetterKnown, RejectedByOther, Accepted, Setter, Won, Lost, Guarded, Deadline,
           SameProof
  <2> QED
    BY <2>1, <2>2, <2>3
<1> QED
  BY <1>1, <1>2, TickKeepsIInv DEF Next, Terminating

\* The inductive invariant holds in every reachable state.
THEOREM Invariance == Spec => []IInv
  BY InitIInv, StepKeepsIInv, PTL DEF Spec

\* The state keeps its types; a command is sent at most MaxRetries + 1 times.
THEOREM TypesHold == Spec => []TypeOK
<1>1. IInv => TypeOK
  BY DEF IInv
<1> QED
  BY <1>1, Invariance, PTL

\* cache.go:117-137 with FailClosed: for any number of replicas and requests, of two
\* accepted requests with the same proof one was decided in the last millisecond, or
\* within the skew, of the freshness window.
THEOREM SharedSingleUseHolds == Spec => []SharedSingleUse
<1>1. ASSUME IInv PROVE SharedSingleUse
  <2> SUFFICES ASSUME failMode = "FailClosed", NEW r \in Accepted, NEW s \in Accepted,
                      r # s, SameProof(r, s)
               PROVE  since[r] > Guarded(r) \/ since[s] > Guarded(s)
    BY DEF SharedSingleUse
  <2>1. \A q \in {r, s} : q \in Requests /\ stage[q] = "accepted"
                           /\ (verdict[q] = "store" \/ since[q] > Guarded(q))
    BY <1>1 DEF IInv, AcceptedSound, Accepted
  <2> QED
    BY <1>1, <2>1, Zenon DEF IInv, OneWinner, Won, Late
<1> QED
  BY <1>1, Invariance, PTL

\* cache.go:119-121, 134-136: a proof that was accepted on the store's word has its key in
\* Redis for as long as the store vouches for it.
THEOREM StoreHoldsAcceptedHolds == Spec => []StoreHoldsAccepted
<1>1. ASSUME IInv PROVE StoreHoldsAccepted
  <2> SUFFICES ASSUME NEW r \in Accepted, verdict[r] = "store", clock <= Guarded(r)
               PROVE  clock < store[proof[r].key]
    BY DEF StoreHoldsAccepted
  <2>1. r \in Requests /\ Won(r)
    BY DEF Won, Accepted
  <2>2. store[proof[r].key] > Guarded(r) \/ clock > Guarded(r)
    BY <1>1, <2>1 DEF IInv, WinsHeld
  <2> DEFINE g == Guarded(r)
             s == store[proof[r].key]
  <2>3. g \in Int /\ clock \in Int /\ s \in Int /\ clock <= g /\ (s > g \/ clock > g)
    BY <1>1, <2>1, <2>2, Bounds DEF IInv, TypeOK
  <2> HIDE DEF g, s
  <2>4. clock < s
    BY <2>3
  <2> QED
    BY <2>4, SMTT(30) DEF s
<1> QED
  BY <1>1, Invariance, PTL

\* doc.go:26-28: where the store alone decided every presentation of a proof, in time and
\* without a resent command, exactly one was accepted.  Two winners would be late, and
\* without a winner nobody set the key that the losers found.
THEOREM ExactlyOneFirstSightHolds == Spec => []ExactlyOneFirstSight
<1>1. ASSUME IInv PROVE ExactlyOneFirstSight
  <2> SUFFICES ASSUME NEW p \in Proofs,
                      NEW P, P = {s \in Requests : proof[s].key = p.key}, P # {},
                      \A s \in P : /\ proof[s] = p /\ verdict[s] = "store"
                                  /\ tries[s] = 1 /\ since[s] <= Guarded(s)
               PROVE  \E s \in P : P \cap Accepted = {s}
    BY Zenon DEF ExactlyOneFirstSight
  <2>1. \A s \in P : s \in Requests /\ stage[s] \in {"accepted", "rejected"} /\ reply[s] = "none"
    <3>1. \A s \in Requests : /\ stage[s] \in Stages
                              /\ stage[s] \in {"new", "checked", "waiting"} => verdict[s] = "none"
                              /\ reply[s] # "none" => stage[s] = "waiting"
      BY <1>1, Zenon DEF IInv, WaitingSound, TypeOK
    <3> QED
      BY <3>1, Zenon DEF Stages
  <2>2. \A s \in P : Won(s) <=> s \in Accepted
    BY <2>1, Zenon DEF Won, Accepted
  <2>3. \E s \in P : s \in Accepted
    <3> SUFFICES ASSUME NEW q \in P, q \notin Accepted PROVE \E s \in P : Won(s)
      BY <2>2
    <3>1. Lost(q)
      BY <2>1 DEF Lost, Accepted
    <3>2. store[p.key] # 0 /\ p.key \in Keys
      BY <1>1, <2>1, <3>1, Bounds DEF IInv, RejectedByOther
    <3>3. PICK s \in Requests : proof[s].key = p.key /\ Setter(s)
      BY <1>1, <3>2, Zenon DEF IInv, SetterKnown
    <3> QED
      BY <3>3, Zenon DEF Setter
  <2>4. ASSUME NEW r \in P \cap Accepted, NEW s \in P \cap Accepted, r # s PROVE FALSE
    <3>1. Late(r) \/ Late(s)
      <4>1. r \in Requests /\ s \in Requests /\ Won(r) /\ Won(s) /\ SameProof(r, s)
        BY <2>1, <2>2, <2>4, Zenon DEF SameProof
      <4> QED
        BY <1>1, <2>4, <4>1, Zenon DEF IInv, OneWinner
    <3>2. TypeOK
      BY <1>1 DEF IInv
    <3>3. since[r] \in Int /\ since[s] \in Int /\ Guarded(r) \in Int /\ Guarded(s) \in Int
      BY <2>1, <3>2, Bounds DEF TypeOK
    <3> QED
      BY <3>1, <3>3 DEF Late, Accepted
  <2> QED
    BY <2>3, <2>4
<1> QED
  BY <1>1, Invariance, PTL

\* cache.go:114-115: a request that the store rejects on its only command has lost to
\* another request with the same pair, however commands are lost or delayed.
THEOREM NoFalseReplayHolds == Spec => []NoFalseReplay
<1>1. IInv => NoFalseReplay
  BY Zenon DEF IInv, RejectedByOther, Lost, NoFalseReplay
<1> QED
  BY <1>1, Invariance, PTL

===============================================================================
