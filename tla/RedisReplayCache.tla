--------------------------- MODULE RedisReplayCache ---------------------------
(***************************************************************************)
(* dpop/redisreplay: SeenBefore over a Redis shared by several replicas.   *)
(*                                                                         *)
(* A call computes a TTL from its replica's clock and sends SET NX.  The   *)
(* command and its reply travel: the server may execute it late, after the *)
(* client has given up on it, or never, and a reply may be lost.  A client *)
(* error of any kind is resolved by FailMode.  Redis counts a TTL down on  *)
(* its own clock, and replica clocks differ from it by Skew.               *)
(***************************************************************************)
EXTENDS Integers

CONSTANTS
    Requests,    \* request ids; each makes one SeenBefore call
    Instances,   \* replicas of the resource server
    Keys,        \* the (jti, htu) pairs
    Proofs,      \* the proofs presented: [key, iat]
    Skew,        \* per replica, how far its clock is ahead of Redis's
    MaxSkew,     \* bound on the magnitude of Skew
    IATLeeway,   \* dpop.Config.IATLeeway, in ticks
    Millisecond, \* one millisecond, in ticks
    FailModes,   \* the fail modes considered: "FailOpen", "FailClosed"
    MaxRetries,  \* the Redis client's retries of one command (caller-configured)
    MaxDelay,    \* how long checkProof may take from v.now() to SeenBefore
    OpTimeout,   \* Config.OpTimeout, in ticks
    MaxTime      \* bound on Redis's clock

ASSUME RedisAssumption ==
    /\ Proofs \subseteq [key : Keys, iat : Nat \ {0}]
    /\ MaxSkew \in Nat
    /\ Skew \in [Instances -> -MaxSkew .. MaxSkew]
    /\ IATLeeway \in Nat \ {0}
    /\ Millisecond \in Nat \ {0}
    /\ FailModes \subseteq {"FailOpen", "FailClosed"}
    /\ MaxRetries \in Nat
    /\ MaxDelay \in Nat /\ OpTimeout \in Nat /\ MaxTime \in Nat

VARIABLES
    failMode, \* Config.FailMode, the same on every replica
    clock,    \* Redis's clock
    store,    \* per pair the time its key expires in Redis, 0 when never set
    inst,     \* the replica that serves a request
    proof,    \* the proof a request presents
    stage,    \* where the request is
    since,    \* when the request entered its stage
    wire,     \* the TTL of the request's command on its way to Redis, 0 when none is
    tries,    \* how often the command has been sent
    reply,    \* the server's reply on its way back: "none", "set" or "exists"
    verdict   \* what decided the request: "none", "store", "unrecorded" or "error"

vars == <<failMode, clock, store, inst, proof, stage, since, wire, tries, reply, verdict>>

Stages == {"new", "checked", "waiting", "accepted", "rejected"}

Now(r)      == clock + Skew[inst[r]]
Deadline(r) == proof[r].iat + IATLeeway
TTL(r, t)   == Deadline(r) - (t + Skew[inst[r]])   \* exp.Sub(now) at Redis time t

\* The Redis client sends a TTL in whole milliseconds.
PX(ttl) == (ttl \div Millisecond) * Millisecond

Init ==
    /\ failMode \in FailModes
    /\ clock = 0
    /\ store = [k \in Keys |-> 0]
    /\ inst \in [Requests -> Instances]
    /\ proof \in [Requests -> Proofs]
    /\ stage = [r \in Requests |-> "new"]
    /\ since = [r \in Requests |-> 0]
    /\ wire = [r \in Requests |-> 0]
    /\ tries = [r \in Requests |-> 0]
    /\ reply = [r \in Requests |-> "none"]
    /\ verdict = [r \in Requests |-> "none"]

\* Time passes, within the bounds on a call's stages.
Tick ==
    /\ clock < MaxTime
    /\ \A r \in Requests :
         /\ stage[r] = "checked" => clock - since[r] < MaxDelay
         /\ stage[r] = "waiting" => clock - since[r] < OpTimeout
    /\ clock' = clock + 1
    /\ UNCHANGED <<failMode, store, inst, proof, stage, since, wire, tries, reply, verdict>>

Goto(r, s) ==
    /\ stage' = [stage EXCEPT ![r] = s]
    /\ since' = [since EXCEPT ![r] = clock]

Decide(r, s, why) ==
    /\ Goto(r, s)
    /\ verdict' = [verdict EXCEPT ![r] = why]

-----------------------------------------------------------------------------
\* checkProof's freshness check, on the replica's clock; the caller of SeenBefore.
Check(r) ==
    /\ stage[r] = "new"
    /\ Goto(r, IF /\ Now(r) - IATLeeway <= proof[r].iat
                  /\ proof[r].iat <= Now(r) + IATLeeway
               THEN "checked" ELSE "rejected")
    /\ UNCHANGED <<failMode, clock, store, inst, proof, wire, tries, reply, verdict>>

\* Less than a millisecond to live: not a replay, and nothing is recorded.
SeenBeforeTooLate(r) ==
    /\ stage[r] = "checked"
    /\ TTL(r, clock) < Millisecond
    /\ Decide(r, "accepted", "unrecorded")
    /\ UNCHANGED <<failMode, clock, store, inst, proof, wire, tries, reply>>

\* Faulty variant: every key gets a fixed TTL.
SeenBeforeSendFixedTTL(r) ==
    /\ stage[r] = "checked"
    /\ TTL(r, clock) >= Millisecond
    /\ Goto(r, "waiting")
    /\ wire' = [wire EXCEPT ![r] = Millisecond]
    /\ tries' = [tries EXCEPT ![r] = 1]
    /\ UNCHANGED <<failMode, clock, store, inst, proof, reply, verdict>>

\* SET key NX PX ttl goes out.
SeenBeforeSend(r) ==
    /\ stage[r] = "checked"
    /\ TTL(r, clock) >= Millisecond
    /\ Goto(r, "waiting")
    /\ wire' = [wire EXCEPT ![r] = PX(TTL(r, clock))]
    /\ tries' = [tries EXCEPT ![r] = 1]
    /\ UNCHANGED <<failMode, clock, store, inst, proof, reply, verdict>>

\* Faulty variant: the set result is returned as it is.
SeenBeforeAnswerInverted(r) ==
    /\ stage[r] = "waiting"
    /\ reply[r] # "none"
    /\ Decide(r, IF reply[r] = "set" THEN "rejected" ELSE "accepted", "store")
    /\ reply' = [reply EXCEPT ![r] = "none"]
    /\ UNCHANGED <<failMode, clock, store, inst, proof, wire, tries>>

\* The reply is read: set means first sight, not set means a replay.
SeenBeforeAnswer(r) ==
    /\ stage[r] = "waiting"
    /\ reply[r] # "none"
    /\ Decide(r, IF reply[r] = "set" THEN "accepted" ELSE "rejected", "store")
    /\ reply' = [reply EXCEPT ![r] = "none"]
    /\ UNCHANGED <<failMode, clock, store, inst, proof, wire, tries>>

\* Faulty variant: on an error the zero value of the result is used.
SeenBeforeErrorUnset(r) ==
    /\ stage[r] = "waiting"
    /\ Decide(r, "accepted", "error")
    /\ reply' = [reply EXCEPT ![r] = "none"]
    /\ UNCHANGED <<failMode, clock, store, inst, proof, wire, tries>>

\* Timeout, refused connection, lost reply: the FailMode decides.  The command may
\* still be on its way.
SeenBeforeError(r) ==
    /\ stage[r] = "waiting"
    /\ Decide(r, IF failMode = "FailClosed" THEN "rejected" ELSE "accepted", "error")
    /\ reply' = [reply EXCEPT ![r] = "none"]
    /\ UNCHANGED <<failMode, clock, store, inst, proof, wire, tries>>

Back(r, x) == reply' = IF stage[r] = "waiting" THEN [reply EXCEPT ![r] = x] ELSE reply

\* Faulty variant: SET without NX.
RedisSetAlways(r) ==
    /\ wire[r] # 0
    /\ store' = [store EXCEPT ![proof[r].key] = clock + wire[r]]
    /\ Back(r, "set")
    /\ wire' = [wire EXCEPT ![r] = 0]
    /\ UNCHANGED <<failMode, clock, inst, proof, stage, since, tries, verdict>>

\* Redis executes SET NX: the check and the set are one step.
RedisSetNX(r) ==
    /\ wire[r] # 0
    /\ LET k == proof[r].key IN
       IF clock < store[k]
       THEN /\ Back(r, "exists")
            /\ UNCHANGED store
       ELSE /\ Back(r, "set")
            /\ store' = [store EXCEPT ![k] = clock + wire[r]]
    /\ wire' = [wire EXCEPT ![r] = 0]
    /\ UNCHANGED <<failMode, clock, inst, proof, stage, since, tries, verdict>>

\* The command never reaches Redis.
RedisLost(r) ==
    /\ wire[r] # 0
    /\ wire' = [wire EXCEPT ![r] = 0]
    /\ UNCHANGED <<failMode, clock, store, inst, proof, stage, since, tries, reply, verdict>>

\* The connection or the reply to an executed command is lost and the client sends
\* the command again, inside the same SetNX call.
RedisRetry(r) ==
    /\ stage[r] = "waiting"
    /\ wire[r] = 0
    /\ tries[r] <= MaxRetries
    /\ reply' = [reply EXCEPT ![r] = "none"]
    /\ wire' = [wire EXCEPT ![r] = PX(TTL(r, since[r]))]
    /\ tries' = [tries EXCEPT ![r] = @ + 1]
    /\ UNCHANGED <<failMode, clock, store, inst, proof, stage, since, verdict>>

Step(r) ==
    \/ Check(r) \/ SeenBeforeTooLate(r) \/ SeenBeforeSend(r)
    \/ SeenBeforeAnswer(r) \/ SeenBeforeError(r)
    \/ RedisSetNX(r) \/ RedisLost(r) \/ RedisRetry(r)

Decided(r) == stage[r] \in {"accepted", "rejected"}

Terminating == (\A r \in Requests : Decided(r) /\ wire[r] = 0) /\ UNCHANGED vars

Next == Tick \/ (\E r \in Requests : Step(r)) \/ Terminating

Spec == Init /\ [][Next]_vars

-----------------------------------------------------------------------------
TypeOK ==
    /\ failMode \in FailModes
    /\ clock \in Nat
    /\ store \in [Keys -> Nat]
    /\ inst \in [Requests -> Instances]
    /\ proof \in [Requests -> Proofs]
    /\ stage \in [Requests -> Stages]
    /\ since \in [Requests -> Nat]
    /\ wire \in [Requests -> Nat]
    /\ tries \in [Requests -> 0 .. MaxRetries + 1]
    /\ reply \in [Requests -> {"none", "set", "exists"}]
    /\ verdict \in [Requests -> {"none", "store", "unrecorded", "error"}]

Accepted == {r \in Requests : stage[r] = "accepted"}

SameProof(r, s) == proof[r] = proof[s]

\* The last Redis time at which the store still vouches for a proof's first use: the
\* TTL is cut to whole milliseconds, and it was computed on a clock within MaxSkew of
\* Redis's.
Guarded(r) == Deadline(r) - MaxSkew - Millisecond

\* cache.go:117-137 with FailClosed, across replicas and whatever is lost, late or sent
\* twice: of two accepted requests with the same proof, one was decided with no more
\* than a millisecond and the skew left of the freshness window.
SharedSingleUse ==
    failMode = "FailClosed" =>
        \A r, s \in Accepted :
            r # s /\ SameProof(r, s) => since[r] > Guarded(r) \/ since[s] > Guarded(s)

\* cache.go:119-121, 134-136: a call that fails open, or that comes in the last
\* millisecond, is the only way past the store.  Every other accepted proof has its
\* key in Redis for as long as the store vouches for it.
StoreHoldsAccepted ==
    \A r \in Accepted :
        verdict[r] = "store" /\ clock <= Guarded(r) => clock < store[proof[r].key]

\* doc.go:26-28: concurrent proofs with the same key resolve to exactly one first
\* sight.  Where every presentation of a pair was of one proof and the store alone
\* decided it, in time and without a resent command, one of them was accepted and the
\* others were not.  (Another proof with the same jti is a first sight of its own once
\* the key of the first has expired.)
ExactlyOneFirstSight ==
    \A p \in Proofs :
        LET P == {s \in Requests : proof[s].key = p.key} IN
        (P # {} /\ \A s \in P : /\ proof[s] = p /\ verdict[s] = "store"
                               /\ tries[s] = 1 /\ since[s] <= Guarded(s))
            => \E s \in P : P \cap Accepted = {s}

\* cache.go:114-115: "a transient error never reads as a replay".  A request that the
\* store rejects on its only command has lost to another request with the same pair.
NoFalseReplay ==
    \A r \in Requests :
        stage[r] = "rejected" /\ verdict[r] = "store" /\ tries[r] = 1 =>
            \E s \in Requests \ {r} : proof[s].key = proof[r].key /\ tries[s] > 0
=============================================================================
