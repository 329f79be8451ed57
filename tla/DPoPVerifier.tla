----------------------------- MODULE DPoPVerifier -----------------------------
(***************************************************************************)
(* dpop.Verifier.Enforce and checkProof over the in-memory replay cache,   *)
(* for any number of requests in flight.                                   *)
(*                                                                         *)
(* Enforce reads the clock once (v.now()) and every check up to the nonce  *)
(* is a function of the proof, the request and that reading, so those      *)
(* checks are one action.  The replay check comes last and the cache reads *)
(* the clock again, under its mutex: it is a second action, and time and   *)
(* other requests pass in between.                                         *)
(***************************************************************************)
EXTENDS MemoryReplayCache, SignedNonce, Sequences

CONSTANTS
    Requests,       \* request ids; each is one call of Enforce
    Inputs,         \* the dpop.Input values requests come with
    Mode,           \* "Opportunistic" or "Require"
    IATLeeway,      \* the iat window, in ticks
    NonceRequired,  \* whether Config.Nonce is set
    Unbound,        \* BoundJKT = ""
    MaxDelay        \* how long Enforce may take from v.now() to the cache's now()

VARIABLES
    stage,       \* where the request's Enforce call is
    input,       \* the request's Input
    readAt,      \* what v.now() returned
    acceptedAt   \* history: the cache's now() in the call that found the proof unseen

vars == <<clock, seen, answer, stage, input, readAt, acceptedAt>>

Stages == {"new", "bearer", "rejected", "nonce", "checked", "accepted"}

\* stripURL: the URL without query and fragment.
stripURL(u) == u.path

\* ath: the hash of the access token; distinct tokens have distinct hashes.
ath(t) == [sha256 |-> t]

\* Faulty variant: the parts are not separated.
KeyUnseparated(in) == in.proof.jti \o stripURL(in.proof.htu)

\* The replay cache's key joins the jti and the stripped htu, both sequences of characters.
\* url.String escapes the separator, so of the two only a jti contains it.
Key(in)      == in.proof.jti \o <<"|">> \o stripURL(in.proof.htu)
Deadline(in) == in.proof.iat + IATLeeway

\* What a jti or a URL is a sequence of; strings of length one, here.
Char == STRING \cup {"|"}

\* The last conjunct: a request URL that url.Parse accepts is stripped to one without
\* the separator.  One that it refuses (a path with a stray "%") stays as it is and is
\* outside the model.

ASSUME VerifierAssumption ==
    /\ Mode \in {"Opportunistic", "Require"}
    /\ IATLeeway \in Nat \ {0}
    /\ NonceRequired \in BOOLEAN
    /\ MaxDelay \in Nat
    /\ \A in \in Inputs : Key(in) \in Keys /\ in.proof.iat \in Nat /\ Deadline(in) \in Expiries
    /\ \A in \in Inputs : in.proof.jti \in Seq(Char) /\ stripURL(in.url) \in Seq(Char)
    /\ \A in \in Inputs : \A i \in DOMAIN stripURL(in.url) : stripURL(in.url)[i] # "|"

-----------------------------------------------------------------------------
\* Faulty variant: the window is not checked against the past.
FreshLate(p, now) == p.iat <= now + IATLeeway

Fresh(p, now) == now - IATLeeway <= p.iat /\ p.iat <= now + IATLeeway

\* checkProof up to the binding.  wellFormed stands for the checks on the JWS itself:
\* it parses, carries one signature, typ dpop+jwt, an allowed asymmetric algorithm
\* and an embedded public key that verifies it, and a payload with every required
\* claim (an iat of 0 counts as absent).
Holds(in, now) ==
    LET p == in.proof IN
    /\ p.wellFormed
    /\ p.iat # 0
    /\ p.htm = in.method
    /\ stripURL(p.htu) = stripURL(in.url)
    /\ Fresh(p, now)
    /\ p.ath = ath(in.token)
    /\ p.jkt = in.bound

NonceOK(in, now) == NonceRequired => Validate(in.proof.nonce, now)

OneProof(in) == in.bound # Unbound /\ in.proofs = 1

-----------------------------------------------------------------------------
Init ==
    /\ CacheInit
    /\ stage = [r \in Requests |-> "new"]
    /\ input \in [Requests -> Inputs]
    /\ readAt = [r \in Requests |-> 0]
    /\ acceptedAt = [r \in Requests |-> 0]

\* Time passes; no call stays between its two clock readings for more than MaxDelay.
Tick ==
    /\ CacheTick
    /\ \A r \in Requests : stage[r] = "checked" => clock - readAt[r] < MaxDelay
    /\ UNCHANGED <<stage, input, readAt, acceptedAt>>

Decide(r, s) ==
    /\ stage[r] = "new"
    /\ stage' = [stage EXCEPT ![r] = s]
    /\ UNCHANGED <<clock, seen, answer, input, acceptedAt>>

EnforceUnbound(r) ==
    /\ input[r].bound = Unbound
    /\ Decide(r, IF Mode = "Require" THEN "rejected" ELSE "bearer")
    /\ UNCHANGED readAt

\* No proof header, or more than one.
EnforceNotOneProof(r) ==
    /\ input[r].bound # Unbound
    /\ input[r].proofs # 1
    /\ Decide(r, "rejected")
    /\ UNCHANGED readAt

EnforceRejected(r) ==
    /\ OneProof(input[r])
    /\ ~Holds(input[r], clock)
    /\ Decide(r, "rejected")
    /\ readAt' = [readAt EXCEPT ![r] = clock]

\* Faulty variant: the proof is recorded although it draws a nonce challenge.
EnforceNonceRecords(r) ==
    /\ OneProof(input[r])
    /\ Holds(input[r], clock)
    /\ ~NonceOK(input[r], clock)
    /\ stage[r] = "new"
    /\ SeenBefore(Key(input[r]), Deadline(input[r]))
    /\ stage' = [stage EXCEPT ![r] = "nonce"]
    /\ readAt' = [readAt EXCEPT ![r] = clock]
    /\ UNCHANGED <<input, acceptedAt>>

\* ErrUseDPoPNonce: missing, stale and forged nonces alike; nothing is recorded.
EnforceNonce(r) ==
    /\ OneProof(input[r])
    /\ Holds(input[r], clock)
    /\ ~NonceOK(input[r], clock)
    /\ Decide(r, "nonce")
    /\ readAt' = [readAt EXCEPT ![r] = clock]

EnforceChecked(r) ==
    /\ OneProof(input[r])
    /\ Holds(input[r], clock)
    /\ NonceOK(input[r], clock)
    /\ Decide(r, "checked")
    /\ readAt' = [readAt EXCEPT ![r] = clock]

\* Faulty variant: the answer of the cache is ignored.
EnforceReplayIgnored(r) ==
    /\ stage[r] = "checked"
    /\ SeenBeforeReplay(Key(input[r]))
    /\ stage' = [stage EXCEPT ![r] = "accepted"]
    /\ acceptedAt' = [acceptedAt EXCEPT ![r] = clock]
    /\ UNCHANGED <<input, readAt>>

EnforceReplay(r) ==
    /\ stage[r] = "checked"
    /\ SeenBeforeReplay(Key(input[r]))
    /\ stage' = [stage EXCEPT ![r] = "rejected"]
    /\ UNCHANGED <<input, readAt, acceptedAt>>

EnforceAccept(r) ==
    /\ stage[r] = "checked"
    /\ SeenBeforeFirst(Key(input[r]), Deadline(input[r]))
    /\ stage' = [stage EXCEPT ![r] = "accepted"]
    /\ acceptedAt' = [acceptedAt EXCEPT ![r] = clock]
    /\ UNCHANGED <<input, readAt>>

Enforce(r) ==
    \/ EnforceUnbound(r) \/ EnforceNotOneProof(r) \/ EnforceRejected(r)
    \/ EnforceNonce(r) \/ EnforceChecked(r) \/ EnforceReplay(r) \/ EnforceAccept(r)

\* Every request has its verdict.
Terminating ==
    /\ \A r \in Requests : stage[r] \notin {"new", "checked"}
    /\ UNCHANGED vars

Next == Tick \/ (\E r \in Requests : Enforce(r)) \/ Terminating

Spec == Init /\ [][Next]_vars

-----------------------------------------------------------------------------
TypeOK ==
    /\ clock \in Nat
    /\ seen \in [Keys -> Nat]
    /\ stage \in [Requests -> Stages]
    /\ input \in [Requests -> Inputs]
    /\ readAt \in [Requests -> Nat]
    /\ acceptedAt \in [Requests -> Nat]

Accepted == {r \in Requests : stage[r] = "accepted"}

SameKey(r, s) == Key(input[r]) = Key(input[s])

\* Single use while the window is open: of two accepted requests whose proofs share
\* (jti, htu), one got its answer from the cache only at or after the deadline
\* iat + IATLeeway of the other's proof.
SingleUseInWindow ==
    \A r, s \in Accepted :
        r # s /\ SameKey(r, s) =>
            \/ acceptedAt[s] >= Deadline(input[r])
            \/ acceptedAt[r] >= Deadline(input[s])

\* An accepted proof was inside the iat window when Enforce read the clock, so when
\* the cache answered it was late by at most the time between the two readings.
AcceptedFresh ==
    \A r \in Accepted :
        /\ input[r].proof.iat <= acceptedAt[r] + IATLeeway
        /\ acceptedAt[r] <= Deadline(input[r]) + MaxDelay

\* proof.go:33-35, 126-131: replay is checked last, so whatever the map holds was put
\* there by an accepted request whose proof passed every other check, the nonce
\* included; a proof that drew a challenge is not in the map.
OnlyAcceptedRecorded ==
    \A k \in Keys :
        seen[k] # 0 =>
            \E r \in Accepted :
                LET in == input[r] IN
                /\ Key(in) = k
                /\ seen[k] = Deadline(in)
                /\ in.proof.wellFormed /\ in.proof.jkt = in.bound
                /\ in.proof.ath = ath(in.token)
                /\ NonceRequired => in.proof.nonce.mac

\* replay.go:42-51, proof.go:136-139: a proof that holds is only refused as a replay if one
\* with its jti, for its URL, was accepted before, although a jti may contain the
\* separator of the joined key.
RefusedOnlyIfUsed ==
    \A r \in Requests :
        LET in == input[r] IN
        stage[r] = "rejected" /\ OneProof(in) /\ Holds(in, readAt[r]) /\ NonceOK(in, readAt[r]) =>
            \E s \in Accepted : /\ input[s].proof.jti = in.proof.jti
                                /\ stripURL(input[s].url) = stripURL(in.url)
=============================================================================
