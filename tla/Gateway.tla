------------------------------- MODULE Gateway -------------------------------
(***************************************************************************)
(* transport/http's Middleware over the DPoP verifier, for requests that   *)
(* run concurrently: Validate, then Enforce, then the RateLimiter, then    *)
(* the handler.  The requests share the replay cache and the limiter.      *)
(***************************************************************************)
EXTENDS DPoPVerifier, FiniteSets

CONSTANTS
    Subjects,  \* the subjects of access tokens; an Input has its token's subject and exp,
               \* the clock skew included
    Budget     \* how many requests of a subject the RateLimiter admits in the time modelled

ASSUME GatewayAssumption ==
    /\ IsFiniteSet(Requests) /\ Budget \in Nat
    /\ \A in \in Inputs : in.subject \in Subjects /\ in.exp \in Nat

VARIABLES
    phase,    \* where a request is: "arrived", "validated", "denied", "limited" or "served"
    left,     \* what is left of a subject's budget
    allowed   \* history: the requests for which Allow was called

gatewayVars == <<phase, left, allowed>>
allVars     == <<vars, gatewayVars>>

GatewayInit ==
    /\ Init
    /\ phase = [r \in Requests |-> "arrived"]
    /\ left = [u \in Subjects |-> Budget]
    /\ allowed = {}

\* Validate: the token has not expired; its other checks are in module Validators.
GatewayValidate(r) ==
    /\ phase[r] = "arrived"
    /\ phase' = [phase EXCEPT ![r] = IF clock < input[r].exp THEN "validated" ELSE "denied"]
    /\ UNCHANGED <<vars, left, allowed>>

GatewayEnforce(r) ==
    /\ phase[r] = "validated"
    /\ Enforce(r)
    /\ UNCHANGED gatewayVars

\* Faulty variant: whatever Enforce does not refuse as a replay is charged.
PassedBeforeCache(r) == stage[r] \in {"bearer", "checked", "accepted"}

\* Enforce returned nil.
Passed(r) == stage[r] \in {"bearer", "accepted"}

\* Allow(claims.Subject, now), and the handler if it admits the request.
GatewayLimit(r) ==
    /\ phase[r] = "validated" /\ Passed(r)
    /\ LET u == input[r].subject IN
       IF left[u] > 0
       THEN /\ left' = [left EXCEPT ![u] = @ - 1]
            /\ phase' = [phase EXCEPT ![r] = "served"]
       ELSE /\ phase' = [phase EXCEPT ![r] = "limited"]
            /\ UNCHANGED left
    /\ allowed' = allowed \cup {r}
    /\ UNCHANGED vars

GatewayTick == Tick /\ UNCHANGED gatewayVars

\* Every request has been refused, by Validate or by Enforce, or has got through.
GatewayTerminating ==
    /\ \A r \in Requests : \/ phase[r] \in {"denied", "limited", "served"}
                           \/ phase[r] = "validated" /\ stage[r] \in {"rejected", "nonce"}
    /\ UNCHANGED allVars

GatewayNext ==
    \/ GatewayTick \/ GatewayTerminating
    \/ \E r \in Requests : GatewayValidate(r) \/ GatewayEnforce(r) \/ GatewayLimit(r)

GatewaySpec == GatewayInit /\ [][GatewayNext]_allVars

-----------------------------------------------------------------------------
GatewayTypeOK ==
    /\ phase \in [Requests -> {"arrived", "validated", "denied", "limited", "served"}]
    /\ left \in [Subjects -> 0 .. Budget]
    /\ allowed \subseteq Requests

Served(u) == {r \in Requests : phase[r] = "served" /\ input[r].subject = u}

\* middleware.go:107-136: a subject's budget is only spent on requests that proved possession
\* of the key their token is bound to, each with a proof of its own while its window is
\* open; requests with a used, stale or foreign proof cost the subject nothing.
OnlyProvenCharged ==
    /\ \A r \in allowed :
          input[r].bound # Unbound =>
              /\ r \in Accepted /\ input[r].proof.jkt = input[r].bound
              /\ \A s \in allowed : s # r /\ input[s].bound # Unbound /\ SameKey(r, s) =>
                    acceptedAt[s] >= Deadline(input[r]) \/ acceptedAt[r] >= Deadline(input[s])
    /\ \A u \in Subjects : left[u] + Cardinality(Served(u)) = Budget
=============================================================================
