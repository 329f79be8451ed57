---------------------------- MODULE SessionStore ----------------------------
(***************************************************************************)
(* The in-memory session store of session.go: per-user concurrency cap,    *)
(* sliding inactivity timeout, lazy reaping.                               *)
(*                                                                         *)
(* Every operation runs under one mutex, so each is one action.  The time  *)
(* an operation works with is NOT read under that mutex: it is an argument *)
(* the caller read earlier.  A call is therefore two steps, Begin (the     *)
(* caller reads the clock) and the operation, and other calls and ticks of *)
(* the clock come in between.                                              *)
(***************************************************************************)
EXTENDS Integers, FiniteSets

CONSTANTS
    Users,                 \* user ids a session may be opened for
    Ids,                   \* session ids newID can produce
    Callers,               \* goroutines that use the store
    NoUser,                \* the empty userID
    NoId,                  \* a session id the store never produced
    Timeout,               \* SessionConfig.Timeout; 0 disables expiry
    MaxConcurrentPerUser,  \* SessionConfig.MaxConcurrentPerUser; <= 0 disables the cap
    MaxLag,                \* how long a call may take from its clock read to the mutex
    MaxTime                \* bound on the clock

ASSUME TimeAssumption ==
    /\ Timeout \in Nat
    /\ MaxConcurrentPerUser \in Int
    /\ MaxLag \in Nat
    /\ MaxTime \in Nat

ASSUME NameAssumption ==
    /\ IsFiniteSet(Ids)
    /\ NoUser \notin Users
    /\ NoId \notin Ids

VARIABLES
    clock,     \* wall clock
    sessions,  \* the map sessionID -> [userID, lastSeen]
    used,      \* the ids newID has produced so far
    call,      \* the call each caller is in
    result,    \* what each caller's last call returned, "none" while it runs
    lastUse    \* history: the latest time a successful Open or Touch of an id carried

vars == <<clock, sessions, used, call, result, lastUse>>

Session == [userID : Users, lastSeen : Nat]
Ops     == {"Idle", "Open", "Touch", "Close", "Count"}
Args    == Users \cup {NoUser} \cup Ids \cup {NoId}
Call    == [op : Ops, arg : Args, now : Nat]
Results == {"none", "ok", "empty", "limit", "invalid"}

Idle == [op |-> "Idle", arg |-> NoUser, now |-> 0]

InFlight(c) == call[c].op # "Idle"

-----------------------------------------------------------------------------
(* The helpers that run with the mutex held.                               *)

\* Faulty variant of the expiry test: one tick early.
TimedOutEarly(i, now) == Timeout > 0 /\ now - sessions[i].lastSeen > Timeout - 1

TimedOut(i, now) == Timeout > 0 /\ now - sessions[i].lastSeen > Timeout

OwnedBy(f, u) == {i \in DOMAIN f : f[i].userID = u}

Without(S) == [i \in DOMAIN sessions \ S |-> sessions[i]]

\* Faulty variant: an Open or Count that does not reap.
reapForUserLockedNever(u, now) == sessions

\* reapForUserLocked: the map without the user's sessions whose timeout has fired.
reapForUserLocked(u, now) ==
    Without({i \in OwnedBy(sessions, u) : TimedOut(i, now)})

\* countForUserLocked, on the map f.
countForUserLocked(f, u) == Cardinality(OwnedBy(f, u))

\* Faulty variant: the cap is off by one.
AtCapOffByOne(f, u) ==
    /\ MaxConcurrentPerUser > 0
    /\ countForUserLocked(f, u) > MaxConcurrentPerUser

AtCap(f, u) ==
    /\ MaxConcurrentPerUser > 0
    /\ countForUserLocked(f, u) >= MaxConcurrentPerUser

-----------------------------------------------------------------------------
Init ==
    /\ clock = 0
    /\ sessions = [i \in {} |-> [userID |-> NoUser, lastSeen |-> 0]]
    /\ used = {}
    /\ call = [c \in Callers |-> Idle]
    /\ result = [c \in Callers |-> "none"]
    /\ lastUse = [i \in Ids |-> 0]

\* Time passes, but no call stays between its clock read and the mutex for more
\* than MaxLag.
Tick ==
    /\ clock < MaxTime
    /\ \A c \in Callers : InFlight(c) => clock - call[c].now < MaxLag
    /\ clock' = clock + 1
    /\ UNCHANGED <<sessions, used, call, result, lastUse>>

\* The bound on Ids: one unused id is left for every Open in flight.
IdLeft ==
    Cardinality({c \in Callers : call[c].op = "Open"}) < Cardinality(Ids \ used)

\* A goroutine reads the clock and heads for the store.
Begin(c, op, arg) ==
    /\ ~InFlight(c)
    /\ call' = [call EXCEPT ![c] = [op |-> op, arg |-> arg, now |-> clock]]
    /\ result' = [result EXCEPT ![c] = "none"]
    /\ UNCHANGED <<clock, sessions, used, lastUse>>

BeginOpen(c)  == \E u \in Users \cup {NoUser} : IdLeft /\ Begin(c, "Open", u)
BeginTouch(c) == \E i \in used \cup {NoId} : Begin(c, "Touch", i)
BeginClose(c) == \E i \in used \cup {NoId} : Begin(c, "Close", i)
BeginCount(c) == \E u \in Users : Begin(c, "Count", u)

Return(c, r) ==
    /\ call' = [call EXCEPT ![c] = Idle]
    /\ result' = [result EXCEPT ![c] = r]

LaterOf(a, b) == IF a > b THEN a ELSE b

-----------------------------------------------------------------------------
(* Faulty variants of the operations below: each is the body an operation  *)
(* would have with a plausible bug.                                        *)

\* Touch that answers nil without storing the new time.
TouchLiveForgets(c) ==
    LET i == call[c].arg IN
    /\ call[c].op = "Touch"
    /\ i \in DOMAIN sessions
    /\ ~TimedOut(i, call[c].now)
    /\ lastUse' = [lastUse EXCEPT ![i] = LaterOf(lastUse[i], call[c].now)]
    /\ Return(c, "ok")
    /\ UNCHANGED <<clock, sessions, used>>

\* Touch that creates a session it does not find.
TouchUnknownUpserts(c) ==
    LET i == call[c].arg IN
    /\ call[c].op = "Touch"
    /\ i \notin DOMAIN sessions
    /\ IF i = NoId
       THEN UNCHANGED sessions
       ELSE \E u \in Users :
              sessions' = [j \in DOMAIN sessions \cup {i} |->
                             IF j = i THEN [userID |-> u, lastSeen |-> call[c].now]
                                      ELSE sessions[j]]
    /\ Return(c, "ok")
    /\ UNCHANGED <<clock, used, lastUse>>

-----------------------------------------------------------------------------
(* Open.                                                                   *)

OpenEmptyUser(c) ==
    /\ call[c].op = "Open"
    /\ call[c].arg = NoUser
    /\ Return(c, "empty")
    /\ UNCHANGED <<clock, sessions, used, lastUse>>

OpenAtCap(c) ==
    LET u    == call[c].arg
        kept == reapForUserLocked(u, call[c].now)
    IN  /\ call[c].op = "Open"
        /\ u # NoUser
        /\ AtCap(kept, u)
        /\ sessions' = kept
        /\ Return(c, "limit")
        /\ UNCHANGED <<clock, used, lastUse>>

OpenGranted(c) ==
    LET u    == call[c].arg
        now  == call[c].now
        kept == reapForUserLocked(u, now)
    IN  /\ call[c].op = "Open"
        /\ u # NoUser
        /\ ~AtCap(kept, u)
        /\ \E id \in Ids \ used :
             /\ sessions' = [i \in DOMAIN kept \cup {id} |->
                               IF i = id THEN [userID |-> u, lastSeen |-> now]
                                         ELSE kept[i]]
             /\ used' = used \cup {id}
             /\ lastUse' = [lastUse EXCEPT ![id] = now]
        /\ Return(c, "ok")
        /\ UNCHANGED clock

(* Touch.                                                                  *)

TouchUnknown(c) ==
    /\ call[c].op = "Touch"
    /\ call[c].arg \notin DOMAIN sessions
    /\ Return(c, "invalid")
    /\ UNCHANGED <<clock, sessions, used, lastUse>>

TouchExpired(c) ==
    LET i == call[c].arg IN
    /\ call[c].op = "Touch"
    /\ i \in DOMAIN sessions
    /\ TimedOut(i, call[c].now)
    /\ sessions' = Without({i})
    /\ Return(c, "invalid")
    /\ UNCHANGED <<clock, used, lastUse>>

\* lastSeen becomes the caller's time, also when that is older than lastSeen.
TouchLive(c) ==
    LET i   == call[c].arg
        now == call[c].now
    IN  /\ call[c].op = "Touch"
        /\ i \in DOMAIN sessions
        /\ ~TimedOut(i, now)
        /\ sessions' = [sessions EXCEPT ![i].lastSeen = now]
        /\ lastUse' = [lastUse EXCEPT ![i] = LaterOf(lastUse[i], now)]
        /\ Return(c, "ok")
        /\ UNCHANGED <<clock, used>>

Close(c) ==
    /\ call[c].op = "Close"
    /\ sessions' = Without({call[c].arg})
    /\ Return(c, "ok")
    /\ UNCHANGED <<clock, used, lastUse>>

Count(c) ==
    /\ call[c].op = "Count"
    /\ sessions' = reapForUserLocked(call[c].arg, call[c].now)
    /\ Return(c, "ok")
    /\ UNCHANGED <<clock, used, lastUse>>

CallStep(c) ==
    \/ BeginOpen(c) \/ BeginTouch(c) \/ BeginClose(c) \/ BeginCount(c)
    \/ OpenEmptyUser(c) \/ OpenAtCap(c) \/ OpenGranted(c)
    \/ TouchUnknown(c) \/ TouchExpired(c) \/ TouchLive(c)
    \/ Close(c) \/ Count(c)

Next == Tick \/ \E c \in Callers : CallStep(c)

Spec == Init /\ [][Next]_vars

-----------------------------------------------------------------------------
(* Properties.                                                             *)

\* Types, and the bookkeeping facts that tie the history to the store: every
\* stored id was produced by newID.
TypeOK ==
    /\ clock \in Nat
    /\ DOMAIN sessions \subseteq used
    /\ sessions \in [DOMAIN sessions -> Session]
    /\ used \subseteq Ids
    /\ call \in [Callers -> Call]
    /\ \A c \in Callers : call[c].op = "Open" => call[c].arg \in Users \cup {NoUser}
    /\ result \in [Callers -> Results]
    /\ lastUse \in [Ids -> Nat]

\* "The (N+1)th Open returns ErrSessionLimitExceeded": whatever calls overlap and
\* however late they reach the mutex, no user ever holds more than
\* MaxConcurrentPerUser sessions in the map.
CapRespected ==
    MaxConcurrentPerUser > 0 =>
        \A u \in Users : countForUserLocked(sessions, u) <= MaxConcurrentPerUser

\* The time stored for a session may run behind the latest use of it, because a
\* Touch that read its clock first can reach the mutex last, but never by more
\* than the time a call takes to reach the mutex.
LastSeenLag ==
    \A i \in DOMAIN sessions : lastUse[i] - sessions[i].lastSeen <= MaxLag

Removed(i) == i \in DOMAIN sessions /\ i \notin DOMAIN sessions'

Finished(c) == InFlight(c) /\ call'[c] = Idle

ClosedNow(i) == \E c \in Callers : Finished(c) /\ call[c].op = "Close" /\ call[c].arg = i

\* A session used within the last Timeout - slack, by the clock of the call that
\* removes it, is removed by Close only.
KeptUnlessIdle(slack) ==
    \A i \in Ids :
        Removed(i) =>
            \/ ClosedNow(i)
            \/ /\ Timeout > 0
               /\ \E c \in Callers : Finished(c) /\ call[c].now - lastUse[i] > Timeout - slack

\* Sliding timeout: Open, Touch and Count throw a session out only when it was
\* idle for the whole Timeout, less the time a call may take to reach the mutex,
\* and never when timeouts are disabled.
SlidingTimeout == [][KeptUnlessIdle(MaxLag)]_vars

\* session.go:23-24, word for word: Touch keeps sliding timeouts from expiring an
\* active session, so a session touched within Timeout is not removed.
TouchKeepsSessionAlive == [][KeptUnlessIdle(0)]_vars

\* Open refuses with ErrSessionLimitExceeded only when the user really holds the
\* cap in sessions that have not timed out at the time of the call: a session
\* whose timeout has fired never costs its user a slot.
RefusedOnlyAtCap ==
    [][\A c \in Callers :
         (call[c].op = "Open" /\ Finished(c) /\ result'[c] = "limit") =>
             LET u == call[c].arg IN
             Cardinality({i \in OwnedBy(sessions, u) : ~(Timeout > 0 /\ call[c].now - sessions[i].lastSeen > Timeout)})
                 >= MaxConcurrentPerUser]_vars

\* A session that was closed or reaped stays gone: a Touch that was under way when
\* Close or a reap ran does not bring the id back.
NoRevival == [][\A i \in used \ DOMAIN sessions : i \notin DOMAIN sessions']_vars
=============================================================================
