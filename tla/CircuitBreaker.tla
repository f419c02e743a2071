--------------------------- MODULE CircuitBreaker ---------------------------
(***************************************************************************)
(* One CircuitBreaker of ResilientMappingStore and the threads of a worker *)
(* that call its backend through _auth_call or _cache_call: ask allow(),   *)
(* call without holding the lock, record the outcome.  Between two of      *)
(* these steps any other thread may move the breaker.  The breakers of the *)
(* Go store have no lock: each atomic load, store or add is a step.        *)
(*                                                                         *)
(* Only comparisons with the threshold and the cooldown matter, so the     *)
(* failure counter and the ages stop counting there.                       *)
(***************************************************************************)
EXTENDS Integers

CONSTANTS
    Threads,    \* threads of the pool that use the backend
    Threshold,  \* failure_threshold
    Cooldown,   \* cooldown_seconds
    None        \* Python's None

ASSUME BreakerAssumption ==
    /\ Threshold \in Nat \ {0} /\ Cooldown \in Nat \ {0}
    /\ None \notin Nat

VARIABLES
    backend,    \* which breaker of which service this is; never changes
    failures,   \* _failures
    opened,     \* seconds since _opened_at, or None (in Go openedAt, None for 0)
    pc,         \* idle, in a call, or about to take the next step of allow() or a record
    up,         \* the backend answers
    streak,     \* history: failures recorded since the last recorded success
    quiet,      \* history: seconds since the last recorded failure
    reachable   \* history: the backend answered at some moment since the circuit opened

breaker == <<failures, opened>>
history == <<streak, quiet, reachable>>
vars == <<backend, failures, opened, pc, up, streak, quiet, reachable>>

GoBackends == {"go_authority", "go_cache"}
Go == backend \in GoBackends

Upto(n, limit) == IF n > limit THEN limit ELSE n

\* What is called through the breaker.  The authority batches grace transitions, so
\* its mark_demasked is a call that stays in the process.
Ops == IF backend = "authority" THEN {"remote", "enqueue"} ELSE {"remote"}

Init ==
    /\ backend \in {"authority", "cache"} \cup GoBackends
    /\ failures = 0 /\ opened = None
    /\ pc = [t \in Threads |-> "idle"]
    /\ up = TRUE
    /\ streak = 0 /\ quiet = Cooldown /\ reachable = TRUE

State ==
    IF failures < Threshold THEN "closed"
    ELSE IF opened # None /\ opened >= Cooldown THEN "half_open" ELSE "open"

\* Seeded fault: a refused call counts as one more failure and restarts the cooldown.
CallCountsRefusals(t) ==
    /\ ~Go /\ pc[t] = "idle"
    /\ IF State # "open"
       THEN \E o \in Ops : pc' = [pc EXCEPT ![t] = o] /\ UNCHANGED opened
       ELSE opened' = 0 /\ UNCHANGED pc
    /\ UNCHANGED <<backend, failures, up, history>>

\* allow(): an open circuit refuses the call, and nothing is recorded.
Call(t) ==
    /\ ~Go /\ pc[t] = "idle"
    /\ IF State # "open" THEN \E o \in Ops : pc' = [pc EXCEPT ![t] = o]
                         ELSE UNCHANGED pc
    /\ UNCHANGED <<backend, breaker, up, history>>

\* The backend answers the call or the call times out.
RemoteCall(t) ==
    /\ pc[t] = "remote"
    /\ pc' = [pc EXCEPT ![t] = IF up THEN "ok" ELSE "failed"]
    /\ UNCHANGED <<backend, breaker, up, history>>

\* mark_demasked of the batching authority returns once the id is in a dict; only
\* the request that fills the batch goes on to the backend.
EnqueueCall(t) ==
    /\ pc[t] = "enqueue"
    /\ \E next \in {"ok", "remote"} : pc' = [pc EXCEPT ![t] = next]
    /\ UNCHANGED <<backend, breaker, up, history>>

\* Seeded fault: a success forgets the failures and keeps _opened_at.
RecordSuccessKeepsOpened(t) ==
    /\ ~Go /\ pc[t] = "ok"
    /\ pc' = [pc EXCEPT ![t] = "idle"]
    /\ failures' = 0 /\ streak' = 0
    /\ UNCHANGED <<backend, opened, up, quiet, reachable>>

RecordSuccess(t) ==
    /\ ~Go /\ pc[t] = "ok"
    /\ pc' = [pc EXCEPT ![t] = "idle"]
    /\ failures' = 0 /\ opened' = None /\ streak' = 0
    /\ UNCHANGED <<backend, up, quiet, reachable>>

\* Seeded fault: a failure is forgotten when the circuit is already open or half-open.
RecordFailureOnce(t) ==
    /\ ~Go /\ pc[t] = "failed"
    /\ pc' = [pc EXCEPT ![t] = "idle"]
    /\ failures' = Upto(failures + 1, Threshold)
    /\ opened' = IF failures' = Threshold /\ opened = None THEN 0 ELSE opened
    /\ streak' = Upto(streak + 1, Threshold) /\ quiet' = 0
    /\ reachable' = IF opened = None THEN up ELSE reachable
    /\ UNCHANGED <<backend, up>>

\* At the threshold the circuit opens, or a failed probe re-opens it.
RecordFailure(t) ==
    /\ ~Go /\ pc[t] = "failed"
    /\ pc' = [pc EXCEPT ![t] = "idle"]
    /\ failures' = Upto(failures + 1, Threshold)
    /\ opened' = IF failures' = Threshold THEN 0 ELSE opened
    /\ streak' = Upto(streak + 1, Threshold) /\ quiet' = 0
    /\ reachable' = IF opened = None THEN up ELSE reachable
    /\ UNCHANGED <<backend, up>>

-----------------------------------------------------------------------------
(* The breakers of the Go store: the same fields as two atomics.           *)

\* A request starts with a recorded call.  On the cache it may go on with calls of
\* which only a failure is recorded: the backfill, which follows a successful Get and
\* does not ask, and MarkDemasked ("again"), which does.
Started(t) == [pc EXCEPT ![t] = IF pc[t] \in {"idle", "peek"} THEN "remote" ELSE "follow"]

\* allow() loads the counter...
GoAsk(t) ==
    /\ Go /\ pc[t] \in {"idle", "again"}
    /\ pc' = IF failures < Threshold THEN Started(t)
             ELSE [pc EXCEPT ![t] = IF pc[t] = "idle" THEN "peek" ELSE "peekAgain"]
    /\ UNCHANGED <<backend, breaker, up, history>>

\* ...and then openedAt, which a success or failure may have moved in between.
GoPeek(t) ==
    /\ Go /\ pc[t] \in {"peek", "peekAgain"}
    /\ pc' = IF opened = None \/ opened >= Cooldown THEN Started(t)
             ELSE [pc EXCEPT ![t] = "idle"]
    /\ UNCHANGED <<backend, breaker, up, history>>

GoFollow(t) ==
    /\ Go /\ pc[t] = "follow"
    /\ pc' = [pc EXCEPT ![t] = IF up THEN "idle" ELSE "failed"]
    /\ UNCHANGED <<backend, breaker, up, history>>

After(t, calls) ==
    \E next \in {"idle"} \cup (IF backend = "go_cache" THEN calls ELSE {}) :
        pc' = [pc EXCEPT ![t] = next]

\* success() stores 0 in the counter...
GoSuccess(t) ==
    /\ Go /\ pc[t] = "ok"
    /\ pc' = [pc EXCEPT ![t] = "clear"]
    /\ failures' = 0
    /\ UNCHANGED <<backend, opened, up, history>>

\* ...and then in openedAt, also over what a failure stored in the meantime.
GoClear(t) ==
    /\ Go /\ pc[t] = "clear"
    /\ After(t, {"follow", "again"})
    /\ opened' = None
    /\ UNCHANGED <<backend, failures, up, history>>

\* Seeded fault: the stamp is only stored by the failure that reaches the threshold.
GoFailureStampsOnce(t) ==
    /\ Go /\ pc[t] = "failed"
    /\ failures' = Upto(failures + 1, Threshold)
    /\ IF failures < Threshold /\ failures' = Threshold
       THEN pc' = [pc EXCEPT ![t] = "stamp"] ELSE After(t, {"again"})
    /\ quiet' = 0
    /\ UNCHANGED <<backend, opened, up, streak, reachable>>

\* failure() adds one and, at the threshold or above it, goes on to stamp openedAt.
GoFailure(t) ==
    /\ Go /\ pc[t] = "failed"
    /\ failures' = Upto(failures + 1, Threshold)
    /\ IF failures' = Threshold THEN pc' = [pc EXCEPT ![t] = "stamp"] ELSE After(t, {"again"})
    /\ quiet' = 0
    /\ UNCHANGED <<backend, opened, up, streak, reachable>>

GoStamp(t) ==
    /\ Go /\ pc[t] = "stamp"
    /\ After(t, {"again"})
    /\ opened' = 0 /\ quiet' = 0
    /\ UNCHANGED <<backend, failures, up, streak, reachable>>

GoThread(t) == GoAsk(t) \/ GoPeek(t) \/ GoFollow(t) \/ GoSuccess(t) \/ GoClear(t)
               \/ GoFailure(t) \/ GoStamp(t)

-----------------------------------------------------------------------------
Second ==
    /\ quiet < Cooldown
    /\ quiet' = quiet + 1
    /\ opened' = IF opened = None THEN None ELSE Upto(opened + 1, Cooldown)
    /\ UNCHANGED <<backend, failures, pc, up, streak, reachable>>

\* The backend goes down or comes back.
Outage ==
    /\ up' = ~up
    /\ reachable' = (reachable \/ up')
    /\ UNCHANGED <<backend, breaker, pc, streak, quiet>>

Thread(t) == Call(t) \/ RemoteCall(t) \/ EnqueueCall(t) \/ RecordSuccess(t) \/ RecordFailure(t)
             \/ GoThread(t)

Next == (\E t \in Threads : Thread(t)) \/ Second \/ Outage

Spec == Init /\ [][Next]_vars

\* Time passes, requests keep arriving and a thread of the pool runs to its end.
FairSpec == Spec /\ WF_vars(Second) /\ \A t \in Threads : WF_vars(Thread(t))

-----------------------------------------------------------------------------
(* Properties *)

GoSteps == {"peek", "again", "peekAgain", "follow", "clear", "stamp"}

\* Every variable stays within its type.
TypeOK ==
    /\ backend \in {"authority", "cache"} \cup GoBackends
    /\ failures \in 0..Threshold
    /\ opened \in 0..Cooldown \cup {None}
    /\ pc \in [Threads -> {"idle", "remote", "enqueue", "ok", "failed"} \cup GoSteps]
    /\ up \in BOOLEAN
    /\ streak \in 0..Threshold /\ quiet \in 0..Cooldown /\ reachable \in BOOLEAN

\* The two fields of the breaker agree with each other and with what was recorded:
\* _opened_at is set exactly while the last failure_threshold outcomes were failures,
\* and dates from the last of them, however the threads' records interleave.  (Without
\* a lock the Go fields part: openedAt may be 0 at the threshold, see OutageNoticed.)
OpenedByStreak ==
    ~Go => /\ failures = streak
           /\ opened # None <=> streak = Threshold
           /\ opened # None => opened = quiet

\* CircuitBreaker: "after `failure_threshold` consecutive failures the circuit opens
\* for `cooldown_seconds`": in that time no thread starts a call, so a dead backend
\* costs no request its timeout.
FailFast ==
    [][\A t \in Threads :
        ~Go /\ pc[t] = "idle" /\ pc'[t] # "idle" => streak < Threshold \/ quiet >= Cooldown]_vars

\* A backend that stays up is used again: the circuit closes for good, in the Go store
\* whatever its threads' loads and stores left in the two fields.
Recovers == <>[]up => <>[](State = "closed")

\* A backend that stays down is noticed: its circuit opens for good, with a time of
\* opening that makes allow() refuse.  In the Go store the fields may part for a while
\* - failures at the threshold and openedAt 0, which lets every call through - but the
\* failures that follow mend them.  (Not so Python's authority: see ClosedByRecovery.)
OutageNoticed ==
    backend # "authority" /\ <>[](~up) => <>[](State # "closed" /\ opened # None)

\* tests/unit/test_resilient_store.py: "after cooldown a half-open probe reaches the
\* recovered backend": the circuit closes only if the backend answered since it opened.
ClosedByRecovery ==
    [][State # "closed" /\ State' = "closed" => reachable]_vars
=============================================================================
