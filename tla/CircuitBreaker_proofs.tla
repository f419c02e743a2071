----------------------- MODULE CircuitBreaker_proofs -----------------------
(* Proofs about the circuit breaker, for every number of threads, every     *)
(* threshold and every cooldown.                                            *)
EXTENDS CircuitBreaker, TLAPS

BreakerInv == TypeOK /\ OpenedByStreak

LEMMA BreakerInit == Init => BreakerInv
  BY BreakerAssumption DEF Init, BreakerInv, TypeOK, OpenedByStreak

\* A failure moves the counter and the history in step; at the threshold both the age
\* of the circuit and the time since the last failure start again.
LEMMA FailureStep ==
    ASSUME BreakerInv, NEW t \in Threads, RecordFailure(t)
    PROVE  BreakerInv'
  <1>1. failures' = streak' /\ failures' \in 0..Threshold
    BY BreakerAssumption DEF BreakerInv, TypeOK, OpenedByStreak, RecordFailure, Upto
  <1>2. opened' # None <=> streak' = Threshold
    <2>1. CASE failures' = Threshold
      BY <1>1, <2>1, BreakerAssumption DEF RecordFailure
    <2>2. CASE failures' # Threshold
      <3>1. failures # Threshold /\ opened' = opened
        BY <2>2, BreakerAssumption DEF BreakerInv, TypeOK, RecordFailure, Upto
      <3>. QED  BY <1>1, <2>2, <3>1 DEF BreakerInv, OpenedByStreak, RecordFailure
    <2>. QED  BY <2>1, <2>2
  <1>3. opened' # None => opened' = quiet'
    BY <1>1, <1>2 DEF RecordFailure
  <1>4. TypeOK'
    BY <1>1, BreakerAssumption DEF BreakerInv, TypeOK, RecordFailure
  <1>. QED  BY <1>1, <1>2, <1>3, <1>4 DEF BreakerInv, OpenedByStreak

\* A step of a Go thread keeps the types and is not of a Python breaker.
LEMMA GoStep ==
    ASSUME BreakerInv, NEW t \in Threads, GoThread(t)
    PROVE  BreakerInv'
  <1>1. Go /\ backend' = backend
    BY DEF GoThread, GoAsk, GoPeek, GoFollow, GoSuccess, GoClear, GoFailure, GoStamp
  <1>2. ~(~Go)'
    BY <1>1 DEF Go
  <1>3. pc' \in [Threads -> {"idle", "remote", "enqueue", "ok", "failed"} \cup GoSteps]
    BY DEF GoThread, GoAsk, GoPeek, GoFollow, GoSuccess, GoClear, GoFailure, GoStamp,
           Started, After, GoSteps, BreakerInv, TypeOK
  <1>4. failures' \in 0..Threshold /\ opened' \in 0..Cooldown \cup {None}
    BY BreakerAssumption DEF GoThread, GoAsk, GoPeek, GoFollow, GoSuccess, GoClear, GoFailure,
                             GoStamp, Upto, breaker, BreakerInv, TypeOK
  <1>5. /\ up' = up /\ streak' = streak /\ reachable' = reachable
        /\ quiet' \in {quiet, 0}
    BY DEF GoThread, GoAsk, GoPeek, GoFollow, GoSuccess, GoClear, GoFailure, GoStamp, history
  <1>6. TypeOK'
    BY <1>1, <1>3, <1>4, <1>5, BreakerAssumption DEF BreakerInv, TypeOK
  <1>. QED  BY <1>2, <1>6 DEF BreakerInv, OpenedByStreak

LEMMA BreakerStep == BreakerInv /\ [Next]_vars => BreakerInv'
  <1>. SUFFICES ASSUME BreakerInv, [Next]_vars
                PROVE  BreakerInv'
    OBVIOUS
  <1>1. ASSUME NEW t \in Threads, Call(t) \/ RemoteCall(t) \/ EnqueueCall(t)
        PROVE  BreakerInv'
    <2>1. UNCHANGED <<backend, breaker, up, history>>
      BY <1>1 DEF Call, RemoteCall, EnqueueCall
    <2>2. pc' \in [Threads -> {"idle", "remote", "enqueue", "ok", "failed"} \cup GoSteps]
      BY <1>1 DEF Call, RemoteCall, EnqueueCall, Ops, BreakerInv, TypeOK
    <2>. QED  BY <2>1, <2>2 DEF BreakerInv, TypeOK, OpenedByStreak, Go, breaker, history
  <1>2. ASSUME NEW t \in Threads, RecordSuccess(t)
        PROVE  BreakerInv'
    BY <1>2, BreakerAssumption DEF RecordSuccess, Go, BreakerInv, TypeOK, OpenedByStreak
  <1>3. ASSUME NEW t \in Threads, RecordFailure(t)
        PROVE  BreakerInv'
    BY <1>3, FailureStep
  <1>4. ASSUME Second
        PROVE  BreakerInv'
    BY <1>4, BreakerAssumption DEF Second, Go, Upto, BreakerInv, TypeOK, OpenedByStreak
  <1>5. ASSUME Outage
        PROVE  BreakerInv'
    <2>1. up' \in BOOLEAN /\ reachable' \in BOOLEAN
      BY <1>5 DEF Outage, BreakerInv, TypeOK
    <2>. QED  BY <1>5, <2>1 DEF Outage, Go, breaker, BreakerInv, TypeOK, OpenedByStreak
  <1>6. ASSUME UNCHANGED vars
        PROVE  BreakerInv'
    BY <1>6 DEF vars, Go, BreakerInv, TypeOK, OpenedByStreak
  <1>7. ASSUME NEW t \in Threads, GoThread(t)
        PROVE  BreakerInv'
    BY <1>7, GoStep
  <1>. QED  BY <1>1, <1>2, <1>3, <1>4, <1>5, <1>6, <1>7 DEF Next, Thread

\* _failures and _opened_at agree with the recorded outcomes whatever the interleaving.
THEOREM BreakerConsistent == Spec => []OpenedByStreak
  <1>1. BreakerInv => OpenedByStreak
    BY DEF BreakerInv
  <1>. QED  BY <1>1, BreakerInit, BreakerStep, PTL DEF Spec

\* A thread leaves "idle" for a call only through Call, which an open circuit refuses.
LEMMA StartsClosed ==
    ASSUME BreakerInv, [Next]_vars, NEW t \in Threads, ~Go, pc[t] = "idle", pc'[t] # "idle"
    PROVE  streak < Threshold \/ quiet >= Cooldown
  <1>1. PICK s \in Threads : Call(s)
    <2>1. ASSUME NEW s \in Threads,
                 RemoteCall(s) \/ EnqueueCall(s) \/ RecordSuccess(s) \/ RecordFailure(s)
          PROVE  FALSE
      BY <2>1 DEF RemoteCall, EnqueueCall, RecordSuccess, RecordFailure, BreakerInv, TypeOK
    <2>2. ~Second /\ ~Outage /\ ~UNCHANGED vars
      BY DEF Second, Outage, vars
    <2>3. ~(\E s \in Threads : GoThread(s))
      BY DEF GoThread, GoAsk, GoPeek, GoFollow, GoSuccess, GoClear, GoFailure, GoStamp
    <2>. QED  BY <2>1, <2>2, <2>3 DEF Next, Thread
  <1>2. State # "open"
    BY <1>1 DEF Call
  <1>3. CASE failures < Threshold
    BY <1>3 DEF BreakerInv, OpenedByStreak
  <1>4. CASE ~(failures < Threshold)
    BY <1>2, <1>4 DEF State, BreakerInv, OpenedByStreak
  <1>. QED  BY <1>3, <1>4

\* While failure_threshold consecutive failures are younger than the cooldown, no
\* thread starts a call.
THEOREM BreakerFailsFast == Spec => FailFast
  <1>1. BreakerInv /\ [Next]_vars
        => [\A t \in Threads : ~Go /\ pc[t] = "idle" /\ pc'[t] # "idle"
                               => streak < Threshold \/ quiet >= Cooldown]_vars
    BY StartsClosed
  <1>. QED  BY <1>1, BreakerInit, BreakerStep, PTL DEF Spec, FailFast
=============================================================================
