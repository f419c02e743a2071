----------------------------- MODULE Admission -----------------------------
(***************************************************************************)
(* AdmissionMiddleware and AdmissionController of one worker: the gate in  *)
(* front of the thread pool.  A handler call is one step up to the await   *)
(* of the application and one step after it; requests of the event loop    *)
(* interleave between the two.  EWMA rates depend on real time and are any *)
(* of a set of Rates; memory, storage health and time are the environment. *)
(* Retry-After is computed in tenths of a second.                          *)
(*                                                                         *)
(* The Go service's gate is the same gate without memory, latency and      *)
(* storage signals: in the port "go" these stay what they were at first.   *)
(***************************************************************************)
EXTENDS Integers, FiniteSets, FiniteSetsExt

CONSTANTS
    Reqs,           \* connections
    Sizes,          \* content-length values, and Absent for a body of undeclared length
    MaxBytes,       \* max_payload_bytes
    MaxInFlight, MaxBacklog, BaseCost, PerChar,
    MinRetry, MaxRetry,  \* min and max_retry_after, in tenths of a second
    Rates,          \* work units per second an EWMA may show
    Latencies,      \* values of _latency_ewma, in tenths of a second
    Absent

ASSUME AdmissionAssumption ==
    /\ Sizes \subseteq Nat \cup {Absent} /\ Rates \subseteq Nat /\ Latencies \subseteq Nat
    /\ {0} \subseteq Rates \cap Latencies
    /\ {MaxBytes, MaxInFlight, MaxBacklog, BaseCost, PerChar, MinRetry, MaxRetry} \subseteq Nat
    /\ Absent \notin Nat

\* As the default settings are: no accepted body outweighs the backlog, a body costs at
\* least one character, a third of the longest Retry-After is still above the shortest,
\* and the longest is whole seconds.
ASSUME SettingsAssumption ==
    /\ MaxInFlight > 0
    /\ BaseCost + PerChar * MaxBytes <= MaxBacklog /\ PerChar <= BaseCost
    /\ 3 * MinRetry <= MaxRetry /\ MaxRetry % 10 = 0

VARIABLES
    port,                   \* "python" or "go": whose gate this is; never changes
    inFlight, outstanding,  \* _in_flight, _outstanding_work
    ticket,                 \* the work of each request inside the application, or Absent
    reply,                  \* what the gate itself answered last, or Absent
    arrival, service,       \* rates of _arrivals and _work_completed
    latency,                \* _latency_ewma
    rssHigh,                \* the process really is above rss_limit_mb
    rssSeen, rssStale,      \* the cached reading, and whether it is older than a second
    degraded                \* which of "authority" and "cache" have a circuit not closed

rates == <<arrival, service, latency>>
rss == <<rssHigh, rssSeen, rssStale>>
admissionVars == <<port, inFlight, outstanding, ticket, reply, arrival, service, latency,
          rssHigh, rssSeen, rssStale, degraded>>

AdmissionInit ==
    /\ port \in {"python", "go"}
    /\ inFlight = 0 /\ outstanding = 0
    /\ ticket = [r \in Reqs |-> Absent]
    /\ reply = Absent
    /\ arrival = 0 /\ service = 0 /\ latency = 0
    /\ rssHigh = FALSE /\ rssSeen = FALSE /\ rssStale = TRUE
    /\ degraded = {}

-----------------------------------------------------------------------------
(* AdmissionController *)

Greatest(a, b) == IF a >= b THEN a ELSE b
Least(a, b) == IF a <= b THEN a ELSE b
RoundDiv(a, b) == (2 * a + b) \div (2 * b)

\* Without a content-length Python reads 0 and Go -1.
Declared(size) == IF size # Absent THEN size ELSE IF port = "go" THEN -1 ELSE 0

EstimateWork(size) == BaseCost + PerChar * Declared(size)

\* Seeded fault: a reading above the limit is never refreshed.
RssNowSticky == IF rssStale /\ ~rssSeen THEN rssHigh ELSE rssSeen

\* _rss_now_mb: /proc is read at most once per second.
RssNow == IF rssStale THEN rssHigh ELSE rssSeen

ReadRss ==
    IF port = "go" THEN UNCHANGED rss
    ELSE rssSeen' = RssNow /\ rssStale' = FALSE /\ UNCHANGED rssHigh

LoadState ==
    CASE RssNow -> "CRITICAL"
      [] ~RssNow /\ "authority" \in degraded -> "STORAGE_DEGRADED"
      [] ~RssNow /\ "authority" \notin degraded
            /\ (inFlight >= MaxInFlight \/ 10 * outstanding > 8 * MaxBacklog) -> "OVERLOADED"
      [] OTHER -> IF "cache" \in degraded THEN "CACHE_DEGRADED" ELSE "NORMAL"

\* Seeded fault: the pressure is inverted, so a faster arrival asks for a shorter wait.
RetryAfterInverted(work, a) ==
    LET modifier == IF "authority" \in degraded THEN 2 ELSE 1
        retry == IF service = 0 THEN RoundDiv(Greatest(latency, MinRetry) * 3 * modifier, 2)
                 ELSE RoundDiv(10 * (outstanding + work) * 3 * modifier, 2 * Greatest(service, a))
    IN Least(Greatest(retry, MinRetry), MaxRetry)

\* Seeded fault: the ceiling is lost.
RetryAfterUnclamped(work, a) ==
    LET modifier == IF "authority" \in degraded THEN 2 ELSE 1
        floor == Least(IF service = 0 THEN MinRetry
                       ELSE RoundDiv(MinRetry * Greatest(2 * service, a), 2 * service),
                       MaxRetry \div 3)
        retry == IF service = 0 THEN RoundDiv(Greatest(latency, MinRetry) * 3 * modifier, 2)
                 ELSE RoundDiv(10 * (outstanding + work) * Greatest(service, a) * 3 * modifier,
                               2 * service * service)
    IN Greatest(retry, floor)

\* _retry_after_locked: waiting work over service rate, scaled by the pressure
\* max(1, arrival / service), the safety factor 3/2 and the storage modifier, then
\* clamped between the pressure-scaled floor and max_retry_after.
RetryAfter(work, a) ==
    LET modifier == IF "authority" \in degraded THEN 2 ELSE 1
        floor == Least(IF service = 0 THEN MinRetry
                       ELSE RoundDiv(MinRetry * Greatest(2 * service, a), 2 * service),
                       MaxRetry \div 3)
        retry == IF service = 0 THEN RoundDiv(Greatest(latency, MinRetry) * 3 * modifier, 2)
                 ELSE RoundDiv(10 * (outstanding + work) * Greatest(service, a) * 3 * modifier,
                               2 * service * service)
    IN Least(Greatest(retry, floor), MaxRetry)

\* Seeded fault: the backlog is compared before the new work is added.
VerdictIgnoresOwnWork(work) ==
    CASE LoadState = "CRITICAL" -> "critical_pressure"
      [] LoadState # "CRITICAL" /\ inFlight >= MaxInFlight -> "in_flight_limit"
      [] LoadState # "CRITICAL" /\ inFlight < MaxInFlight /\ outstanding > MaxBacklog
            -> "backlog_limit"
      [] OTHER -> "admitted"

\* The order of the checks in try_acquire.
Verdict(work) ==
    CASE LoadState = "CRITICAL" -> "critical_pressure"
      [] LoadState # "CRITICAL" /\ inFlight >= MaxInFlight -> "in_flight_limit"
      [] LoadState # "CRITICAL" /\ inFlight < MaxInFlight /\ outstanding + work > MaxBacklog
            -> "backlog_limit"
      [] OTHER -> "admitted"

-----------------------------------------------------------------------------
(* AdmissionMiddleware.__call__ *)

Accepted == {size \in Sizes : Declared(size) <= MaxBytes}

\* 413 before admission: nothing is counted.
TooLarge(r) ==
    /\ ticket[r] = Absent
    /\ \E size \in Sizes : Declared(size) > MaxBytes
    /\ reply' = [status |-> 413]
    /\ UNCHANGED <<port, inFlight, outstanding, ticket, rates, rss, degraded>>

\* 429: the arrival was observed, no ticket was issued; the header is in whole seconds.
Reject(r) ==
    /\ ticket[r] = Absent
    /\ \E size \in Accepted, a \in Rates :
        LET work == EstimateWork(size) IN
        /\ Verdict(work) # "admitted"
        /\ arrival' = a
        /\ reply' = [status |-> 429, reason |-> Verdict(work),
                     retry |-> (RetryAfter(work, a) + 9) \div 10]
    /\ ReadRss
    /\ UNCHANGED <<port, inFlight, outstanding, ticket, service, latency, degraded>>

Admit(r) ==
    /\ ticket[r] = Absent
    /\ \E size \in Accepted, a \in Rates :
        LET work == EstimateWork(size) IN
        /\ Verdict(work) = "admitted"
        /\ arrival' = a
        /\ inFlight' = inFlight + 1
        /\ outstanding' = outstanding + work
        /\ ticket' = [ticket EXCEPT ![r] = work]
    /\ reply' = Absent
    /\ ReadRss
    /\ UNCHANGED <<port, service, latency, degraded>>

\* Seeded fault: the ticket is released by the error path and again by finally.
FinishTwice(r) ==
    /\ ticket[r] # Absent
    /\ ticket' = [ticket EXCEPT ![r] = Absent]
    /\ inFlight' = Greatest(0, inFlight - 2)
    /\ outstanding' = Greatest(0, outstanding - 2 * ticket[r])
    /\ service' \in Rates /\ latency' \in IF port = "go" THEN {latency} ELSE Latencies
    /\ reply' = Absent
    /\ ReadRss \/ UNCHANGED rss
    /\ UNCHANGED <<port, arrival, degraded>>

\* Seeded fault: only the counter of requests is given back.
FinishKeepsWork(r) ==
    /\ ticket[r] # Absent
    /\ ticket' = [ticket EXCEPT ![r] = Absent]
    /\ inFlight' = Greatest(0, inFlight - 1)
    /\ service' \in Rates /\ latency' \in IF port = "go" THEN {latency} ELSE Latencies
    /\ reply' = Absent
    /\ ReadRss
    /\ UNCHANGED <<port, outstanding, arrival, degraded>>

\* The application returned, raised or was cancelled: the finally clause releases the
\* ticket, and once in a while takes a snapshot, which reads the memory.
Finish(r) ==
    /\ ticket[r] # Absent
    /\ ticket' = [ticket EXCEPT ![r] = Absent]
    /\ inFlight' = Greatest(0, inFlight - 1)
    /\ outstanding' = Greatest(0, outstanding - ticket[r])
    /\ service' \in Rates /\ latency' \in IF port = "go" THEN {latency} ELSE Latencies
    /\ reply' = Absent
    /\ ReadRss \/ UNCHANGED rss
    /\ UNCHANGED <<port, arrival, degraded>>

-----------------------------------------------------------------------------
(* The environment *)

AdmissionSecond ==
    /\ port = "python" /\ rssStale' = TRUE
    /\ UNCHANGED <<port, inFlight, outstanding, ticket, reply, rates, rssHigh, rssSeen, degraded>>

Memory ==
    /\ port = "python" /\ rssHigh' = ~rssHigh
    /\ UNCHANGED <<port, inFlight, outstanding, ticket, reply, rates, rssSeen, rssStale, degraded>>

Storage ==
    /\ port = "python" /\ degraded' \in SUBSET {"authority", "cache"}
    /\ UNCHANGED <<port, inFlight, outstanding, ticket, reply, rates, rss>>

\* GET /health asks for the load state, which reads the memory (in Go, only inFlight).
Health ==
    /\ port = "python" /\ ReadRss
    /\ UNCHANGED <<port, inFlight, outstanding, ticket, reply, rates, degraded>>

Arrive == \E r \in Reqs : Reject(r) \/ Admit(r)

AdmissionNext ==
    \/ \E r \in Reqs : TooLarge(r) \/ Finish(r)
    \/ Arrive \/ Health
    \/ AdmissionSecond \/ Memory \/ Storage

AdmissionSpec == AdmissionInit /\ [][AdmissionNext]_admissionVars

\* Handlers end, time passes, and requests keep coming.
AdmissionFairSpec ==
    /\ AdmissionSpec
    /\ WF_admissionVars(AdmissionSecond) /\ WF_admissionVars(Arrive)
    /\ \A r \in Reqs : WF_admissionVars(Finish(r))

-----------------------------------------------------------------------------
(* Properties *)

Holders == {r \in Reqs : ticket[r] # Absent}

\* Every variable stays within its type.
AdmissionTypeOK ==
    /\ port \in {"python", "go"}
    /\ inFlight \in Nat /\ outstanding \in Nat
    /\ ticket \in [Reqs -> Nat \cup {Absent}]
    /\ arrival \in Rates /\ service \in Rates /\ latency \in Latencies
    /\ rssHigh \in BOOLEAN /\ rssSeen \in BOOLEAN /\ rssStale \in BOOLEAN
    /\ degraded \subseteq {"authority", "cache"}

\* The gate never lets more in than it says (module docstring: "rejects ... before a
\* queue can build up").
WithinLimits ==
    /\ inFlight = Cardinality(Holders)
    /\ inFlight <= MaxInFlight
    /\ outstanding <= MaxBacklog

\* The work counted is the work of the requests inside: nothing leaks when a handler
\* fails, and the max(0, ...) of release never hides a miscount.
WorkAccounted == outstanding = MapThenSumSet(LAMBDA r : ticket[r], Holders)

\* An empty worker turns away no body the 413 check lets through, unless memory is short.
IdleAdmits ==
    Holders = {} /\ LoadState # "CRITICAL" =>
        \A size \in Accepted : Verdict(EstimateWork(size)) = "admitted"

\* Every 429 names a wait between min and max_retry_after (module docstring: "clamped
\* to [min_retry_after, max_retry_after]") ...
RetryClamped ==
    reply # Absent /\ reply.status = 429 => 10 * reply.retry \in MinRetry..MaxRetry

\* ... and a heavier backlog or a faster arrival never names a shorter one ("Deep
\* overload must push retries further out").
RetryGrows ==
    \A size \in Sizes, a, b \in Rates :
        a <= b => RetryAfter(EstimateWork(size), a) <= RetryAfter(EstimateWork(size) + 1, b)

\* When memory is below the limit for good, the gate stops saying CRITICAL, although
\* it looks at a cached reading.
CriticalClears == <>[](~rssHigh) => <>[](LoadState # "CRITICAL")
=============================================================================
