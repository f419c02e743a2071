-------------------------- MODULE Admission_proofs --------------------------
(* Proofs about the admission gate, for every number of connections, every  *)
(* body size and every setting.                                             *)
EXTENDS Admission, FoldTheorems

GateInv == AdmissionTypeOK /\ IsFiniteSet(Holders) /\ WithinLimits

\* try_acquire issues a ticket only below both limits.
LEMMA AdmittedFits ==
    ASSUME AdmissionTypeOK, NEW work \in Nat, Verdict(work) = "admitted"
    PROVE  inFlight < MaxInFlight /\ outstanding + work <= MaxBacklog
  <1>1. LoadState # "CRITICAL"
    BY DEF Verdict
  <1>2. ~(inFlight >= MaxInFlight)
    BY <1>1 DEF Verdict
  <1>3. inFlight < MaxInFlight
    BY <1>2, AdmissionAssumption DEF AdmissionTypeOK
  <1>4. ~(outstanding + work > MaxBacklog)
    BY <1>1, <1>3 DEF Verdict
  <1>. QED  BY <1>3, <1>4, AdmissionAssumption DEF AdmissionTypeOK

\* The work of a body is a natural number, also where Go counts one character less than
\* the base cost for a body of undeclared length.
LEMMA EstimateType ==
    ASSUME NEW size \in Sizes
    PROVE  EstimateWork(size) \in Nat
  <1>1. BaseCost \in Nat /\ PerChar \in Nat /\ PerChar <= BaseCost
    BY AdmissionAssumption, SettingsAssumption
  <1>2. CASE Declared(size) = -1
    BY <1>1, <1>2 DEF EstimateWork
  <1>3. CASE Declared(size) \in Nat
    BY <1>1, <1>3 DEF EstimateWork
  <1>4. Declared(size) = -1 \/ Declared(size) \in Nat
    BY AdmissionAssumption DEF Declared
  <1>. QED  BY <1>2, <1>3, <1>4

LEMMA GateInit == AdmissionInit => GateInv
  <1>. SUFFICES ASSUME AdmissionInit PROVE GateInv
    OBVIOUS
  <1>1. Holders = {}
    BY DEF AdmissionInit, Holders
  <1>2. IsFiniteSet(Holders) /\ Cardinality(Holders) = 0
    BY <1>1, FS_EmptySet
  <1>3. AdmissionTypeOK
    BY AdmissionAssumption DEF AdmissionInit, AdmissionTypeOK
  <1>. QED  BY <1>2, <1>3, AdmissionAssumption DEF AdmissionInit, GateInv, WithinLimits

\* A step that issues and returns no ticket.
LEMMA GateFrame ==
    ASSUME GateInv, AdmissionTypeOK', UNCHANGED <<inFlight, outstanding, ticket>>
    PROVE  GateInv'
  BY DEF GateInv, WithinLimits, Holders

LEMMA RssType == AdmissionTypeOK => RssNow \in BOOLEAN
  BY DEF AdmissionTypeOK, RssNow

LEMMA GateAdmit ==
    ASSUME GateInv, NEW r \in Reqs, Admit(r)
    PROVE  GateInv'
  <1>1. PICK size \in Accepted, a \in Rates :
            /\ Verdict(EstimateWork(size)) = "admitted"
            /\ arrival' = a
            /\ inFlight' = inFlight + 1
            /\ outstanding' = outstanding + EstimateWork(size)
            /\ ticket' = [ticket EXCEPT ![r] = EstimateWork(size)]
    BY DEF Admit
  <1>. DEFINE work == EstimateWork(size)
  <1>2. work \in Nat
    BY EstimateType DEF Accepted
  <1>. HIDE DEF work
  <1>3. inFlight < MaxInFlight /\ outstanding + work <= MaxBacklog
    BY <1>1, <1>2, AdmittedFits DEF GateInv, work
  <1>4. ticket[r] = Absent /\ r \notin Holders
    BY DEF Admit, Holders
  <1>5. Holders' = Holders \cup {r}
    BY <1>1, <1>2, <1>4, AdmissionAssumption DEF Holders, GateInv, AdmissionTypeOK, work
  <1>6. IsFiniteSet(Holders') /\ Cardinality(Holders') = Cardinality(Holders) + 1
    BY <1>4, <1>5, FS_AddElement DEF GateInv
  <1>7. AdmissionTypeOK'
    <2>1. rssHigh' \in BOOLEAN /\ rssSeen' \in BOOLEAN /\ rssStale' \in BOOLEAN
      BY RssType DEF Admit, ReadRss, rss, GateInv, AdmissionTypeOK
    <2>2. ticket' \in [Reqs -> Nat \cup {Absent}] /\ inFlight' \in Nat /\ outstanding' \in Nat
      BY <1>1, <1>2 DEF GateInv, AdmissionTypeOK, work
    <2>. QED  BY <1>1, <2>1, <2>2 DEF Admit, GateInv, AdmissionTypeOK
  <1>8. WithinLimits'
    BY <1>1, <1>3, <1>6, AdmissionAssumption DEF GateInv, AdmissionTypeOK, WithinLimits, work
  <1>. QED  BY <1>6, <1>7, <1>8 DEF GateInv

\* The finally clause gives back one request, and work that was counted.
LEMMA GateFinish ==
    ASSUME GateInv, NEW r \in Reqs, Finish(r)
    PROVE  GateInv'
  <1>1. r \in Holders /\ ticket[r] \in Nat
    BY DEF Finish, Holders, GateInv, AdmissionTypeOK
  <1>2. Holders' = Holders \ {r}
    BY <1>1 DEF Finish, Holders, GateInv, AdmissionTypeOK
  <1>3. IsFiniteSet(Holders') /\ Cardinality(Holders') = Cardinality(Holders) - 1
    BY <1>1, <1>2, FS_RemoveElement DEF GateInv
  <1>4. Cardinality(Holders') \in Nat
    BY <1>3, FS_CardinalityType
  <1>5. inFlight' = inFlight - 1
    BY <1>3, <1>4 DEF Finish, Greatest, GateInv, WithinLimits, AdmissionTypeOK
  <1>6. outstanding' \in Nat /\ outstanding' <= outstanding
    BY <1>1 DEF Finish, Greatest, GateInv, AdmissionTypeOK
  <1>7. AdmissionTypeOK'
    <2>1. rssHigh' \in BOOLEAN /\ rssSeen' \in BOOLEAN /\ rssStale' \in BOOLEAN
      BY RssType DEF Finish, ReadRss, rss, GateInv, AdmissionTypeOK
    <2>2. ticket' \in [Reqs -> Nat \cup {Absent}]
      BY DEF Finish, GateInv, AdmissionTypeOK
    <2>3. inFlight' \in Nat
      BY <1>3, <1>4, <1>5 DEF GateInv, WithinLimits
    <2>. QED  BY <1>6, <2>1, <2>2, <2>3 DEF Finish, GateInv, AdmissionTypeOK
  <1>8. WithinLimits'
    BY <1>3, <1>5, <1>6, AdmissionAssumption DEF GateInv, AdmissionTypeOK, WithinLimits
  <1>. QED  BY <1>3, <1>7, <1>8 DEF GateInv

LEMMA GateStep == GateInv /\ [AdmissionNext]_admissionVars => GateInv'
  <1>. SUFFICES ASSUME GateInv, [AdmissionNext]_admissionVars
                PROVE  GateInv'
    OBVIOUS
  <1>1. ASSUME NEW r \in Reqs, TooLarge(r)
        PROVE  GateInv'
    BY <1>1, GateFrame DEF TooLarge, rates, rss, GateInv, AdmissionTypeOK
  <1>2. ASSUME NEW r \in Reqs, Reject(r)
        PROVE  GateInv'
    <2>1. AdmissionTypeOK'
      BY <1>2, RssType DEF Reject, ReadRss, rss, GateInv, AdmissionTypeOK
    <2>. QED  BY <1>2, <2>1, GateFrame DEF Reject
  <1>3. ASSUME AdmissionSecond \/ Memory \/ Storage \/ Health
        PROVE  GateInv'
    <2>1. rssHigh' \in BOOLEAN /\ rssSeen' \in BOOLEAN /\ rssStale' \in BOOLEAN
      BY <1>3, RssType DEF AdmissionSecond, Memory, Storage, Health, ReadRss, rss, GateInv, AdmissionTypeOK
    <2>2. AdmissionTypeOK'
      BY <1>3, <2>1 DEF AdmissionSecond, Memory, Storage, Health, rates, GateInv, AdmissionTypeOK
    <2>. QED  BY <1>3, <2>2, GateFrame DEF AdmissionSecond, Memory, Storage, Health
  <1>4. ASSUME UNCHANGED admissionVars
        PROVE  GateInv'
    BY <1>4, GateFrame DEF admissionVars, GateInv, AdmissionTypeOK
  <1>. QED  BY <1>1, <1>2, <1>3, <1>4, GateAdmit, GateFinish DEF AdmissionNext, Arrive

\* However requests interleave, end and fail, the gate holds as many tickets as it
\* counts and stays within both limits.
THEOREM GateWithinLimits == AdmissionSpec => []WithinLimits
  <1>1. GateInv => WithinLimits
    BY DEF GateInv
  <1>. QED  BY <1>1, GateInit, GateStep, PTL DEF AdmissionSpec

-----------------------------------------------------------------------------
(* The work counted *)

LEMMA WorkIsSum == WorkAccounted <=> outstanding = SumOf(ticket, Holders)
  BY DEF WorkAccounted, SumOf, MapThenSumSet, MapThenFoldSet

LEMMA HolderWork == AdmissionTypeOK => \A r \in Holders : ticket[r] \in Nat
  BY DEF AdmissionTypeOK, Holders

LEMMA WorkInit == AdmissionInit => WorkAccounted
  <1>. SUFFICES ASSUME AdmissionInit PROVE outstanding = SumOf(ticket, Holders)
    BY WorkIsSum
  <1>1. Holders = {}
    BY DEF AdmissionInit, Holders
  <1>. QED  BY <1>1, SumEmpty DEF AdmissionInit

LEMMA WorkAdmit ==
    ASSUME GateInv, WorkAccounted, NEW r \in Reqs, Admit(r)
    PROVE  WorkAccounted'
  <1>1. PICK work \in Nat : outstanding' = outstanding + work
                            /\ ticket' = [ticket EXCEPT ![r] = work]
    BY EstimateType DEF Admit, Accepted
  <1>2. r \notin Holders /\ r \in Holders' /\ Holders' \ {r} = Holders
    BY <1>1, AdmissionAssumption DEF Admit, Holders, GateInv, AdmissionTypeOK
  <1>3. /\ \A x \in Holders : ticket[x] \in Nat /\ ticket'[x] = ticket[x]
        /\ \A x \in Holders' : ticket'[x] \in Nat
        /\ ticket'[r] = work
    BY <1>1, <1>2, HolderWork DEF GateInv, AdmissionTypeOK, Holders
  <1>4. SumOf(ticket', Holders) = SumOf(ticket, Holders)
    BY <1>3, SumSame DEF GateInv
  <1>5. IsFiniteSet(Holders')
    BY GateAdmit DEF GateInv
  <1>6. SumOf(ticket', Holders') = ticket'[r] + SumOf(ticket', Holders' \ {r})
    BY <1>2, <1>3, <1>5, SumRemove
  <1>7. outstanding \in Nat /\ outstanding = SumOf(ticket, Holders)
    BY WorkIsSum DEF GateInv, AdmissionTypeOK
  <1>8. outstanding' = SumOf(ticket', Holders')
    BY <1>1, <1>2, <1>3, <1>4, <1>6, <1>7
  <1>. QED  BY <1>8 DEF WorkAccounted, SumOf, MapThenSumSet, MapThenFoldSet

\* Because the work given back is part of the work counted, max(0, ...) returns its
\* second argument.
LEMMA WorkFinish ==
    ASSUME GateInv, WorkAccounted, NEW r \in Reqs, Finish(r)
    PROVE  WorkAccounted'
  <1>1. r \in Holders /\ ticket[r] \in Nat
    BY DEF Finish, Holders, GateInv, AdmissionTypeOK
  <1>2. Holders' = Holders \ {r}
    BY <1>1 DEF Finish, Holders, GateInv, AdmissionTypeOK
  <1>3. \A x \in Holders \ {r} : ticket[x] \in Nat /\ ticket'[x] = ticket[x]
    BY HolderWork DEF Finish, GateInv, AdmissionTypeOK, Holders
  <1>4. IsFiniteSet(Holders \ {r})
    BY FS_RemoveElement DEF GateInv
  <1>5. SumOf(ticket, Holders) = ticket[r] + SumOf(ticket, Holders \ {r})
    BY <1>1, HolderWork, SumRemove DEF GateInv
  <1>6. SumOf(ticket, Holders \ {r}) \in Nat
    BY <1>3, <1>4, SumNat
  <1>7. SumOf(ticket', Holders \ {r}) = SumOf(ticket, Holders \ {r})
    BY <1>3, <1>4, SumSame
  <1>8. outstanding = SumOf(ticket, Holders) /\ outstanding' = Greatest(0, outstanding - ticket[r])
    BY WorkIsSum DEF Finish
  <1>9. outstanding' = SumOf(ticket', Holders')
    BY <1>1, <1>2, <1>5, <1>6, <1>7, <1>8 DEF Greatest
  <1>. QED  BY <1>9 DEF WorkAccounted, SumOf, MapThenSumSet, MapThenFoldSet

\* However handlers end, fail or are cancelled, the work counted is the work of the
\* requests inside the application, and the max(0, ...) of release never hides a
\* miscount.
THEOREM GateCountsWork == AdmissionSpec => []WorkAccounted
  <1>1. GateInv /\ WorkAccounted /\ [AdmissionNext]_admissionVars => WorkAccounted'
    <2>. SUFFICES ASSUME GateInv, WorkAccounted, [AdmissionNext]_admissionVars
                  PROVE  WorkAccounted'
      OBVIOUS
    <2>1. ASSUME UNCHANGED <<outstanding, ticket>>
          PROVE  WorkAccounted'
      <3>1. outstanding = SumOf(ticket, Holders)
        BY WorkIsSum
      <3>2. outstanding' = SumOf(ticket', Holders')
        BY <2>1, <3>1 DEF Holders
      <3>. QED  BY <3>2 DEF WorkAccounted, SumOf, MapThenSumSet, MapThenFoldSet
    <2>2. ASSUME NEW r \in Reqs, TooLarge(r) \/ Reject(r)
          PROVE  WorkAccounted'
      BY <2>1, <2>2 DEF TooLarge, Reject
    <2>3. ASSUME AdmissionSecond \/ Memory \/ Storage \/ Health \/ UNCHANGED admissionVars
          PROVE  WorkAccounted'
      BY <2>1, <2>3 DEF AdmissionSecond, Memory, Storage, Health, admissionVars
    <2>. QED  BY <2>2, <2>3, WorkAdmit, WorkFinish DEF AdmissionNext, Arrive
  <1>. QED  BY <1>1, WorkInit, GateInit, GateStep, PTL DEF AdmissionSpec

\* A worker with no request inside admits every body the 413 check lets through,
\* unless memory is short: no leaked ticket or work can wedge the gate.
THEOREM GateIdleAdmits == AdmissionSpec => []IdleAdmits
  <1>1. GateInv /\ WorkAccounted => IdleAdmits
    <2>. SUFFICES ASSUME GateInv, WorkAccounted, Holders = {}, LoadState # "CRITICAL",
                         NEW size \in Accepted
                  PROVE  Verdict(EstimateWork(size)) = "admitted"
      BY DEF IdleAdmits
    <2>1. inFlight = 0
      BY FS_EmptySet DEF GateInv, WithinLimits
    <2>2. outstanding = 0
      BY WorkIsSum, SumEmpty
    <2>3. EstimateWork(size) \in Nat /\ EstimateWork(size) <= MaxBacklog
      <3>1. size \in Sizes /\ Declared(size) <= MaxBytes
        BY DEF Accepted
      <3>2. EstimateWork(size) \in Nat
        BY <3>1, EstimateType
      <3>3. Declared(size) \in Int
        BY <3>1, AdmissionAssumption DEF Declared
      <3>4. PerChar * Declared(size) <= PerChar * MaxBytes
        <4>. DEFINE d == Declared(size)
        <4>1. d \in Int /\ d <= MaxBytes /\ PerChar \in Nat /\ MaxBytes \in Nat
          BY <3>1, <3>3, AdmissionAssumption
        <4>. HIDE DEF d
        <4>2. PerChar * d <= PerChar * MaxBytes
          BY <4>1, SMTT(30)
        <4>. QED  BY <4>2 DEF d
      <3>. QED  BY <3>2, <3>3, <3>4, AdmissionAssumption, SettingsAssumption DEF EstimateWork
    <2>. QED  BY <2>1, <2>2, <2>3, AdmissionAssumption, SettingsAssumption DEF Verdict
  <1>. QED  BY <1>1, GateInit, GateStep, GateCountsWork, PTL DEF AdmissionSpec

-----------------------------------------------------------------------------
(* Retry-After *)

LEMMA DivAtLeast ==
    ASSUME NEW x \in Nat, NEW d \in Nat \ {0}, NEW n \in Nat, n * d <= x
    PROVE  x \div d \in Nat /\ x \div d >= n
  <1>1. x \div d \in Nat
    OBVIOUS
  <1>2. x < (x \div d) * d + d
    BY SMTT(30)
  <1>3. ASSUME x \div d < n PROVE FALSE
    <2>. DEFINE q == x \div d
    <2>1. q \in Nat /\ q + 1 <= n
      BY <1>1, <1>3
    <2>. HIDE DEF q
    <2>2. (q + 1) * d <= n * d
      BY <2>1, SMTT(30)
    <2>3. (q + 1) * d = q * d + d /\ q * d \in Nat /\ n * d \in Nat
      BY <2>1
    <2>. QED  BY <1>2, <2>2, <2>3 DEF q
  <1>. QED  BY <1>1, <1>3

\* A quotient is rounded to a natural number, and to at least n when it is at least n.
LEMMA RoundDivAtLeast ==
    ASSUME NEW a \in Nat, NEW b \in Nat \ {0}, NEW n \in Nat, a >= n * b
    PROVE  RoundDiv(a, b) \in Nat /\ RoundDiv(a, b) >= n
  <1>. DEFINE d == 2 * b
              x == 2 * a + b
  <1>1. d \in Nat \ {0} /\ x \in Nat
    OBVIOUS
  <1>2. n * d <= x
    <2>1. n * d = 2 * (n * b) /\ n * b \in Nat
      OBVIOUS
    <2>. HIDE DEF d
    <2>. QED  BY <2>1
  <1>. HIDE DEF d, x
  <1>3. x \div d \in Nat /\ x \div d >= n
    BY <1>1, <1>2, DivAtLeast
  <1>. QED  BY <1>3 DEF RoundDiv, x, d

LEMMA RoundDivNat ==
    ASSUME NEW a \in Nat, NEW b \in Nat \ {0}
    PROVE  RoundDiv(a, b) \in Nat
  <1>1. a >= 0 * b
    OBVIOUS
  <1>. QED  BY <1>1, RoundDivAtLeast

\* Rounding keeps the order of the quotients.
LEMMA RoundDivGrows ==
    ASSUME NEW a \in Nat, NEW c \in Nat, a <= c, NEW b \in Nat \ {0}
    PROVE  RoundDiv(a, b) <= RoundDiv(c, b)
  <1>. DEFINE d == 2 * b
              x == 2 * a + b
              y == 2 * c + b
  <1>1. d \in Nat \ {0} /\ x \in Nat /\ y \in Nat /\ x <= y
    OBVIOUS
  <1>. HIDE DEF d, x, y
  <1>2. x \div d \in Nat
    BY <1>1
  <1>3. (x \div d) * d <= x
    BY <1>1, SMTT(30)
  <1>. DEFINE q == x \div d
  <1>4. q \in Nat /\ q * d \in Nat /\ q * d <= y
    <2>1. q * d <= x /\ q \in Nat
      BY <1>2, <1>3
    <2>. HIDE DEF q
    <2>. QED  BY <1>1, <2>1
  <1>. HIDE DEF q
  <1>5. y \div d >= q
    BY <1>1, <1>4, DivAtLeast
  <1>6. y \div d \in Nat
    BY <1>1
  <1>. QED  BY <1>4, <1>5, <1>6 DEF RoundDiv, q, x, y, d

\* The floor grows with the pressure but stays below a third of the ceiling, so that the
\* clamp never turns around.
LEMMA RetryInRange ==
    ASSUME AdmissionTypeOK, NEW work \in Nat, NEW a \in Rates
    PROVE  RetryAfter(work, a) \in MinRetry..MaxRetry
  <1>. DEFINE modifier == IF "authority" \in degraded THEN 2 ELSE 1
              scaled == RoundDiv(MinRetry * Greatest(2 * service, a), 2 * service)
              floor == Least(IF service = 0 THEN MinRetry ELSE scaled, MaxRetry \div 3)
              retry == IF service = 0 THEN RoundDiv(Greatest(latency, MinRetry) * 3 * modifier, 2)
                       ELSE RoundDiv(10 * (outstanding + work) * Greatest(service, a) * 3 * modifier,
                                     2 * service * service)
  <1>1. /\ MinRetry \in Nat /\ MaxRetry \in Nat /\ a \in Nat /\ service \in Nat /\ latency \in Nat
        /\ outstanding \in Nat
    BY AdmissionAssumption DEF AdmissionTypeOK
  <1>2. MaxRetry \div 3 \in Nat /\ MaxRetry \div 3 >= MinRetry /\ MaxRetry \div 3 <= MaxRetry
    BY <1>1, SettingsAssumption
  <1>3. ASSUME service # 0 PROVE scaled \in Nat /\ scaled >= MinRetry
    <2>. DEFINE g == Greatest(2 * service, a)
                b == 2 * service
    <2>1. g \in Nat /\ b \in Nat \ {0} /\ g >= b
      BY <1>1, <1>3 DEF Greatest
    <2>. HIDE DEF g, b
    <2>2. MinRetry * g \in Nat /\ MinRetry * g >= MinRetry * b
      BY <1>1, <2>1, SMTT(30)
    <2>3. RoundDiv(MinRetry * g, b) \in Nat /\ RoundDiv(MinRetry * g, b) >= MinRetry
      BY <1>1, <2>1, <2>2, RoundDivAtLeast
    <2>. QED  BY <2>3 DEF g, b
  <1>4. floor \in Nat /\ floor >= MinRetry /\ floor <= MaxRetry
    <2>. DEFINE third == MaxRetry \div 3
                low == IF service = 0 THEN MinRetry ELSE scaled
    <2>1. low \in Nat /\ low >= MinRetry
      <3>. HIDE DEF scaled
      <3>. QED  BY <1>1, <1>3
    <2>2. third \in Nat /\ third >= MinRetry /\ third <= MaxRetry
      BY <1>2
    <2>. HIDE DEF third, low
    <2>3. Least(low, third) \in Nat /\ Least(low, third) >= MinRetry /\ Least(low, third) <= MaxRetry
      BY <1>1, <2>1, <2>2 DEF Least
    <2>. QED  BY <2>3 DEF low, third
  <1>5. modifier \in {1, 2}
    OBVIOUS
  <1>6. retry \in Nat
    <2>1. CASE service = 0
      <3>. DEFINE l == Greatest(latency, MinRetry)
      <3>1. l \in Nat
        BY <1>1 DEF Greatest
      <3>. HIDE DEF l
      <3>2. l * 3 * modifier \in Nat /\ l * 3 * modifier >= 0 * 2
        BY <1>5, <3>1
      <3>. HIDE DEF modifier
      <3>3. RoundDiv(l * 3 * modifier, 2) \in Nat
        BY <3>2, RoundDivAtLeast
      <3>. QED  BY <2>1, <3>3 DEF l
    <2>2. CASE service # 0
      <3>. DEFINE g == Greatest(service, a)
                  u == outstanding + work
      <3>1. g \in Nat /\ u \in Nat
        BY <1>1 DEF Greatest
      <3>. HIDE DEF g, u
      <3>2. 10 * u * g \in Nat
        BY <3>1
      <3>3. 10 * u * g * 3 * modifier \in Nat
        BY <1>5, <3>2
      <3>4. 2 * service * service \in Nat \ {0}
        BY <1>1, <2>2, SMTT(30)
      <3>. DEFINE x == 10 * u * g * 3 * modifier
                  b == 2 * service * service
      <3>. HIDE DEF x, b
      <3>5. RoundDiv(x, b) \in Nat
        <4>1. x \in Nat /\ b \in Nat \ {0} /\ x >= 0 * b
          BY <3>3, <3>4 DEF x, b
        <4>. QED  BY <4>1, RoundDivAtLeast
      <3>. QED  BY <2>2, <3>5 DEF x, b, g, u
    <2>. QED  BY <2>1, <2>2
  <1>7. RetryAfter(work, a) = Least(Greatest(retry, floor), MaxRetry)
    BY DEF RetryAfter
  <1>. HIDE DEF retry, floor
  <1>. QED  BY <1>1, <1>4, <1>6, <1>7 DEF Least, Greatest

\* Whatever the rates, the latency and the backlog, every 429 names a wait between the
\* configured ends, also after it is rounded up to whole seconds.
THEOREM RetryWithinRange == AdmissionSpec => []RetryClamped
  <1>1. AdmissionInit => RetryClamped
    BY DEF AdmissionInit, RetryClamped
  <1>2. GateInv /\ RetryClamped /\ [AdmissionNext]_admissionVars => RetryClamped'
    <2>. SUFFICES ASSUME GateInv, RetryClamped, [AdmissionNext]_admissionVars
                  PROVE  RetryClamped'
      OBVIOUS
    <2>1. ASSUME NEW r \in Reqs, TooLarge(r)
          PROVE  RetryClamped'
      BY <2>1 DEF TooLarge, RetryClamped
    <2>2. ASSUME NEW r \in Reqs, Reject(r)
          PROVE  RetryClamped'
      <3>1. PICK size \in Accepted, a \in Rates :
                reply' = [status |-> 429, reason |-> Verdict(EstimateWork(size)),
                          retry |-> (RetryAfter(EstimateWork(size), a) + 9) \div 10]
        BY <2>2 DEF Reject
      <3>2. RetryAfter(EstimateWork(size), a) \in MinRetry..MaxRetry
        BY EstimateType, RetryInRange DEF Accepted, GateInv
      <3>3. 10 * reply'.retry \in MinRetry..MaxRetry
        BY <3>1, <3>2, AdmissionAssumption, SettingsAssumption
      <3>. QED  BY <3>3 DEF RetryClamped
    <2>3. ASSUME NEW r \in Reqs, Admit(r) \/ Finish(r)
          PROVE  RetryClamped'
      BY <2>3 DEF Admit, Finish, RetryClamped
    <2>4. ASSUME AdmissionSecond \/ Memory \/ Storage \/ Health \/ UNCHANGED admissionVars
          PROVE  RetryClamped'
      BY <2>4 DEF AdmissionSecond, Memory, Storage, Health, admissionVars, RetryClamped
    <2>. QED  BY <2>1, <2>2, <2>3, <2>4 DEF AdmissionNext, Arrive
  <1>. QED  BY <1>1, <1>2, GateInit, GateStep, PTL DEF AdmissionSpec

\* The clamp keeps the order of what it clamps.
LEMMA ClampGrows ==
    ASSUME NEW x \in Nat, NEW y \in Nat, x <= y, NEW f \in Nat, NEW g \in Nat, f <= g, NEW m \in Nat
    PROVE  Least(Greatest(x, Least(f, m \div 3)), m) <= Least(Greatest(y, Least(g, m \div 3)), m)
  <1>1. m \div 3 \in Nat
    OBVIOUS
  <1>. QED  BY <1>1 DEF Least, Greatest

LEMMA GreatestGrows ==
    ASSUME NEW c \in Nat, NEW a \in Nat, NEW b \in Nat, a <= b
    PROVE  Greatest(c, a) \in Nat /\ Greatest(c, b) \in Nat /\ Greatest(c, a) <= Greatest(c, b)
  BY DEF Greatest

LEMMA TimesGrows ==
    ASSUME NEW x \in Nat, NEW y \in Nat, x <= y, NEW u \in Nat, NEW v \in Nat, u <= v
    PROVE  x * u \in Nat /\ y * v \in Nat /\ x * u <= y * v
  <1>1. x * u <= y * u
    BY SMTT(30)
  <1>2. y * u <= y * v
    BY SMTT(30)
  <1>3. x * u \in Nat /\ y * u \in Nat /\ y * v \in Nat
    OBVIOUS
  <1>. QED  BY <1>1, <1>2, <1>3

\* More waiting work and a faster arrival: neither ever shortens the wait.
LEMMA RetryOrdered ==
    ASSUME AdmissionTypeOK, NEW v \in Nat, NEW w \in Nat, v <= w, NEW a \in Rates, NEW b \in Rates, a <= b
    PROVE  RetryAfter(v, a) <= RetryAfter(w, b)
  <1>. DEFINE modifier == IF "authority" \in degraded THEN 2 ELSE 1
  <1>1. /\ MinRetry \in Nat /\ MaxRetry \in Nat /\ a \in Nat /\ b \in Nat /\ service \in Nat
        /\ latency \in Nat /\ outstanding \in Nat /\ modifier \in Nat
    BY AdmissionAssumption DEF AdmissionTypeOK
  <1>2. CASE service = 0
    <2>1. RetryAfter(v, a) = RetryAfter(w, b)
      BY <1>2 DEF RetryAfter
    <2>2. RetryAfter(v, a) \in Int
      BY <1>1, RetryInRange
    <2>. QED  BY <2>1, <2>2
  <1>3. CASE service # 0
    <2>. DEFINE Low(r) == RoundDiv(MinRetry * Greatest(2 * service, r), 2 * service)
                Wait(work, r) == RoundDiv(10 * (outstanding + work) * Greatest(service, r) * 3 * modifier,
                                          2 * service * service)
    <2>1. Low(a) \in Nat /\ Low(b) \in Nat /\ Low(a) <= Low(b)
      <3>. DEFINE d == 2 * service
                  x == MinRetry * Greatest(d, a)
                  y == MinRetry * Greatest(d, b)
      <3>1. d \in Nat \ {0}
        BY <1>1, <1>3
      <3>2. x \in Nat /\ y \in Nat /\ x <= y
        <4>. HIDE DEF d
        <4>1. /\ Greatest(d, a) \in Nat /\ Greatest(d, b) \in Nat
              /\ Greatest(d, a) <= Greatest(d, b)
          BY <1>1, <3>1, GreatestGrows
        <4>. DEFINE g == Greatest(d, a)
                    h == Greatest(d, b)
        <4>2. g \in Nat /\ h \in Nat /\ g <= h
          BY <4>1
        <4>. HIDE DEF g, h
        <4>3. MinRetry * g \in Nat /\ MinRetry * h \in Nat /\ MinRetry * g <= MinRetry * h
          BY <1>1, <4>2, SMTT(30)
        <4>. QED  BY <4>3 DEF g, h
      <3>. HIDE DEF d, x, y
      <3>3. RoundDiv(x, d) <= RoundDiv(y, d)
        BY <3>1, <3>2, RoundDivGrows
      <3>4. RoundDiv(x, d) \in Nat /\ RoundDiv(y, d) \in Nat
        BY <3>1, <3>2, RoundDivNat
      <3>. QED  BY <3>3, <3>4 DEF d, x, y
    <2>2. Wait(v, a) \in Nat /\ Wait(w, b) \in Nat /\ Wait(v, a) <= Wait(w, b)
      <3>. DEFINE s == 10 * (outstanding + v)
                  t == 10 * (outstanding + w)
                  g == Greatest(service, a)
                  h == Greatest(service, b)
                  d == 2 * service * service
      <3>1. s \in Nat /\ t \in Nat /\ s <= t
        BY <1>1
      <3>2. g \in Nat /\ h \in Nat /\ g <= h
        BY <1>1, GreatestGrows
      <3>3. d \in Nat \ {0}
        BY <1>1, <1>3, SMTT(30)
      <3>. HIDE DEF s, t, g, h, d, modifier
      <3>4. s * g \in Nat /\ t * h \in Nat /\ s * g <= t * h
        BY <3>1, <3>2, TimesGrows
      <3>5. (s * g) * 3 \in Nat /\ (t * h) * 3 \in Nat /\ (s * g) * 3 <= (t * h) * 3
        BY <3>4
      <3>. DEFINE x == s * g * 3 * modifier
                  y == t * h * 3 * modifier
      <3>6. x \in Nat /\ y \in Nat /\ x <= y
        BY <1>1, <3>5, TimesGrows
      <3>. HIDE DEF x, y
      <3>7. RoundDiv(x, d) <= RoundDiv(y, d)
        BY <3>3, <3>6, RoundDivGrows
      <3>8. RoundDiv(x, d) \in Nat /\ RoundDiv(y, d) \in Nat
        BY <3>3, <3>6, RoundDivNat
      <3>. QED  BY <3>7, <3>8 DEF x, y, d, s, t, g, h
    <2>3. /\ RetryAfter(v, a) = Least(Greatest(Wait(v, a), Least(Low(a), MaxRetry \div 3)), MaxRetry)
          /\ RetryAfter(w, b) = Least(Greatest(Wait(w, b), Least(Low(b), MaxRetry \div 3)), MaxRetry)
      BY <1>3 DEF RetryAfter
    <2>. HIDE DEF Low, Wait
    <2>. QED  BY <1>1, <2>1, <2>2, <2>3, ClampGrows
  <1>. QED  BY <1>2, <1>3

\* Whatever the measured rates, a heavier body or a faster arrival never names a
\* shorter wait.
THEOREM RetryNeverShrinks == AdmissionSpec => []RetryGrows
  <1>1. GateInv => RetryGrows
    <2>. SUFFICES ASSUME GateInv, NEW size \in Sizes, NEW a \in Rates, NEW b \in Rates, a <= b
                  PROVE  RetryAfter(EstimateWork(size), a) <= RetryAfter(EstimateWork(size) + 1, b)
      BY DEF RetryGrows
    <2>. DEFINE v == EstimateWork(size)
    <2>1. v \in Nat /\ v + 1 \in Nat /\ v <= v + 1
      BY EstimateType
    <2>. HIDE DEF v
    <2>2. RetryAfter(v, a) <= RetryAfter(v + 1, b)
      BY <2>1, RetryOrdered DEF GateInv
    <2>. QED  BY <2>2 DEF v
  <1>. QED  BY <1>1, GateInit, GateStep, PTL DEF AdmissionSpec
=============================================================================
