SPECIFICATION GuardsFairSpec
CONSTANTS
    Threads = {t1, t2, t3}
    Threshold = 3
    Cooldown = 2
    None = None
    Reqs = {q1, q2, q3}
    Sizes = {0, 3, 9, Absent}
    MaxBytes = 5
    MaxInFlight = 2
    MaxBacklog = 7
    BaseCost = 2
    PerChar = 1
    MinRetry = 10
    MaxRetry = 300
    Rates = {0, 1, 8}
    Latencies = {0, 40}
    Absent = Absent
INVARIANTS
    OpenedByStreak
    WithinLimits
    WorkAccounted
    IdleAdmits
    RetryClamped
    RetryGrows
PROPERTIES
    FailFast
    Recovers
    OutageNoticed
    CriticalClears
