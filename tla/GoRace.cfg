SPECIFICATION Spec
CONSTANTS
    None = None
    Ids = {i1}
    Payloads = {"a", "b", "n", "a1", "b1"}
    Inputs = {"a", "b", "n", "a1"}
    Reqs = {r1, r2}
    BuildTransform <- MCBuildTransform
    HasPii <- MCHasPii
    Trace <- MCTrace
    FuzzyDemask <- MCFuzzyDemask
    TTL = 2
    Grace = 1
    BackfillTTL = 1
    MaxClock = 3
    MaxRequests = 3
CHECK_DEADLOCK FALSE
SYMMETRY ReqSymmetry
INVARIANTS
    GoMaskPersisted
