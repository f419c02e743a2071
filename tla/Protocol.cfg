SPECIFICATION Spec
CONSTANTS
    None = None
    c1 = c1
    c2 = c2
    c3 = c3
    r1 = r1
    r2 = r2
    w1 = w1
    w2 = w2
    Ids = {i1}
    Payloads = {"a", "n", "a1", "a2"}
    Inputs = {"a", "n", "a1"}
    Consumers = {c1, c2, c3}
    Enabled = {c1, c2}
    Demasking = {c1}
    Workers = {w1}
    Reqs = {r1, r2}
    WorkerOf <- OneWorker
    Pipeline <- MCPipeline
    HasPii <- MCHasPii
    Trace <- MCTrace
    Fuzzy <- MCFuzzy
    TTL = 2
    Grace = 1
    BatchLimit = 2
    MaxClock = 2
    MaxRequests = 3
CHECK_DEADLOCK FALSE
INVARIANTS
    TypeOK
    AnswersJustified
    Durable
SYMMETRY ReqSymmetry
PROPERTIES
    ImplementsLifecycle
