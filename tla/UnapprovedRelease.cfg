\* The instance of EvalRuns.cfg. Violated: a release that nobody approved calibrates.
CONSTANTS
    r1 = r1
    v1 = v1
    v2 = v2
    qa = qa
    qc = qc
    qi = qi
    w1 = w1
    w2 = w2
    e = e
    Runs = {r1}
    Versions = {v1, v2}
    Selects <- MCSelects
    Retention <- MCRetention
    Reviewers = {e}
    None = None
    SourceBatch = 1
    Horizon = 2
    MaxRevision = 2
    Requests = {qa, qc, qi}
    Target <- MCTarget
    Workers = {w1, w2}
    CaseCount = 2
    MaxCalls = 2
    MaxCost = 2
    Reservation = 1
    Costs = {1, 2}
    MaxDeliveries = 3
    MaxRelease = 3
    Plan <- MCPlan
    Model <- MCModel
    MaxFaults = 2
SYMMETRY WorkerSymmetry
CONSTRAINT OneRequest
SPECIFICATION Spec
CHECK_DEADLOCK FALSE
INVARIANTS
    CalibratedAsApproved
