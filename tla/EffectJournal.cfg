\* One job, three runs, one key with two different requests, two faults.
CONSTANTS
    Jobs = {j1}
    RequestKeys = {k1}
    ProgressKeys = {}
    EffectKeys = {f1}
    Interrupts = {i1}
    Payloads = {p1, p2}
    None = None
    MaxRuns = 3
    LeaseDuration = 1
    MaxFaults = 2
SPECIFICATION JournalSpec
SYMMETRY JournalSymmetry
CHECK_DEADLOCK FALSE
INVARIANTS
    JournalIsConsistent
    ProviderAskedOnce
