\* One job with one question, two slots, one dispatcher, two faults of any kind.
CONSTANTS
    Jobs = {j1}
    RequestKeys = {k1}
    ProgressKeys = {}
    EffectKeys = {}
    Interrupts = {i1}
    Payloads = {p1}
    None = None
    MaxRuns = 4
    LeaseDuration = 1
    Dispatchers = {d1}
    BatchSize = 1
    MaxAttempts = 2
    MaxFaults = 2
    Slots = {w1, w2}
    QueueAttempts = 3
    MaxStalledCount = 1
SPECIFICATION SystemFairSpec
CHECK_DEADLOCK FALSE
INVARIANTS
    SystemIsConsistent
    UnfinishedJobHasDelivery
PROPERTIES
    DeliveredJobConcludes
