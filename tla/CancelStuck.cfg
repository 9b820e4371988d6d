\* One job, one slot, one fault: the worker dies after the cancellation request.
CONSTANTS
    Jobs = {j1}
    RequestKeys = {k1}
    ProgressKeys = {}
    EffectKeys = {}
    Interrupts = {}
    Payloads = {p1}
    None = None
    MaxRuns = 3
    LeaseDuration = 1
    Dispatchers = {d1}
    BatchSize = 1
    MaxAttempts = 2
    MaxFaults = 1
    Slots = {w1}
    QueueAttempts = 3
    MaxStalledCount = 1
SPECIFICATION SystemFairSpec
CHECK_DEADLOCK FALSE
PROPERTIES
    CancellationConverges
