\* The instance of MemoryExtraction.cfg, against what the decision records say of an
\* uncertain task.
CONSTANTS
    Runs = {r1}
    Signals = {g1}
    Workers = {w1, w2}
    Slots = {p1}
    None = None
    MaxAttempts = 2
    OwnerAttempts = {2}
    MaxDeliveries = 3
    LeaseDuration = 2
    Reservation = 2
    Costs = {1, 3}
    SourceLimit = 3
    DayLimit = 3
    MaxFaults = 2
SPECIFICATION Spec
CONSTRAINT FaultsOfOne
SYMMETRY ExtractionSymmetry
CHECK_DEADLOCK FALSE
INVARIANT UncertainHasExit
