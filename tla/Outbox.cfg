\* Two rows, two dispatchers, a batch of two, one fault more than attempts.
CONSTANTS
    Events = {o1, o2}
    Dispatchers = {d1, d2}
    BatchSize = 2
    MaxAttempts = 2
    MaxFaults = 3
SPECIFICATION FairSpec
CHECK_DEADLOCK FALSE
INVARIANTS
    RowsAreSound
PROPERTIES
    LateCallsAreHarmless
    EventuallyPublished
