\* One job: two progress keys, two effects, two questions and three claims.
CONSTANTS
    Jobs = {j1}
    RequestKeys = {k1}
    ProgressKeys = {e1, e2}
    EffectKeys = {f1, f2}
    Interrupts = {i1, i2}
    Payloads = {p1, p2}
    None = None
    MaxRuns = 3
    LeaseDuration = 2
SPECIFICATION Spec
SYMMETRY Symmetry
CHECK_DEADLOCK FALSE
INVARIANTS
    TypeOK
    OneOwner
    CancellationWins
    NoOrphanEffect
    EventLogIsSound
    RecordsAgree
PROPERTIES
    HistoryIsFinal
    ImplementsLifecycle
