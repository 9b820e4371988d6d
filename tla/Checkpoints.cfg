\* One job, three runs, two checkpoints, one task, two graph versions.
CONSTANTS
    Jobs = {j1}
    RequestKeys = {k1}
    ProgressKeys = {}
    EffectKeys = {}
    Interrupts = {i1}
    Payloads = {p1}
    None = None
    MaxRuns = 3
    LeaseDuration = 1
    GraphVersions = {g1, g2}
    MaxCheckpoint = 2
    Tasks = {t1}
SPECIFICATION CheckpointSpec
SYMMETRY CheckpointSymmetry
CHECK_DEADLOCK FALSE
INVARIANTS
    CheckpointsAreConsistent
    ConfirmedWorkSurvives
PROPERTIES
    RecoveryPointIsFenced
