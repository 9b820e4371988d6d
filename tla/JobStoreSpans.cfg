\* One job, one effect, one run: the run completes with its call still open.
CONSTANTS
    Jobs = {j1}
    RequestKeys = {k1}
    ProgressKeys = {e1}
    EffectKeys = {f1}
    Interrupts = {i1}
    Payloads = {p1}
    None = None
    MaxRuns = 2
    LeaseDuration = 1
SPECIFICATION Spec
CHECK_DEADLOCK FALSE
INVARIANT
    NoRunningSpanUnderTerminalRun
