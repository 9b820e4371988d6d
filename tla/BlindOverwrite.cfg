\* The instance of MemoryStore.cfg, against what ADR-0038 says.
CONSTANTS
    r1 = r1
    r2 = r2
    g1 = g1
    k1 = k1
    c1 = c1
    c2 = c2
    c3 = c3
    o = o
    e = e
    Runs = {r1, r2}
    Signals = {g1}
    Slots = {k1}
    Contents = {c1, c2, c3}
    Kind <- MCKind
    Proposes <- MCProposes
    Reviewers = {o, e}
    Owners = {o}
    None = None
    Retention = {1, 2}
    Batch = 1
    Horizon = 2
    MaxMemories = 2
SPECIFICATION Spec
CHECK_DEADLOCK FALSE
INVARIANT
    NoBlindOverwrite
