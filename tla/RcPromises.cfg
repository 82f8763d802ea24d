SPECIFICATION FairSpec
CONSTANTS
    None = None
    Charge <- MCCharge
    Object = {o1, o2}
    Literal = {lit}
    Register = {r1}
    Frame = {f1, f2}
    Chunk = {c1, c2}
    ChunkSlots = 2
    CacheBytes = 4
    GrowAt = {0, 2}
    StackOwners = 8
    MaxCount = 2
    MaxLocals = 1
    MaxWidth = 1
    Programs <- PromisePrograms
PROPERTIES ImplementsOwnership CleanupProgresses
