SPECIFICATION Spec
CONSTANTS
    None = None
    Charge <- MCCharge
    Object = {o1, o2}
    Literal = {}
    Register = {r1}
    Frame = {f1, f2, f3}
    Chunk = {c1, c2}
    ChunkSlots = 2
    CacheBytes = 7
    GrowAt = {0, 2}
    StackOwners = 8
    MaxCount = 3
    MaxLocals = 2
    MaxWidth = 1
    Programs <- FramePrograms
SYMMETRY Symmetry
INVARIANTS CountExact FramesExact
