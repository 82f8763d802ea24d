SPECIFICATION Spec
CONSTANTS
    None = None
    Charge <- MCCharge
    Object = {o1, o2, o3}
    Literal = {lit}
    Register = {r1, r2}
    Frame = {f1}
    Chunk = {}
    ChunkSlots = 2
    CacheBytes = 4
    GrowAt = {0, 2}
    StackOwners = 8
    MaxCount = 2
    MaxLocals = 1
    MaxWidth = 2
    Programs <- ValuePrograms
SYMMETRY Symmetry
INVARIANTS CountExact QueuesExact OperandsSafe NothingLeaks
