SPECIFICATION Spec
CONSTANTS
    None = None
    Object = {o1, o2, o3}
    Literal = {lit}
    Register = {r1}
    Programs <- MCPrograms
    MaxFrames = 2
    MaxLocals = 1
    MaxTemps = 1
    Width = 2
SYMMETRY Symmetry
INVARIANTS CountExact DestroyedOnce
PROPERTIES ReleasesEnd ImplementsOwnership
