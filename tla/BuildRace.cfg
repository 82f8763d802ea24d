SPECIFICATION Spec
CONSTANTS
    None = None
    Corrupt = Corrupt
    e = e
    a = a
    b = b
    c1 = c1
    c2 = c2
    Modules = {e, a, b}
    Entry = e
    Builders = {p1, p2}
    Texts <- FewEdits
    Compilers = {c1, c2}
    ImageHash <- Colliding
    Policies = {0}
    Slots = 2
    MaxEdits = 2
    MaxBuilds = 3
    MaxLosses = 1
SYMMETRY Symmetry
INVARIANTS OutputSound CacheHonest RunsWhatItNames
CHECK_DEADLOCK FALSE
