SPECIFICATION Spec
CONSTANTS
    None = None
    Corrupt = Corrupt
    e = e
    a = a
    b = b
    c1 = c1
    c2 = c2
    Modules = {e, a, b}
    Entry = e
    Builders = {p1}
    Texts <- EveryEdit
    Compilers = {c1}
    ImageHash <- Colliding
    Policies = {0}
    Slots = 1
    MaxEdits = 4
    MaxBuilds = 4
    MaxLosses = 0
INVARIANTS OutputSound CacheNeverFails BodyEditsStayLocal
CHECK_DEADLOCK FALSE
