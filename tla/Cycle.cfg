SPECIFICATION MCSpec
CONSTANTS
    Records = {r1, r2}
    Scalars = {integer}
    MaxBrackets = 2
    MaxFields = 2
    MaxRunFields = 1
    MaxLength = 1
    Object = {o1, o2, o3}
    Plain = Plain
CHECK_DEADLOCK FALSE
SYMMETRY Symmetries
INVARIANT VerdictExact
INVARIANT HeapsSound
PROPERTY SearchShrinks
