SPECIFICATION FrontSpec
CONSTANTS
    Names <- MCNames
    Kinds = {1, 2}
    MaxSymbols = 5
    PartNames = {a, b}
    Up = Up
    Here = Here
    Blank = Blank
    MaxImporter = 3
    MaxSpecifier = 3
    Files = {e, a, b, x}
    Absent = {x}
    EntryFile = e
    Aliases = {p, q}
    Declarations = {main, f}
    Main = main
    MaxItems = 4
CHECK_DEADLOCK FALSE
SYMMETRY Symmetries
INVARIANTS LookupSound PathsSound ModulesSound
PROPERTY LoopsShrink
