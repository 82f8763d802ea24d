SPECIFICATION TextsSpec
CONSTANTS
    Value = {1}
    Large = 5
    BlockSize = 6
    LargeBlock = 12
    MaxLists = 2
    MaxElements = 6
    LiteralData <- MCLiteralData
    DataLiterals <- MCDataLiterals
    DataBlock = 6
    CacheSize = 2
    CacheBytes = 2
    MaxTexts = 5
    MaxLength = 4
    MaxBlocks = 2
    Depth = 3
    None = None
    StackSize = 16
    Frame = {1, 3, 4}
    Reserve = 5
    Report = 1
    MaxDepth = 9
    FallbackDepth = 4
    Handles = {h1, h2}
    Texts = {t1, t2, t3}
    Alphabet <- MCAlphabet
    Literals <- MCLiterals
    Stride = 2
    NarrowMax = 3
    CopyAbove = 3
    CopyShare = 3
    MixedJoins = FALSE
    MaxBytes = 4
    Inputs <- MCInputs
    CodePoints <- MCCodePoints
SYMMETRY TextSymmetry
INVARIANTS IndexSound AnswersTrue CodecExact
PROPERTIES ReadsAreCheap TextsImmutable
