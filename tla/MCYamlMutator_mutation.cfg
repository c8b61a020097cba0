SPECIFICATION Spec

CONSTANTS
    SizeMax = 1000
    kMaxInsertSize = 4
    kMaxEntrySize = 3
    Alignments <- MCAlignments
    Limits <- MCLimits
    DataSizes <- MCDataSizes
    MaxSize = 14
    Corpora <- MCCorpora
    Keys <- MCKeys
    Levels = 3
    MaxDepth = 2

INVARIANTS
    BytesFit
    ShapeKept

PROPERTIES
    MutantSizes

CHECK_DEADLOCK FALSE
