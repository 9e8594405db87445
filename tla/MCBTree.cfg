SPECIFICATION Spec
CONSTANTS
    Handles = {s1, s2}
    s1 = s1
    s2 = s2
    Writer = table
    Keys <- MCKeys
    Records = {1, 2, 3, 4, 5, 6, 7, 8, 9, 10, 11, 12, 13, 14, 15}
    Strides <- MCStrides
    KeyLen = 2
    KeyMaxCount = 4
    NodeBreakPos = 3
    UpperKeyNum = 3
    NodeCorpNum = 2
    Starts <- MCStarts
    NoEntry = NoEntry
    NoRecord = NoRecord
INVARIANTS
    TypeOK
    TreeShape
    BlocksAccounted
PROPERTIES
    ImplementsIndex
SYMMETRY MCSymmetry
CHECK_DEADLOCK FALSE
