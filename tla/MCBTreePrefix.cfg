SPECIFICATION Spec
CONSTANTS
    Handles = {s1, s2}
    s1 = s1
    s2 = s2
    Writer = table
    Keys <- MCPairs
    Records = {1, 2, 3, 4, 5, 6, 7}
    Strides <- MCStrides
    KeyLen = 2
    KeyMaxCount = 4
    NodeBreakPos = 3
    UpperKeyNum = 3
    NodeCorpNum = 2
    Starts <- MCPairsStarts
    NoEntry = NoEntry
    NoRecord = NoRecord
INVARIANT
    PrefixShared
CHECK_DEADLOCK FALSE
