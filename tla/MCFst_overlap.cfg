SPECIFICATION HFairSpec
CONSTANTS
    a = a
    b = b
    c = c
    NUL = NUL
    Char = {a, b, c}
    Strings <- OverlapStrings
    Keys <- OverlapKeys
    Vals = {0, 1}
CHECK_DEADLOCK FALSE
INVARIANTS
    TypeOK
    RoomForStates
    Tree
    NoDeadEnds
    FaultOnlyWhenEmpty
    HonestErrors
    WordsNameStates
    WordsInUse
    PrefixFound
PROPERTIES
    IsDictionary
    CallsReturn
