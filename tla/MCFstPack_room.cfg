SPECIFICATION PHSpec
CONSTANTS
    a = a
    b = b
    c = c
    NUL = NUL
    Char = {a, b, c}
    Strings <- PackStrings
    Keys <- PackKeys
    Vals = {0, 1}
CHECK_DEADLOCK FALSE
INVARIANTS
    BlockFits
