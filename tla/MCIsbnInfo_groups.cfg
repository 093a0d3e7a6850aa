SPECIFICATION InfoSpec
CONSTANTS
    Docs <- DistributedDoc
    Elements <- SomeElements
    Char <- Bytes
    NUL = 11
    Strings <- SomeStrings
    Keys <- IsbnsTried
    Vals <- SomeValues
    Isbns <- TestIsbns
    BufSize = 32
    XML_MAX_DEPTH = 5
    WIDTH = 16777216
    NoText = NoText
    NoRoot = NoRoot
    NoTable = NoTable
    agency = agency
CHECK_DEADLOCK FALSE
INVARIANTS
    AllGroups
