SPECIFICATION InfoFairSpec
CONSTANTS
    Docs <- SomeDocs
    Elements <- SomeElements
    Char <- Bytes
    NUL = 11
    Strings <- SomeStrings
    Keys <- IsbnsTried
    Vals <- SomeValues
    Isbns <- IsbnsTried
    BufSize = 32
    XML_MAX_DEPTH = 5
    WIDTH = 16777216
    NoText = NoText
    NoRoot = NoRoot
    NoTable = NoTable
    agency = agency
CHECK_DEADLOCK FALSE
INVARIANTS
    EntryOfPrefix
    ConsecutiveFields
    BufferHolds
PROPERTIES
    IsHyphenator
    AlwaysResponds
