SPECIFICATION TSpec
CONSTANTS
    Docs <- SomeDocs
    Elements <- SomeElements
    XML_MAX_DEPTH = 5
    WIDTH = 16777216
    NoText = NoText
    NoRoot = NoRoot
    english = english
    french = french
CHECK_DEADLOCK FALSE
INVARIANTS
    RoomForTables
    RulesOfGroup
    ValuesAreIndexes
    AgencyOfGroup
    RangesOfDocument
    PathOfElement
    ArraysHold
