SPECIFICATION Spec
CONSTANTS
    CommandLines <- Utf8Name
    Names <- FileNames
    HighBytes <- OddNames
    Fds <- TwoFiles
    FileStates <- Readable
    Tables <- GoodTable
CHECK_DEADLOCK FALSE
INVARIANTS
    EscapesFit
