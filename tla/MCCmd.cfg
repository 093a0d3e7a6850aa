SPECIFICATION FairSpec
CONSTANTS
    CommandLines <- AllCommands
    Names <- FileNames
    HighBytes <- OddNames
    Fds <- AllFds
    FileStates <- AllThings
    Tables <- AllTables
CHECK_DEADLOCK FALSE
INVARIANTS
    ArgvAnswers
    ProbedFirst
    ZeroMeansRead
    OneFileInOrder
    MessagesSurvive
PROPERTIES
    Ends
