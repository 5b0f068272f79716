SPECIFICATION LiveSpec
CONSTANTS
    MaxState = 2
    MaxStreams = 2
    Credit = 1
    QueueSize = 1
INVARIANTS
    TypeOK
    NeverQueue
    LastScreenShown
PROPERTIES
    SupersededWriterLeaves
    FinishReturns
    NewestIsShown
CHECK_DEADLOCK FALSE
