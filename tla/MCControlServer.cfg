\* The control pipe, and the assistant's server with its tools.
SPECIFICATION OutsideSpec
CONSTANTS
    MaxRequests = 3
    MaxSessions = 2
    Files = {"song", "other"}
    MaxEdits = 2
    MaxFaults = 1
INVARIANTS
    TypeOK
    AnswersMatch
    ExecutedInOrder
    CancelledNeverRuns
    ToolsWriteWhatIsAsked
PROPERTIES
    LineAnswered
    StopReturnsOnceListening
    EditsAreKept
CHECK_DEADLOCK FALSE
