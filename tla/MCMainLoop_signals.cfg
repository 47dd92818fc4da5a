\* Two threads, a queue of two, every way to start the shell.
CONSTANTS
    MaxSignalQueueSize = 2
    Code = {0}
    Signal = {"INT", "TERM"}
    Mode = {"command", "script", "unreadable", "interactive"}
    TrapCall <- Calls
    Input <- Inputs
    MaxSignals <- SignalsOf
    MaxCommands = 2
    MaxNesting = 1
SPECIFICATION Spec
INVARIANTS
    TypeOK
    EventsAccounted
    HandlersKeepStatus
    ExitTrapOnce
PROPERTIES
    Delivers
    TermEnds
    SignalsAreTaken
CHECK_DEADLOCK FALSE
