SPECIFICATION Spec
CONSTANTS
    Code = {0, 1}
    NoCode = NoCode
    Name = {"a", "b", "c", "d", "f", "g"}
    Tree <- Trees
    Script <- ControlScripts
    ExitTrap <- MaybeTrap
    Errexit = {FALSE}
    HandlerExit = {3}
    MayFailToStart = TRUE
    Shutdown = {FALSE, TRUE}
    MaxRecursionDepth = 2
    MaxSubshellDepth = 2
    MaxCommands = 6
INVARIANTS
    TypeOK
    DepthsAgree
    ReturnHasCaller
    NothingPending
    RunsAsItMeans
PROPERTIES
    NothingAfterJump
CHECK_DEADLOCK FALSE
