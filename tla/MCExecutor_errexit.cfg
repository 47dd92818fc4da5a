SPECIFICATION Spec
CONSTANTS
    Code = {0, 1}
    NoCode = NoCode
    Name = {"a", "b", "c", "d", "f", "g"}
    Tree <- Trees
    Script <- ErrexitScripts
    ExitTrap <- NoTrap
    Errexit = {TRUE}
    HandlerExit = {}
    MayFailToStart = FALSE
    Shutdown = {FALSE}
    MaxRecursionDepth = 2
    MaxSubshellDepth = 2
    MaxCommands = 8
INVARIANTS
    RunsAsItMeans
CHECK_DEADLOCK FALSE
