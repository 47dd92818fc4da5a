SPECIFICATION Spec
CONSTANTS
    Pid = {p1}
    Code = {ok, sig}
    NoCode = NoCode
    Command = {job}
    MaxStages = 1
    MaxJobId = 1
    Interactive = TRUE
    Commands = {"start", "fg"}
    Zero = ok
    Signalled = sig
    NotAChild = NotAChild
    MaxSignalQueueSize = 1
INVARIANTS
    FgReturns
CHECK_DEADLOCK FALSE
