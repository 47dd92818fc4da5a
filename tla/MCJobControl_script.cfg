SPECIFICATION Spec
CONSTANTS
    Pid = {p1, p2, p3}
    Code = {ok, sig}
    NoCode = NoCode
    Command = {job}
    MaxStages = 2
    MaxJobId = 2
    Interactive = FALSE
    Commands = {"start", "query", "run", "wait", "bg", "kill"}
    Zero = ok
    Signalled = sig
    NotAChild = NotAChild
    MaxSignalQueueSize = 1
SYMMETRY Symmetry
INVARIANTS
    ReapedMeansDone
    WaitAllWaitsForSingles
CHECK_DEADLOCK FALSE
