SPECIFICATION Spec
CONSTANTS
    Pid = {p1, p2, p3}
    Code = {ok, sig}
    NoCode = NoCode
    Command = {job}
    MaxStages = 2
    MaxJobId = 2
    Interactive = FALSE
    Commands = {"start", "wait", "fg", "bg", "kill"}
    Zero = ok
    Signalled = sig
    NotAChild = NotAChild
    MaxSignalQueueSize = 1
SYMMETRY Symmetry
INVARIANTS
    AllDoneIsDone
    ExitCodeAgrees
    DoneMeansReaped
    DoneWithLastCode
    WaitAnswersLastCode
CHECK_DEADLOCK FALSE
