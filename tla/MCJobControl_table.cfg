SPECIFICATION Spec
CONSTANTS
    Pid = {p1, p2}
    Code = {ok, sig}
    NoCode = NoCode
    Command = {job}
    MaxStages = 2
    MaxJobId = 2
    Interactive = TRUE
    Commands = {"start", "query", "run", "wait", "fg", "bg", "kill"}
    Zero = ok
    Signalled = sig
    NotAChild = NotAChild
    MaxSignalQueueSize = 2
SYMMETRY Symmetry
INVARIANTS
    TypeOK
    NoLostChild
PROPERTIES
    JobTableSpec
CHECK_DEADLOCK FALSE
