SPECIFICATION FairSpec
CONSTANTS
    Pid = {p1, p2}
    Code = {ok, sig}
    NoCode = NoCode
    Command = {job}
    MaxStages = 2
    MaxJobId = 2
    Interactive = TRUE
    Commands = {"start", "query", "bg", "kill"}
    Zero = ok
    Signalled = sig
    NotAChild = NotAChild
    MaxSignalQueueSize = 2
PROPERTIES
    EndedJobIsRemoved
