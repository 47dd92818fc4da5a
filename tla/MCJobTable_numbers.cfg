SPECIFICATION JobTableSpec
CONSTANTS
    Pid = {p1}
    Code = {c0}
    NoCode = NoCode
    Command = {sleep, make}
    MaxStages = 1
    MaxJobId = 4
SYMMETRY Symmetry
INVARIANTS
    CurrentAndPrevious
    JobspecsResolve
PROPERTIES
    NumbersAreForever
