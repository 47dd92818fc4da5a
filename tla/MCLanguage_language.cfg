SPECIFICATION MCSpec
CONSTANTS
    Operators = {"a", ";", "&", "|", "&&", "(", ")", "{", "}", "!"}
    LongestLine = 4
    Texts = {"b", "if", "fi", "for", "done", "case", "{", "(", "#", "#!"}
INVARIANTS
    RunsAsWritten
    OnlyStraysHang
CHECK_DEADLOCK FALSE
