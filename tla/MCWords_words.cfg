SPECIFICATION MCSpec
CONSTANTS
    NameOrder <- MCNameOrder
    aliases <- MCAliases
    HOME <- MCHOME
    PWD <- MCPWD
    OLDPWD <- MCOLDPWD
    UserHomes <- MCUserHomes
    nounset = FALSE
    WIDTH = 6
    CommandOutputs <- MCCommandOutputs
    FileNames <- MCFileNames
    noglob = FALSE
    Assignments <- MCAssignments
INVARIANTS
    WordsAsWritten
    RedirectionsAsWritten
    AliasesEnd
    ParametersAsWritten
    BracesAsWritten
    ArithmeticAsWritten
PROPERTY LexerAdvances
CHECK_DEADLOCK FALSE
