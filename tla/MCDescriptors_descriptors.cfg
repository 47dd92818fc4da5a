SPECIFICATION MCSpec
CONSTANTS
    Redirections <- MCRedirections
    Internal = {3, 4}
    Existing = {"a"}
    Unopenable = {"bad"}
    MaxDepth = 3
VIEW MCView
CHECK_DEADLOCK FALSE
INVARIANT NothingLeft
INVARIANT SavedIntact
PROPERTY CommandsSeeWhatIsMeant
