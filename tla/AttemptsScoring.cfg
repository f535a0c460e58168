\* Submits and explain-backs of three attempts over two months, with a failure.
SPECIFICATION Spec
CONSTANTS
    Users = {"an"}
    Attempts = {a1, a2, a3}
    Owner <- MCOwner
    Free = {"an"}
    Workers = {w1, w2}
    None = None
    Scores = {40, 80}
    Limit = 1
    Month <- MCMonth
    Kinds = {"submit", "explain"}
    MaxEdits = 0
    MaxEvents = 2
    MaxDays = 1
    MaxFails = 1
SYMMETRY Symmetry
INVARIANTS
    ScoreIsTheReports
    OverrunIsBounded
PROPERTIES
    ReportIsFinal
CHECK_DEADLOCK FALSE
