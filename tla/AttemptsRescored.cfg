\* A submit that loaded the attempt before it was scored.
SPECIFICATION Spec
CONSTANTS
    Users = {"an"}
    Attempts = {a1}
    Owner <- MCOwner
    Free = {"an"}
    Workers = {w1, w2}
    None = None
    Scores = {80}
    Limit = 1
    Month <- MCMonth
    Kinds = {"submit", "explain"}
    MaxEdits = 0
    MaxEvents = 3
    MaxDays = 0
    MaxFails = 0
PROPERTIES
    ScoredIsFinal
CHECK_DEADLOCK FALSE
