\* Every kind of request on one attempt, each carried on to its end.
SPECIFICATION FairSpec
CONSTANTS
    Users = {"an"}
    Attempts = {a1}
    Owner <- MCOwner
    Free = {"an"}
    Workers = {w1, w2}
    None = None
    Scores = {80}
    Limit = 1
    Month <- MCMonth
    Kinds = {"submit", "explain", "debug", "tests", "run", "snapshot"}
    MaxEdits = 1
    MaxEvents = 1
    MaxDays = 0
    MaxFails = 0
INVARIANTS
    HintOverrunIsBounded
    SubmittedCodeIsJudged
PROPERTIES
    AnsweredIsReported
    RequestsEnd
CHECK_DEADLOCK FALSE
