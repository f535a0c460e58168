\* Two admins, two publications, files and seeds with a second content, a failure.
SPECIFICATION Spec
CONSTANTS
    Admins = {an, binh}
    Solutions = {"s1", "s2"}
    Suites = {"t1", "t2"}
    Valid <- MCValid
    Workers = {w1, w2}
    None = None
    Drafted <- MCDrafted
    Files <- MCFiles
    MaxRevision = 8
    MaxFails = 1
SYMMETRY Symmetry
INVARIANTS
    IndependentReview
    ReviewedIsValid
PROPERTIES
    DecidedAsRead
    ImplementsBoard
CHECK_DEADLOCK FALSE
