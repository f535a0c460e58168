\* A publication that reads the exercise while a synchronisation holds it.
SPECIFICATION Spec
CONSTANTS
    Admins = {an, binh}
    Solutions = {"s1", "s2"}
    Suites = {"t1", "t2"}
    Valid <- MCValid
    Workers = {w1, w2}
    None = None
    Drafted <- MCDrafted
    Files <- MCFiles
    MaxRevision = 4
    MaxFails = 0
SYMMETRY Symmetry
PROPERTIES
    PublishedAsReviewed
CHECK_DEADLOCK FALSE
