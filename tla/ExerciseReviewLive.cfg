\* One revision from its creation to its publication, every request carried on.
SPECIFICATION FairSpec
CONSTANTS
    Admins = {an, binh}
    Solutions = {"s1", "s2"}
    Suites = {"t1", "t2"}
    Valid <- MCValid
    Workers = {w1, w2}
    None = None
    Drafted <- OneDraft
    Files <- OneFile
    MaxRevision = 4
    MaxFails = 1
PROPERTIES
    RequestsEnd
CHECK_DEADLOCK FALSE
