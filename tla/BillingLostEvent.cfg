\* Two orders of a new learner paid at the same time.
SPECIFICATION Spec
CONSTANTS
    Users = {"an"}
    Plans <- PlusMonthYear
    Tier <- MCTier
    Days <- MCDays
    Price <- MCPrice
    Txns = {t1, t2}
    Workers = {w1, w2}
    None = None
    Window = 0
    Kinds = {"checkout", "webhook"}
    Payments <- PayEither
    MaxOrders = 2
    MaxTime = 0
    MaxAdmin = 0
    MaxFails = 0
SYMMETRY Symmetry
PROPERTIES
    EveryCallIsRecorded
CHECK_DEADLOCK FALSE
