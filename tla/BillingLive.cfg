\* Crashes and rolled-back inserts, with fair requests and a SePay that repeats its calls.
SPECIFICATION FairSpec
CONSTANTS
    Users = {"an"}
    Plans <- PlusOnly
    Tier <- MCTier
    Days <- MCDays
    Price <- MCPrice
    Txns = {t1, t2}
    Workers = {w1, w2}
    None = None
    Window = 0
    Kinds = {"checkout", "webhook", "cancel"}
    Payments <- PayStray
    MaxOrders = 2
    MaxTime = 0
    MaxAdmin = 0
    MaxFails = 1
PROPERTIES
    MoneySettles
CHECK_DEADLOCK FALSE
