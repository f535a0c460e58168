\* Grants and revocations against the webhook, with orders that run out.
SPECIFICATION Spec
CONSTANTS
    Users = {"an"}
    Plans <- PlusPro
    Tier <- MCTier
    Days <- MCDays
    Price <- MCPrice
    Txns = {t1}
    Workers = {w1, w2}
    None = None
    Window = 0
    Kinds = {"checkout", "read", "webhook", "grant", "revoke"}
    Payments <- PayOwn
    MaxOrders = 2
    MaxTime = 2
    MaxAdmin = 1
    MaxFails = 0
SYMMETRY Symmetry
INVARIANTS
    TransactionsHoldTheirRows
    DeadlocksSpareMoney
PROPERTIES
    NoSwitchMidTerm
    ImplementsLedger
CHECK_DEADLOCK FALSE
