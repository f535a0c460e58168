\* Two open orders of different tiers, two transfers: racing, repeated, refused and crashing
\* webhooks against cancellation and expiry.
SPECIFICATION Spec
CONSTANTS
    Users = {"an"}
    Plans <- PlusPro
    Tier <- MCTier
    Days <- MCDays
    Price <- MCPrice
    Txns = {t1, t2}
    Workers = {w1, w2}
    None = None
    Window = 0
    Kinds = {"checkout", "webhook", "cancel", "refused"}
    Payments <- PayBoth
    MaxOrders = 2
    MaxTime = 1
    MaxAdmin = 0
    MaxFails = 1
SYMMETRY Symmetry
INVARIANTS
    BooksReconcile
    PaidTimeIsConserved
    AckedMoneyIsKept
    ReportedAtMostOnce
    NeverExpiredEarly
PROPERTIES
    SettledIsFinal
    ParkedOnlyAgainstRival
CHECK_DEADLOCK FALSE
