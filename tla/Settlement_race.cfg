SPECIFICATION Spec
CONSTANTS
    Amount = 4
    FeeBps = 2500
    Refunds = {x1}
    Payouts = {p1}
    Operators = {o1, o2}
    Asks = {2}
    RefundAnswers = {"SUCCEEDED", "PENDING"}
    PayoutAnswers = {"SUCCEEDED", "PENDING"}
    Confirmations = {"SUCCEEDED", "FAILED"}
    MaxAborts = 1
SYMMETRY Interchangeable
INVARIANTS
    PaidWasConfirmed
    MovesOnce
CHECK_DEADLOCK FALSE
