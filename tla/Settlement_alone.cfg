SPECIFICATION Spec
CONSTANTS
    Amount = 4
    FeeBps = 2500
    Refunds = {x1, x2}
    Payouts = {p1, p2}
    Operators = {o1}
    Asks = {1, 2, 4}
    RefundAnswers = {"SUCCEEDED", "PENDING"}
    PayoutAnswers = {"SUCCEEDED", "PENDING", "FAILED"}
    Confirmations = {"FAILED"}
    MaxAborts = 1
SYMMETRY Interchangeable
INVARIANT Solvent
PROPERTY KeepsEscrow
CHECK_DEADLOCK FALSE
