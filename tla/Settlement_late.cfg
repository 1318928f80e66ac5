SPECIFICATION Spec
CONSTANTS
    Amount = 4
    FeeBps = 2500
    Refunds = {x1}
    Payouts = {p1}
    Operators = {o1}
    Asks = {2}
    RefundAnswers = {"PENDING"}
    PayoutAnswers = {"SUCCEEDED", "PENDING"}
    Confirmations = {"SUCCEEDED"}
    MaxAborts = 0
INVARIANT RefundedIsCredited
CHECK_DEADLOCK FALSE
