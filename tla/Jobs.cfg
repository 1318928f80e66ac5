SPECIFICATION JobsSpec
CONSTANTS
    j1 = j1
    i1 = i1
    Jobs = {j1}
    Intents = {i1, i2}
    DepositOf <- MCDepositOf
    Keys = {k1}
    Refs = {f1}
    Events = {e1}
    NoEvent = NoEvent
    Reqs = {r1}
    Runner = Runner
    ChargeAnswers = {"PENDING", "FAILED"}
    Forced = {}
    Notices = {"SUCCEEDED"}
    MaxRestarts = 0
    MaxAborts = 1
    Asked = {q1, q2}
    Providers = {p1}
    Nobody = Nobody
    Prices = {1}
    Percents = {20}
    Extensions = {1}
    FeeBps = 1500
    Lifetime = 1
    Calls = {c1}
    Timer = Timer
    MaxNow = 2
PROPERTIES
    ConfirmedIsBooked
    OverdueCloses
CHECK_DEADLOCK FALSE
