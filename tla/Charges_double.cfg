SPECIFICATION Spec
CONSTANTS
    j1 = j1
    i1 = i1
    Jobs = {j1}
    Intents = {i1}
    DepositOf <- MCDepositOf
    Keys = {k1, k2}
    Refs = {f1, f2}
    Events = {}
    NoEvent = NoEvent
    Reqs = {r1}
    Runner = Runner
    ChargeAnswers = {"PENDING"}
    Forced = {}
    Notices = {}
    MaxRestarts = 0
    MaxAborts = 0
SYMMETRY Interchangeable
INVARIANTS
    ChargedOnce
CHECK_DEADLOCK FALSE
