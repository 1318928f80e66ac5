SPECIFICATION PartSpec
CONSTANTS
    j1 = j1
    i1 = i1
    Jobs = {j1}
    Intents = {i1, i2}
    DepositOf <- MCDepositOf
    Keys = {k1, k2}
    Refs = {f1, f2}
    Events = {e1}
    NoEvent = NoEvent
    Reqs = {r1, r2}
    Runner = Runner
    ChargeAnswers = {"PENDING", "FAILED"}
    Forced = {}
    Notices = {"SUCCEEDED"}
    MaxRestarts = 1
    MaxAborts = 0
SYMMETRY Interchangeable
INVARIANTS
    BookedOnce
    BookedWasConfirmed
    EventAppliedOnce
    UnlockedIsPaid
    StartedIsPaid
    PaidIsBooked
    SucceededIsBooked
CHECK_DEADLOCK FALSE
