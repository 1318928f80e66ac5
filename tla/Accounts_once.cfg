SPECIFICATION Spec
CONSTANTS
    Members = {u1, u2}
    Works = {c1, c2}
    Tokens = {k1, k2}
    Roles = {"customer", "super_admin"}
    Actions = {"suspend"}
    Purposes = {"any"}
    NoMember = NoMember
    Edits = {c1}
    Reviewable = {u1, u2}
    Labels = {u1, u2}
    Clerks = {c1}
    CaseStates = {"OPEN", "INVESTIGATING", "RESOLVED"}
    MaxCases = 1
    Askers = {c1}
    MaxTickets = 1
    Refunds = {f1}
    Payouts = {p1}
    Clicks = {c1}
    NoClick = NoClick
INVARIANTS
    ChallengeUsedOnce
CHECK_DEADLOCK FALSE
