SPECIFICATION Spec
CONSTANTS
    Members = {u1, u2}
    Works = {c1, c2}
    Tokens = {k1, k2}
    Roles = {"customer", "super_admin"}
    Actions = {"role", "suspend", "reactivate", "delete"}
    Purposes = {"any"}
    NoMember = NoMember
    Edits = {c1, c2}
    Reviewable = {u1, u2}
    Labels = {u1, u2}
    Clerks = {c1, c2}
    CaseStates = {"OPEN", "INVESTIGATING", "RESOLVED"}
    MaxCases = 2
    Askers = {c1, c2}
    MaxTickets = 3
    Refunds = {f1}
    Payouts = {p1}
    Clicks = {c1, c2}
    NoClick = NoClick
SYMMETRY Interchangeable
INVARIANTS
    SpentIsRefused
    SomeAdminRemains
    ChangesAreFollowedUp
    ProfileAgrees
    RatingCountsReviews
    CaseFileAgrees
    OneTicketClosedOnce
    ClickRunsOnce
CHECK_DEADLOCK FALSE
