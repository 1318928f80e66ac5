SPECIFICATION Spec
CONSTANTS
    Requests = {q1, q2}
    Providers = {p1, p2}
    Nobody = Nobody
    Prices = {5, 10}
    Percents = {30}
    Extensions = {1}
    FeeBps = 1500
    Lifetime = 1
    Calls = {c1, c2}
    Timer = Timer
    MaxNow = 1
INVARIANTS
    ClosedIsDealt
    OutcomeIsTheDeal
    AcceptedHasProposal
PROPERTIES
    KeepsPromise
CONSTRAINT Bounded
SYMMETRY Interchangeable
