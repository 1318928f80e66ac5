SPECIFICATION FairSpec
CONSTANTS
    Pages = {p1, p2}
    Subjects = {w1}
    MaxIngest = 2
    MaxQueue = 2
    MaxCounter = 2
    RatingCounts = {0, 1, 3, 30}
    Decays = {10, 100}
    Stamps = {1, 2}
    Events = 3
    NoStore = NoStore
INVARIANTS
    EveryClickCountsOnce
PROPERTIES
    ClickNeverHurts
    EventsMoveOn
CHECK_DEADLOCK FALSE
