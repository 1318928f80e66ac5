SPECIFICATION Spec
CONSTANTS
    Users = {u1, u2}
    Calls = {c1, c2}
    MaxMessages = 1
    MaxInterventions = 2
    Sellers = {u1, u2}
    NoSeller = NoSeller
    Threads = {c1, c2}
    MaxActs = 2
    Workers = {u1, u2}
    Places <- MCPlaces
    Nowhere = Nowhere
    Region <- MCRegion
    NoRegion = "none"
    MaxShown = 1
    MaxCopies = 2
    Tabs = {c1, c2}
    Traits <- MCTraits
    Statuses = {"AVAILABLE_NOW", "UNAVAILABLE"}
    Chats = {u1, u2}
    NoChat = NoChat
SYMMETRY Interchangeable
INVARIANTS
    ContactStaysLocked
    WarnedOnceThenBlocked
    ClearedNeverBlocks
    ReadWasShown
    OffersMatchApi
    ActedIsShown
    SuggestionsFit
    EachRequestIsOffered
    ShownIsSelected
CHECK_DEADLOCK FALSE
