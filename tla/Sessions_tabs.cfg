SPECIFICATION FairSpec
CONSTANTS
    b1 = b1
    Browsers = {b1}
    Tabs = {t1, t2}
    BrowserOf <- OneBrowser
    Sessions = {1}
    Serials = {1, 2, 3}
    Reqs = {1, 2}
    NoToken = NoToken
    NoTab = NoTab
INVARIANTS
    NoFalseAlarm
    RevocationSticks
PROPERTIES
    RefreshEnds
