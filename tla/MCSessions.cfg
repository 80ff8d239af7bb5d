\* One account, one browser, two calls in one tab or in two; one mishap.
SPECIFICATION SessionsSpec
CONSTANTS
    c1 = c1
    c2 = c2
    t1 = t1
    t2 = t2
    b1 = b1
    Calls = {c1, c2}
    Tabs = {t1, t2}
    Browsers = {b1}
    Layouts <- OneTabOrTwo
    BrowserOf <- OneBrowser
    AccessTTL = 1
    RefreshTTL = 2
    MaxClock = 2
    MaxMishaps = 1
    NoCall = NoCall
INVARIANTS
    LoggedOutForCause
    
PROPERTIES
    EveryCallEnds
