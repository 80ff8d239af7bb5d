\* Each service with two of whatever it distinguishes; its part names them.
SPECIFICATION MCSpec
CONSTANTS
    a1 = a1   a2 = a2   b1 = b1   b2 = b2   c1 = c1   c2 = c2
    s1 = s1   s2 = s2   m1 = m1   m2 = m2
    Links = {l1, l2}   Addresses = {e1}   Visitors = {v1, v2}   Nowhere = Nowhere
    Buildings = {a1, a2}   Flats = {b1, b2}   Officers = {c1, c2}   Clerks = {m1, m2}
    Scopes = {e1}   Absent = Absent
    Spellings <- MCSpellings
    Selections <- MCSelections
    Alerts = {a1, a2}   Staff = {s1, s2}   Devices = {m1, m2}   Unclaimed = Unclaimed
    Posts = {a1, a2}   Radius = 50   NoReading = NoReading
    Fixes <- MCFixes
    People = {a1, a2}   Browsers = {b1, b2}   Endpoints = {c1, c2}   Nobody = Nobody
    MaxDevices = 1   MaxPosts = 2
    Authors = {a1, a2}   Wordings = {b1}   Unwritten = Unwritten
INVARIANTS
    OneEstatePerAddress
    OneLiveLink
    
    NoSecondAlarm
    HelpToldOnce
    ArrivalConfirmed
    NothingLeftBehind
    HostToldOnce
    OnMeansOn
    
CONSTRAINT Few
\* Every part may come to its end.
CHECK_DEADLOCK FALSE
