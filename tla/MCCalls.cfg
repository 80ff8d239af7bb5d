\* Two officers, of whom b may lose the connection or load the page again.
SPECIFICATION MCSpec
CONSTANTS
    s1 = s1   s2 = s2
    Officers = {a, b}   Sockets = {s1, s2}   NoSocket = NoSocket   NoOfficer = NoOfficer
    MaxCalls = 2   MaxSetUps = 1   MaxPcs = 2   MaxTimers = 1   Roaming = {b}
    Rows = {r1}   Asks = {k1, k2}
INVARIANTS
    PresenceRight
    MicOnlyInCall
PROPERTIES
    NobodyTalksAlone
    ScreensCatchUp
CONSTRAINT Few
\* Every part may come to its end.
CHECK_DEADLOCK FALSE
