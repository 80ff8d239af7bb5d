\* Each screen with two of whatever it distinguishes; its part names them.
SPECIFICATION MCSpec
CONSTANTS
    a1 = a1   a2 = a2   b1 = b1   b2 = b2
    Writers = {a1, a2}   Texts = {t1, t2}   NoText = NoText   MaxMessages = 2
    Route <- MCRoute
    Readings <- MCReadings
    MaxLocks = 2
    Points = {0, 9}   Accuracies = {20, 60, 100}   Unset = Unset   MaxGateDistance = 5
    ListRows = {a1, a2}   Names = {b1, b2}   Gone = Gone   MaxLists = 2   MaxChanges = 1
    Fields = {a1, a2}   Values = {b1, b2}   Default = b1
    Invites = {a1, a2}   Unnamed = Unnamed   MaxLinks = 3   MaxLoads = 1
INVARIANTS
    WrittenIsKept
    NothingMissed
    NeverVaguer
    RouteFitsGate
    OwnChangesShown
    
    LinkShownIsNewest
CONSTRAINT Few
\* Every part may come to its end.
CHECK_DEADLOCK FALSE
