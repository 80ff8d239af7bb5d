\* One pass, two requests at a time and the sweep; every interleaving.
SPECIFICATION Spec
CONSTANTS
    DayLength = 100
    LongExpired = 2
    Ids = {i1}
    Requests = {r1, r2}
    Visits = {v1, v2}
    Policies = {"ONE_TIME", "MULTI_ENTRY"}
    Windows <- OneWindow
    Amounts <- SomeAmounts
    Rules <- SomeRules
    NotifyWithin = 2
    Batch = 1
    MaxTime = 4
    MaxLookups = 2
    MaxFaults = 1
    NoRequest = NoRequest
    NoVisit = NoVisit
SYMMETRY Symmetric
INVARIANTS
    OneTimeUnlessOverwritten
    RevocationFinalUnlessOverwritten
PROPERTIES
    KeepsPromise
