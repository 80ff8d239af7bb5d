\* A late lazy expiry replaces USED; an extension then revives the pass.
SPECIFICATION Spec
CONSTANTS
    DayLength = 100
    LongExpired = 2
    Ids = {i1}
    Requests = {r1, r2}
    Visits = {v1, v2}
    Policies = {"ONE_TIME"}
    Windows <- OneWindow
    Amounts <- SomeAmounts
    Rules <- SomeRules
    NotifyWithin = 2
    Batch = 1
    MaxTime = 3
    MaxLookups = 2
    MaxFaults = 0
    NoRequest = NoRequest
    NoVisit = NoVisit
INVARIANT OneTimeOnce
