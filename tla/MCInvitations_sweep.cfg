\* Two passes, one row a sweep, one request at a time, one fault: liveness.
SPECIFICATION FairSpec
CONSTANTS
    DayLength = 100
    LongExpired = 1
    Ids = {i1, i2}
    Requests = {r1}
    Visits = {v1}
    Policies = {"ONE_TIME"}
    Windows <- OneWindow
    Amounts = {1}
    Rules <- SomeRules
    NotifyWithin = 1
    Batch = 1
    MaxTime = 3
    MaxLookups = 1
    MaxFaults = 1
    NoRequest = NoRequest
    NoVisit = NoVisit
PROPERTIES
    RunOutIsMarked
