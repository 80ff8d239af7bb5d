\* One pass of a day, renewed for the next; days of three ticks, two phones, two
\* requests.
SPECIFICATION Spec
CONSTANTS
    DayLength = 3
    CodeGrace = 1
    MaxDays = 1
    MaxGrace = 1
    NoHours = NoHours
    Passes = {p1}
    Devices = {d1, d2}
    Requests = {r1, r2}
    Schedules <- SomeSchedules
    ExtraHours <- OwnHours
    RenewDays = {1, 2}
    Blocked = {}
    DuplicateWindow = 1
    MaxTime = 3
    MaxScans = 2
    MaxResets = 1
    NoPhone = NoPhone
SYMMETRY Symmetric
CHECK_DEADLOCK FALSE
INVARIANTS
    Alternates
    NotTwiceAtOnce
    OnePhoneUntilReset
