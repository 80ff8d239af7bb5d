\* One device with two decisions, two requests for them, one fault.
SPECIFICATION Spec
CONSTANTS
    OneTimeIds = {i1}
    MultiIds = {}
    Devices = {d1}
    Events = {e1, e2}
    Batches = {b1, b2}
    MaxBatch = 2
    MaxFaults = 1
    NoPass = NoPass
    NoEvent = NoEvent
    Nobody = Nobody
SYMMETRY Symmetric
CHECK_DEADLOCK FALSE
INVARIANTS
    NothingLost
    SyncedIsRecorded
    OneWins
PROPERTIES
    AnswersFinal
