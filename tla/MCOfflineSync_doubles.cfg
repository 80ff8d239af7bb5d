\* A pass that admits again and again, and one fault.
SPECIFICATION Spec
CONSTANTS
    OneTimeIds = {}
    MultiIds = {m1}
    Devices = {d1}
    Events = {e1}
    Batches = {b1}
    MaxBatch = 1
    MaxFaults = 1
    NoPass = NoPass
    NoEvent = NoEvent
    Nobody = Nobody
CHECK_DEADLOCK FALSE
INVARIANTS
    NeverDoubleRecords
