\* Two decisions and batches of two, one fault.
SPECIFICATION FairSpec
CONSTANTS
    OneTimeIds = {i1}
    MultiIds = {}
    Devices = {d1}
    Events = {e1, e2}
    Batches = {b1}
    MaxBatch = 2
    MaxFaults = 1
    NoPass = NoPass
    NoEvent = NoEvent
    Nobody = Nobody
CHECK_DEADLOCK FALSE
PROPERTIES
    SmallQueueDrains
