SPECIFICATION Spec
CONSTANTS
    Instances = {i1}
    Trips = {t1}
    Positions = {16, 64}
    Route = {64}
    DeviationKm = 20
    BatchSize = 2
    ChanCap = 1
    MaxUpdates = 2
    MaxFaults = 1
    None = None
INVARIANTS RowsFollowEvents SmoothedWithinReported
PROPERTY NoEventLingers
CHECK_DEADLOCK FALSE
