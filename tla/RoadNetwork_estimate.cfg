SPECIFICATION Spec
CONSTANTS
    Nodes <- FarNodes
    Points <- FarPoints
    Dist <- FarDist
    Flat <- FarFlat
    Cell <- FarCells
    CellKm = 1
    Bearing <- FarBearing
    ShortLink = 8
    Extract <- FarExtract
    LoadOrder <- RoadOrder
    RailRows <- NoRows
    Stops <- NoStops
    Lines <- NoRows
    City <- NoRows
    Journeys <- FarJourneys
    Regions = {"north"}
    SnapThreshold = 1
    SnapFallback = 3
    RailSnap = 5
    TransitSnap = 4
    GeomSnap = 2
    TransferMax = 5
    SpurCap = 0
    LongRoute = 50
    NoNode = NoNode
    MinSegment = 1
    Grain = 1
    BatchSize = 100
    MaxRuns = 1
INVARIANT EstimateNeverOverestimates
CHECK_DEADLOCK FALSE
