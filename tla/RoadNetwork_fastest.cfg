SPECIFICATION Spec
CONSTANTS
    Nodes <- RoadNodes
    Points <- RoadPoints
    Dist <- RoadDist
    Flat <- RoadFlat
    Cell <- RoadCells
    CellKm = 1
    Bearing <- RoadBearing
    ShortLink = 8
    Extract <- RoadExtract
    LoadOrder <- RoadOrder
    RailRows <- NoRows
    Stops <- NoStops
    Lines <- NoRows
    City <- NoRows
    Journeys <- RoadJourneys
    Regions = {"north"}
    SnapThreshold = 1
    SnapFallback = 3
    RailSnap = 5
    TransitSnap = 4
    GeomSnap = 2
    TransferMax = 5
    SpurCap = 0
    LongRoute = 50
    NoNode = NoNode
    MinSegment = 1
    Grain = 1
    BatchSize = 100
    MaxRuns = 1
INVARIANT FirstIsFastest
CHECK_DEADLOCK FALSE
