SPECIFICATION Spec
CONSTANTS
    Nodes <- TownNodes
    Points <- TownPoints
    Dist <- TownDist
    Flat <- TownFlat
    Cell <- TownCells
    CellKm = 1
    Bearing <- TownBearing
    ShortLink = 8
    Extract <- TownExtract
    LoadOrder <- TownOrder
    RailRows <- TownRail
    Stops <- TownStops
    Lines <- TownLines
    City <- TownCity
    Journeys <- TownJourneys
    Regions = {"north", "south"}
    SnapThreshold = 1
    SnapFallback = 3
    RailSnap = 7
    TransitSnap = 4
    GeomSnap = 2
    TransferMax = 7
    SpurCap = 2
    LongRoute = 22
    NoNode = NoNode
    MinSegment = 1
    Grain = 3
    BatchSize = 3
    MaxRuns = 2
INVARIANTS ImportedExactlyOnce RoutesObeyTheMap PathsAreSound NotFoundMeansUnreachable AStarIsFastest InstructionsFollowThePath NoRouteBeatsTheStraightLine LegsAreTheItinerary
CHECK_DEADLOCK FALSE
