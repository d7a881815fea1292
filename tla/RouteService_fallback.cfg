SPECIFICATION Spec
CONSTANTS
  Requests = {r1}
  Modes = {"car"}
  RawAlternatives = {0}
  Cells = {c1}
  ZeroCells = {}
  AskedTrips = {NoTrip}
  Settings <- LazySettings
  MaxInFlight = 2
  OsrmMaxInFlight = 1
  InternalMaxInFlight = 2
  MaxAlternatives = 3
  NoTrip = NoTrip
  NoReq = NoReq
  None = None
INVARIANT FallsBackToInternalEngine
CHECK_DEADLOCK FALSE
