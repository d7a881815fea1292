SPECIFICATION Spec
CONSTANTS
  Requests = {r1, r2, r3}
  Modes = {"car"}
  RawAlternatives = {0}
  Cells = {c1, c2}
  ZeroCells = {}
  AskedTrips = {NoTrip}
  Settings <- AllSettings
  MaxInFlight = 2
  OsrmMaxInFlight = 1
  InternalMaxInFlight = 2
  MaxAlternatives = 3
  NoTrip = NoTrip
  NoReq = NoReq
  None = None
SYMMETRY Symmetry
INVARIANTS TypeOK SlotsAccounted FlightsAreLed LoadedOnce
CHECK_DEADLOCK FALSE
