SPECIFICATION FairSpec
CONSTANTS
  Requests = {r1, r2}
  Modes = {"car", "airplane"}
  RawAlternatives = {0, 2}
  Cells = {c1, z1}
  ZeroCells = {z1}
  AskedTrips = {t1}
  Settings <- LazySettings
  MaxInFlight = 2
  OsrmMaxInFlight = 1
  InternalMaxInFlight = 1
  MaxAlternatives = 3
  NoTrip = NoTrip
  NoReq = NoReq
  None = None
INVARIANT AnswersFitTheQuestion
PROPERTY EveryRequestAnswered
CHECK_DEADLOCK FALSE
