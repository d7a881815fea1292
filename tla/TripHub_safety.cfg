SPECIFICATION Spec
CONSTANTS
  Trips = {t1,t2}
  Clients = {c1,c2}
  MaxSubs = 2
  MaxEvents = 1
  OutCap = 1
  SendCap = 1
  Published = {"location.updated", "route.calculated"}
  NoTrip = NoTrip
  NoSub = NoSub
SYMMETRY Symmetry
INVARIANTS TypeOK OneLiveSubscription GroupsMatchConnections GaugeCountsOpen NoCrossTalk
PROPERTY DeliversAtMostOnce
CHECK_DEADLOCK FALSE
