SPECIFICATION FairSpec
CONSTANTS
  Trips = {t1}
  Clients = {c1, c2}
  MaxSubs = 2
  MaxEvents = 1
  OutCap = 1
  SendCap = 1
  Published = {"location.updated"}
  NoTrip = NoTrip
  NoSub = NoSub
PROPERTIES DeadPeersAreReaped SubscriptionsDrain
CHECK_DEADLOCK FALSE
