SPECIFICATION Spec
CONSTANTS
    u1 = u1
    u2 = u2
    p1 = p1
    Users = {u1, u2}
    Anonymous = Anonymous
    Shipments = {p1}
    Sender <- MCSender
    Receiver <- MCReceiver
    Addressed = {p1}
    Distance <- MCDistance
    Radius = 2
    InitTrips <- MCTrips
    MaxTrips = 2
    MaxShippings = 1
    Strays = {}
    ApiKey = ApiKey
    Positions = {1, 2}
    Viewers = {u2, Anonymous}
    MaxChanges = 2
    Limits = {0, 1}
    DefaultLimit = 2
    MaxLimit = 2
    Nowhere = Nowhere
INVARIANTS ShownDriversWereThere QuietSearchIsExact ReadersAreCounterparts
