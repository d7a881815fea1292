SPECIFICATION Spec
CONSTANTS
    u1 = u1
    u2 = u2
    u3 = u3
    p1 = p1
    p2 = p2
    car = car
    bike = bike
    junk = junk
    Users = {u1, u2, u3}
    Anonymous = Anonymous
    Shipments = {p1, p2}
    Sender <- MCSender
    Receiver <- MCReceiver
    Addressed = {p1}
    Distance <- MCDistance
    Radius = 2
    InitTrips <- MCTrips
    MaxTrips = 3
    MaxShippings = 2
    Searches = {s1, s2}
    VehicleTypes = {car, bike}
    Allowed <- MCAllowed
    Wanted = {{bike}}
    Viewers = {u2, Anonymous}
    Limit = 1
    Listings <- MCListings
    MaxChanges = 1
    MaxExpiries = 1
    Nobody = Nobody
INVARIANTS PackagesWereFree ResumeIsOurs OwnDeliveryCanBeResumed OneLoadPerPeriod
PROPERTY SearchesAnswer
CHECK_DEADLOCK FALSE
