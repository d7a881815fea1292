# geo-service: TLA+ models, checks and proofs

geo-service is a Go service for routing, live trip tracking and nearby
search. This directory models the parts of it whose correctness depends on the
order in which goroutines, requests, Redis messages and database writes meet,
and the way from a map to a route. TLC checks the models on small instances;
TLAPS proves, for instances of any size, every safety property the passing
runs check, the answers of the graph searches included. `PROJECT.json` is the
machine-readable index: components, runs, mutants, the map from definitions to
source lines, findings, hazards and theorems.

## 1. The system

| Part | State | Operations | Talks to | What is hard |
|---|---|---|---|---|
| Trip hub (`internal/ws`, `internal/events/bus.go`, `internal/handler/ws.go`) | trip -> clients, trip -> closer, per-client send channel, per-subscription bus channel, gauge | upgrade, Register, Unregister, close, read and write pumps, SubscribeTrip goroutine, forwardEvents, broadcastLocal | Redis Pub/Sub; GPS and route services publish | sends outside the lock, sync.Once in two pumps, cancelled but still running subscriptions, full channels |
| Route service (`internal/route`) | total / OSRM / internal semaphores, singleflight, lazily loaded engine behind a mutex, Redis route cache, trip route | CalculateWithMeta, fallback chain, lazy load | OSRM, PostGIS, Redis, event bus | nested slots on error paths, followers of a flight, load under a lock, deadlines, cache keys |
| Nearby sessions (`internal/wsnearby`, `internal/handler/shipment_ws.go`) | connection counts per address and in total, send channel, token bucket, last activity | HandleNearby, WriteJSON, Close, write and ping pumps | shipment and driver search | three goroutines may close, the release closure runs twice, panic on a closed channel |
| GPS tracking (`internal/gps`) | Redis: last position, rate-limit key, trip route | Update, ProcessUpdate, persistAndPublish | Redis, event bus | read-modify-write across a goroutine |
| Batch writer (`internal/storage/location_batch.go`) | batch in memory, event channel | collect, flush on size or timer, drain at shutdown | event bus, PostGIS | shutdown order, failed inserts, dropped events |
| Driver presence (`internal/service/driver.go`, `internal/cache/driver_location.go`) | Redis geo set without TTL, hash with TTL | update, remove, search with self-healing, location read | Redis, marketplace database | expiry and self-healing against fresh updates, three queries over changing tables |
| Shipment search (`internal/service/shipment.go`) | vehicle type cache behind an RWMutex | SearchNearby | marketplace database | two queries over changing tables, double-checked lock held across a query |
| Marketplace tables (`internal/storage/*_repository.go`) | trips, shippings, asks, shipments, profiles | written by Laravel, queried here | - | each query sees its own snapshot |
| Road importer (`cmd/osm2postgis`) | road tables, a stage table, a batch | import a region, die, import again | PostGIS | tags, directions, batches over failures |
| Graph loaders (`internal/storage/road_graph.go`, `transit_graph.go`) | road, rail and transit graph | load tables into graphs | PostGIS | turning edges round, loading during an import |
| Graph searches (`internal/routing`) | heaps, costs, alternatives of one request | A*, bidirectional A*, Yen, snapping | loaded graphs | termination, blocked edges, deadlines |
| Instructions and legs (`instructions.go`, `multimodal.go`) | - | path to maneuvers and legs | searches | ramps, collapsing, indices |
| Multi-stop routes (`internal/route/multi_service.go`) | none of its own | order stops, route legs | route service | every leg stores the trip's route |
| Redis guards (`internal/wsplatform`) | Redis counters, breaker, idempotency keys | acquire, allow, execute | not wired into the server | check-then-act |
| Middleware, migrations, config, other tools | - | - | - | stateless checks, SQL, wiring |

For each part the properties that make it correct:

- **Trip hub**: one live subscription per watched trip and none otherwise; a
  closed client is in no group; events reach only their own trip, at most once
  each; a gone peer and an abandoned subscription leave nothing running.
- **Route service**: no slot leaks or is over-committed; a waiting request
  always has a leader; the graph is loaded once; every request is answered, with
  a route computed for what it asked.
- **Nearby sessions**: every slot and gauge unit is returned exactly once;
  every ended session ends all its goroutines; idle sessions end.
- **GPS and batch writer**: the rows are published positions in order and at
  most once; a smoothed position stays where the driver has been; nothing
  waits in a batch for ever.
- **Driver presence**: whoever is shown was live and visible during the search;
  an undisturbed search is exact; a position is read only by counterparts.
- **Shipment search**: packages somebody else held throughout are not shown;
  resumption is offered to the carrier, and to him reliably; the cache is
  loaded once and blocks nobody for ever.
- **From map to route**: a successful import is complete and without doubles;
  routes obey direction and access; paths are connected, loop-free, distinct
  and ordered; "no route" means there is none; instructions and legs account
  for the whole path.

## 2. Modules

| Module | Models | Checked by |
|---|---|---|
| `TripHub` | hub, clients, per-trip subscriptions of one process | `MCTripHub`, `TripHub_*.cfg` |
| `TripFeed` | what `/ws/trip/:id` promises a client (abstract) | as `DeliversAtMostOnce` |
| `TripHubProofs` | proofs about `TripHub`, and that it implements `TripFeed` | TLAPS |
| `RouteService` | CalculateWithMeta over the backend chain | `MCRouteService`, `RouteService_*.cfg` |
| `RouteServiceProofs` | proofs about `RouteService` | TLAPS |
| `NearbySession` | HandleNearby, Session, ConnLimiter | `MCNearbySession`, `NearbySession_*.cfg` |
| `NearbySessionProofs` | proofs about `NearbySession` | TLAPS |
| `GpsTracking` | gps service, SubscribeAll, batch writer, shutdown | `MCGpsTracking` |
| `GpsTrackingProofs` | proofs about `GpsTracking` | TLAPS |
| `LaravelDb` | the marketplace tables and the queries of this service | through the two searches |
| `LaravelDbProofs` | lemmas about the queries, for both searches | TLAPS |
| `DriverPresence` | driver service and its Redis store | `MCDriverPresence` |
| `DriverPresenceProofs` | proofs about `DriverPresence` | TLAPS |
| `ShipmentSearch` | shipment service and its cache | `MCShipmentSearch` |
| `ShipmentSearchProofs` | proofs about `ShipmentSearch` | TLAPS |
| `RoadGraph` | graphs, profiles, loaders, snapping (operators) | through `RoadNetwork` |
| `RoadImport` | osm2postgis | through `RoadNetwork` |
| `GraphSearch` | aStar, biAStar, KFastestPaths and their callers | through `RoadNetwork` |
| `RouteInstructions` | instructions and legs of a path (operators) | through `RoadNetwork` |
| `RoadNetwork` | composition: import, server start, requests | `MCRoadNetwork`, `RoadNetwork_*.cfg` |
| `RoadNetworkProofs` | proofs about import, graphs, searches, legs and instructions | TLAPS |

Operators whose comment begins with "Variant" are faulty versions of the
definition that follows them; no specification uses them. Each property is
shown to fail when one of them takes the place of the real definition.

### TripHub

Critical sections of `h.mu` are single steps, everything else interleaves. A
client's `stage` follows HandleConnection (`registered`, `open`) and then the
body of `Client.close` (`closing` after onClose, `unregistered`, `sendclosed`,
`closed`); `reader` and `writer` are its pumps, which both wait in sync.Once
until the body is over. A subscription is one call of startSubscription: its
Redis connection (`link`), the messages in flight (`inbox`), the bus channel
(`out`), the SubscribeTrip goroutine (`bus`) and the forwardEvents goroutine
(`fwd`, `held`, `targets`). `broadcastLocal` is a snapshot step and one step
per client; if the client's channel has been closed in between, the send
panics and the process is `crashed`, after which nothing happens. Redis is
external: it delivers to the connections that are subscribed at that moment,
confirms subscriptions late and may lose them.

`TripFeed` has no hub: clients join and leave, events are published, and a
client is sent frames it was not sent before. The mapping reads a client's
feed as what was written to its socket followed by what is queued.

### RouteService

Each request is a goroutine with a program counter `pc`; `req` is what it
asked, `got`/`err` what it will return. `flight` is the singleflight group,
`total`, `osrm` and `internal` are the sets of slot holders, `mu` and `engine`
the internal backend. Coordinates are abstracted to the cell that
RouteKeyWithPrecision rounds them to, modes to those the code treats
differently ("car" stands for all road modes), the trip a request names to
`AskedTrips` (with `NoTrip` for none), and a route to the question it was
computed for: mode, cell and the number of routes after
normalizeAlternatives. The label of the backend in the response, which a cache
hit replaces, decides nothing and is left out. A Redis error is a miss or
a lost write; timers may fire at any time; the compute deadline (`expired`)
belongs to the flight, cancellation to the request. Settings are chosen in
`Init`, where prepareInternalRouting decides whether a graph is loaded.

### NearbySession

`handler` is where HandleNearby is, its deferred calls included; `stage` is
the body of `Session.Close`; `writer` and `pinger` are the pumps, with a state
for "inside WriteMessage" so that the overlap of both is visible
(`WritersCollide`). Messages are a count: every message gets exactly one
reply, whichever branch of the switch or of `process` produced it. The token
bucket is a choice between a token and none. `SetReadLimit` makes ReadMessage
itself fail on oversize messages, so the length check after it is part of
`ReadFails`.

### GpsTracking

An update is a record with the step its handler or its goroutine has reached;
Redis is `window` (the SET NX key), `location` and `route`. Positions are
numbers scaled so that smoothing with weight 3/4 is exact; 0 stands for the
coordinate the smoother reads as "no history". Every Redis or database call
may fail, up to `MaxFaults` times. Publication reaches the instances whose
connection is up at that moment, in one order. The writer's select is the
choice between `Receive`, `Tick`, `ChannelEnds` and `WorkerDone`; the first
three flush with the worker's context, which after the cancellation inserts
nothing. `CancelWorkers` and `Exit` are main's shutdown. `RowsFollowEvents`
reads an instance as one line, from its table through its batch and its channel
to its inbox (`Handled`), and says that this line is a selection of the
published events: there is an increasing map from its places to theirs.

### LaravelDb, DriverPresence, ShipmentSearch

`LaravelDb` has an action per kind of write Laravel may do and an operator per
query. Since ids grow, "latest" is the largest index. The WHERE clause of the
nearby query is the conjunction `OnNearbyMap`, one operator per filter
function of the repository.

A driver search is a sequence of steps: GEOSEARCH, one hash after the other
with the self-healing ZREM between, profiles, shippings, trips. A location
read is an authorisation and a hash. Ghost variables collect what was live,
visible or free at some moment of a request; the properties compare answers
with them, which is as much as a chain of unsynchronised reads can promise.

A shipment search queries the rows (a set: the order of an answer is not
looked at, only which rows the limit leaves), gets the vehicle types under RLock or,
when stale, under Lock with a second look, and attaches shippings. The
`vehicle_allowed` column is a raw sequence with entries that are no number.

### RoadGraph, RoadImport, GraphSearch, RouteInstructions, RoadNetwork

`RoadImport` turns the tags of a way into flags, speed and direction, and
segments into batches: copy to the stage, insert, truncate, each step a
transaction of its own, with death between any two. A segment shorter than
`MinSegment` (a metre) makes no row, and the length of a row is rounded to a
multiple of `Grain` (roundF, four decimals). `RoadGraph` builds the
graphs from rows and holds the profiles. Time is an integer in which every
speed of the profiles divides evenly, so that costs compare exactly as in the
code. Two distances are constants: `Dist`, utils.Haversine, and `Flat`,
flatDistKm, which the estimate of A* uses; it takes a degree of longitude to be
as long as at the goal, so it is neither symmetric nor bounded by `Dist`.
Snapping sees only the grid cells (`Cell`) of its window, as many columns as
rows (`InWindow`). Lengths and times of a response are compared before the last
rounding to three decimals (engine.go). `GraphSearch` has an action per
iteration of a search loop; a heap is a set of which any cheapest item is next,
because the layout of a heap decides between equal ones. `RouteInstructions`
maps a path to what the client is told. `RoadNetwork` composes them: the
importer runs while a server starts, loads one region per query, and answers
one request with a deadline that may pass at any iteration.

The rules of `RoutesObeyTheMap` (`Keys`, `Says`, `MayPass`) are read off the
meaning of the tags, not off the code; `FastestTimes`, which
`NotFoundMeansUnreachable` and `AStarIsFastest` use, is the relaxation of
Bellman and Ford over the loaded graph, independent of the searches.

The loops of the loaders, of the path reconstruction, of the legs and of the
instructions are recursive functions, so that a proof can follow them turn by
turn.

## 3. Runs

| Run | Bounds | Shows |
|---|---|---|
| `hub_safety` | 2 trips, 2 clients, 2 subscriptions, 1 event, channels of 1 | TypeOK, OneLiveSubscription, GroupsMatchConnections, GaugeCountsOpen, NoCrossTalk; TripHub implements TripFeed |
| `hub_liveness` | 1 trip, 2 clients, 1 event, with fairness | DeadPeersAreReaped, SubscriptionsDrain |
| `hub_panic` | as above | **violation**: a disconnect during a broadcast crashes the process |
| `route_safety` | 3 requests, 2 cells, slots 2/1/2, all settings | TypeOK, SlotsAccounted, FlightsAreLed, LoadedOnce |
| `route_answers` | 2 requests, car/airplane, 2 cells of which one is a zero-length route, 1 or 2 routes asked for, one trip, slots 2/1/1, lazy loading, with fairness | AnswersFitTheQuestion, EveryRequestAnswered |
| `route_fallback` | 1 request | **violation**: OSRM failure is not answered by the internal engine |
| `nearby_safety` | 2 requests, 2 addresses, 1 per address, channel of 1 | TypeOK, SlotsMatchSessions, GaugeCountsSessions |
| `nearby_liveness` | 1 request, channel of 2, with fairness | FailedSessionsEnd, IdleSessionsEnd |
| `gps` | 1 instance, 1 trip, 2 updates, 2 positions, batch of 2, channel of 1, 1 fault | RowsFollowEvents, SmoothedWithinReported, NoEventLingers |
| `presence` | 2 users, 2 positions, limits 1 and 2, 2 writes during a request, any failing call | ShownDriversWereThere, QuietSearchIsExact, ReadersAreCounterparts |
| `shipments` | 2 searches, 3 users, 2 packages, limit 1, 1 write, 1 expiry, any failing call | PackagesWereFree, ResumeIsOurs, OwnDeliveryCanBeResumed, OneLoadPerPeriod, SearchesAnswer |
| `road_town` | 5 nodes, 7 ways in 2 regions, 2 import runs, batch of 3, 4 lines, 5 journeys, up to 3 alternatives | ImportedExactlyOnce, RoutesObeyTheMap, PathsAreSound, NotFoundMeansUnreachable, AStarIsFastest, InstructionsFollowThePath, NoRouteBeatsTheStraightLine, LegsAreTheItinerary |

Why the bounds are enough to see the interesting cases. Two clients of one
trip suffice for "the last one leaves while another arrives", and two
subscriptions for the overlap of an old and a new forwarder; channels of one
element are full after one message. Two cells and three requests give a
leader with a follower beside an unrelated flight that competes for the
slots. In `route_answers` the two requests may differ in mode, cell or number
of routes, or in none of them, and meet through the cache, a flight or neither;
a key without any one of the three hands one of them a wrong route. A cell
where start and end coincide gets a route of length zero, which the cache keeps
but never answers with. Rail requests, which differ from ground requests in the
graph they need, are left to the proofs, which hold for every mode. With one slot per address, a second request from that address gets in
exactly when the first one's slot is returned, which is when a second return
of it would be noticed. Two updates overlap in every way two goroutines can,
and a batch of two is filled, flushed by the timer half full, or lost at
shutdown; a second instance only repeats the first, since instances share no
writer state. In `presence` every start (live, stale in the index, absent) is
an initial state, so two writes are two disturbances of a search; the index
holds user ids only (`Strays` is empty), the filter for other ids being the
one for hidden users. In `shipments` the limit of one makes nearer packages
crowd out farther ones, and one package has a filter that excludes it. The
town has a one-way street digitised backwards, a street closed to all but
foot and bus, steps, an unnamed ramp of two segments, a way that lists a node
twice, parallel ways, a street faster than the profile's default, a line that
overlaps another, a place off the map, and a journey longer than the threshold
for alternatives. Its streets are 7, 10 or 14 units long and rounded to
multiples of 3, so edges come out shorter and longer than they are; its
estimates are consistent, with the heuristic too, so `AStarIsFastest` says
something about every A* search in it.

Clients, trips, requests and addresses are interchangeable, so the safety runs
of the hub, the route service and the sessions use symmetry; runs with
liveness do not. Deadlock checking is off where the system may stop: clients
stop coming, updates and requests are bounded, an instance exits. It is on in
`presence`, where requests can always be made.

### Fairness

Weak fairness of each goroutine's own steps: the Go scheduler runs what is
runnable. In `RouteService` the wait for OSRM, Redis and the graph load ends
because these calls carry timeouts. In `NearbySession` writes carry a
ten-second deadline, searches QueryTimeout, and the ticker ticks; ReadMessage
must fail on a closed socket, and after the read deadline once no ping is sent
that a pong could answer. Nothing is assumed about clients, about Redis
delivering, or, in `TripHub`, about a frame being written (it has no write
deadline). In
`GpsTracking` the steps of an update and of the writer are weakly fair, and so
is the tick by itself. In `ShipmentSearch` the steps of a search are weakly
fair and taking the lock is strongly fair: sync.RWMutex starves neither readers
nor writers, and the load under it carries a timeout.

### Findings

1. `hub_panic`: `broadcastLocal` (hub.go:120) can send on a channel that
   `Client.close` (client.go:74) has closed. The comments at hub.go:104 and
   :122 expect a lost message; it is a panic in a goroutine without recovery.
2. `route_fallback`: README.md:709 promises fallback to the internal engine;
   with OSRM as primary nothing ever loads the road graph, so for ground modes
   the fallback is refused (backend.go:446).

### Further configurations

Three configurations are kept for further disagreements between comment and
code; in each TLC finds the property violated.

- `RoadNetwork_fastest.cfg` (`FirstIsFastest`): yen.go:12 says "The first item
  is always the primary fastest path" and bidir.go:24-28 argues that stopping
  when the two front g-costs add up to the best path is optimal. The heaps are
  ordered by cost plus estimate, so the item in front need not have the least
  g-cost, and the search can stop before the fastest path is met. On the
  six-node road of the configuration the answer is slower than the middle road.
- `RoadNetwork_estimate.cfg` (`EstimateNeverOverestimates`): astar.go:211 says
  "h = flatDistKm / heuristicSpeed where heuristicSpeed >= any real road speed,
  so h never overestimates actual travel time". flatDistKm multiplies every
  degree of longitude by the cosine of the goal's latitude, so it stretches
  what lies north of the goal. From Tabriz to Zahedan it gives 1702.5 km where
  the great circle has 1646.9 km, and a direct motorway at 130 km/h, the
  heuristic's own speed, takes less than the estimate. On shorter journeys and
  slower roads the slack of the speed covers the error; nothing ensures it, and
  a maxspeed tag above the heuristic's speed is not capped either. That is why
  `AStarIsFastest` has the consistency of the estimate as its condition.
- `TripHub_goroutine.cfg` (`OneForwarderPerTrip`): hub.go:15 says each trip
  gets exactly one Pub/Sub goroutine; Unregister does not wait for the old one.
  `DeliversAtMostOnce` shows that no event is delivered twice because of it.

### Observations

Behaviour met while modelling about which the repository claims nothing, so
no property states it:

- The stored position of a trip can go back in time (gps/service.go:62);
  every instance inserts every position; a failed insert loses its batch;
  "Drain remaining items" (location_batch.go:80) inserts the batch but not
  what is left in the channel, and not when the closed channel is seen first.
- One failed Redis read makes a search drop a live driver from the index until
  the next report (driver_location.go:68); distance (from the index) and
  position (from the hash) may belong to different reports; stale and hidden
  members count against the over-fetch; a late update after going offline puts
  the driver back.
- `UsersShareActiveShipping` does not look at the status of the shipping.
- The limit is applied before the vehicle filter. An accepted ask of another
  passenger, or a sender who hides the package, hides a passenger's own
  delivery, although shipment_repository.go:365-367 says such shipments "are
  still returned".
- A server that starts during an import answers from part of the map.
- A node that cars reach only as the end of a one-way street is not a snap
  target for them. Bus profiles may use roads open to cars although tagged
  bus=no. `combine` takes the shortest of parallel edges where
  the search took the fastest.
- Snapping counts grid columns as if they were as wide as rows are high
  (graph.go:219): with a radius of 50 km at 35 degrees north, nodes more than
  about 43 km to the east or west are not seen.
- Two nodes less than a metre apart make no segment (main.go:453 of the
  importer), so a way through them is cut in two.
- Of several "continue" maneuvers in a row the first stays, so the street name
  shown may be that of an earlier street (instructions.go:149).

## 4. Proofs

Every theorem holds for all values of the constants that satisfy the named
assumptions of the modules. These say what the code gives anyway: sets of
clients, requests, members and shipments are finite; capacities, batch sizes
and limits are positive (a semaphore limit of 0 means "no limit", as in the
code); markers such as `None` or `NoTrip` lie outside the sets they mark;
positions and distances are natural numbers; an extract has well-typed rows.
Those of the road modules are: there are finitely many nodes
(`NodesAreFinite`); the distance between places is a metric (`DistIsAMetric`),
which the great-circle distance of utils.Haversine is; flatDistKm gives a
number, and zero for a node and itself (`FlatIsADistance`), but nothing is
assumed about how it compares with the distance; cells are pairs of integers
(`GridOfCells`), and the unit of the importer's rounding is positive
(`LengthBounds`); a bearing is one of 360 degrees (`BearingsAreDegrees`); the
radii of snapping and the search's limits are numbers (`SnapRadii`,
`SearchConstants`); lines run over known stops and requests ask for known
places (`NetworkConstants`); the rows of the rail table, which is filled from
outside, have their types (`RailsAreTracks`). Nothing is assumed about the map,
about how well a road speed fits its profile, or about which of several equal
heap items is next. TLC evaluates all of them in the runs.

The invariants the runs check are seldom inductive. Each module below has a
stronger one, with one lemma per part or per group of actions and one step per
action; TLC was used to find out whether its parts hold on the instances of the
runs before they were proved.

| Theorem | States | Rests on |
|---|---|---|
| `TypeCorrect`, `SubscriptionsAgree`, `GroupsAgree`, `GaugeExact` | TypeOK, OneLiveSubscription, GroupsMatchConnections, GaugeCountsOpen of the hub | `HubInvariant` |
| `TripsDoNotMix`, `HubImplementsFeed` | NoCrossTalk; TripHub implements TripFeed | `DeliveryInvariant` |
| `SessionTypeCorrect`, `SlotsExact`, `SessionGaugeExact` | TypeOK, SlotsMatchSessions, GaugeCountsSessions | `SessionInvariant` |
| `TypeCorrect`, `SemaphoresAccounted`, `SingleflightIsLed`, `GraphLoadedOnce`, `AnswersFit` | TypeOK, SlotsAccounted, FlightsAreLed, LoadedOnce, AnswersFitTheQuestion of the route service | `RouteInvariant` |
| `WritersFollowEvents`, `SmoothingStaysWithin` | RowsFollowEvents, SmoothedWithinReported | `GpsInvariant` |
| `ShownWereThere`, `PositionsGoToCounterparts`, `QuietSearchesAreExact` | ShownDriversWereThere, ReadersAreCounterparts, QuietSearchIsExact | `PresenceInvariant` |
| `LoadedOncePerPeriod`, `AnswersWereFree`, `OnlyOursCanBeResumed`, `OursCanBeResumed` | OneLoadPerPeriod, PackagesWereFree, ResumeIsOurs, OwnDeliveryCanBeResumed | `SearchInvariant` |
| `ImportIsExact` | ImportedExactlyOnce | `ImportInv` |
| `PathsAreAlwaysSound`, `RoutesAlwaysObeyTheMap`, `NoRouteEverBeatsTheStraightLine`, `NotFoundAlwaysMeansUnreachable` | PathsAreSound, RoutesObeyTheMap, NoRouteBeatsTheStraightLine, NotFoundMeansUnreachable | `NetInv` |
| `AStarIsAlwaysFastest` | AStarIsFastest | `NetInv`, `AStarInv` |
| `WhenTheEstimateIsConsistent`, `ExactSearchIsFastest` | when the condition of AStarIsFastest holds; without the heuristic it always does | `NetInv`, `AStarInv` |
| `LegsAreAlwaysTheItinerary`, `InstructionsAlwaysFollowThePath` | LegsAreTheItinerary, InstructionsFollowThePath | `NetInv` |

**Hub state.** `HubInv` is `TypeOK`, `OneLiveSubscription`,
`GroupsMatchConnections`, `GaugeCountsOpen` and `Bookkeeping`. None of the
first four is inductive alone. Unregister only cancels the right subscription
if the closer of a trip stands for a subscription of that trip, which needs
started subscriptions to be numbered and to know their trip (`Bookkeeping`);
that the gauge stays a natural number needs its exact value; and a group
losing its last client at the right moment needs groups and stages to agree.

**Delivery.** `DeliveryInv` speaks of sets of messages: what a subscription
carries (inbox, bus channel, the event being broadcast) and what a client was
sent. Its heart is `CarriedOnce`, an event is at one place of one
subscription, and `NotYetSent`, an event on its way was sent to no client that
is still to be offered it. An old forwarder that still runs beside the new one
is harmless because Publish hands an event only to the one live subscription
of its trip (`OneLiveSubscription`, hence `HubInv`). `NoCrossTalk` follows from
`TripsKept`. For the refinement the feed of a client is what was written plus
what is queued: writing a frame moves it from one to the other and stutters,
connecting and closing are `Join` and `Leave`, and an accepted offer is a
`Send` whose guard "not sent before" is `NotYetSent`. The crash is `Die`; a
full channel and every step of the bus are stutters (`UnnoticedStutters`, `StepFeeds`).

**Nearby sessions.** `SessionInv` is `TypeOK`, `SlotsMatchSessions`,
`GaugeCountsSessions` and `Coherent`, which ties the handler's position, the
progress of the once body and the release flag together. `Coherent` is what
rules out the second return of a slot: when the deferred release runs, either
there never was a session and the flag is down, or the once body is over and
the flag is up. The counts then change by one element of a finite set.

**Route service.** `RouteInv` splits `SlotsAccounted` into who holds
(`SlotHolders`) and how many do (`SlotBounds`), and adds what ties the shared
state to the goroutines: a registered flight has a leader that computes its key
(`FlightsHaveLeaders`), the mutex is held across a step only by the loader
(`LoaderHoldsLock`), a cache entry fits its key (`CacheFitsKeys`), a goroutine's
question is fixed from its arrival and a cache hit skips the flight (`Asked`).
`AnswersFitTheQuestion` is inductive only with the last two and
`FlightsAreLed`, because a follower takes whatever the leader of its key got.

**GPS and batch writer.** `GpsInv` has two halves. Positions: every position
that is stored, published or known to an update in progress lies between
reports of its trip (`AllWithin`); an update that read a stale or no previous
position still smooths between two values of that interval
(`SmoothIsBetween`), and reports only grow. Queues: the line `Handled` of each
instance is a selection of what was published. Appending to the publication
and the inbox extends it (`GrowSelection`); receiving, inserting, dropping an
event, losing a batch or dying cuts pieces out of it (`CutSelection`).

**Driver presence.** `PresenceInv` has one part per promise. `QuietSearch`
carries `QuietSearchIsExact` through the steps: while the hashes are read,
what is found and what is still to be read are together the live members in
range, each once and nearest first (`Reading`); after the filter the list is
the answer but for the jobs (`Listed`, `JobsSoFar`). The loop of
filterVisibleOnMap is a recursive function, `FirstOf`; that it picks the first
entries up to the limit (`FirstOfPicks`) is proved by induction over its length.

**Shipment search.** `SearchInv` ties lock, cache and loader together
(`LoaderIsAlone`), keeps the rows within what was free and what was the
passenger's own, and for undisturbed searches keeps the deliveries owed to him
among the rows (`OwedIsKept`). That a limited query returns an owed row although
rows equally far may be cut in any order is `OwedIsFound`, an argument about
the cardinality of the nearer rows.

**Import.** `ImportInv` says that table, batch and remaining segments, put one
after the other, are what the table held followed by the extract, that the
counts add up in the same way, and that the stage holds the batch exactly
between the copy and the truncation (`ImportAddsUp`). It is proved of the
composed specification, `RoadNetwork`, where server start and requests
interleave with the import.

**Searches.** `SearchInv` is `Shape`, `Paths` and `Sides`. `Sides` says of each
side of the running search that its labels are exact sums: the label of a node
is the label of the node its hop came from plus one link that is open to the
mode and not blocked, so the hops form a tree with the source as its root
(`SideOK`), and `best` is the least sum of two labels at a node both sides have
reached (`BestOK`). `Paths` says that accepted paths and candidates are good
paths from start to goal, pairwise different. The point that needs an argument
is PathThrough: forward and backward trail are put together at the meeting
node, and nothing in bidir.go looks whether they share another node. They do
not, because at a shared node the two labels would add up to less than the best
meeting, every link taking positive time. The same argument about a tree of
positive links ends the reconstruction after at most as many hops as there are
nodes. Yen's `combine` puts a root and a spur path together whose nodes differ
because the nodes of the root are blocked during the spur search.

**Map, import and graphs.** `NetInv` is `ImportTypeOK`, `GraphsOK`, `QueryOK`,
`ServerOK` and `SearchInv`. `ImportTypeOK` keeps every row in the table, the
batch and the stage a row cut from a way of the extract (`MapRow`); `GraphsOK`
says that every edge of the road graph follows such a way in a direction and
for the modes its tags allow and is shorter than the straight line by half a
grain at most (`RoadArcs`), with one lemma for each loader. `RoutesObeyTheMap`
is then this fact for the edges of a good path, although the table a server
loads may be half imported. `ServerOK` is needed because a graph may only
change while nothing is searched. `NoRouteBeatsTheStraightLine` adds up the
lengths by the triangle inequality, the way to the snapped node included; what
rounding may take off grows with the number of edges (`ClimbNear`).

**Unreachable goals.** When a side's heap is empty, its labelled nodes are
closed under the links (`SideOK` keeps every link of a closed node relaxed), and
Bellman and Ford's times cannot leave a closed set (`ReachedStaysIn`). For two
sides it is enough that either heap runs empty while no meeting is known.

**aStar.** `AStarInv` says that no settled node has a larger label plus estimate
than an open one (`Ordered`), and that no link from a settled node offers a
better way, not to a settled node either, though aStar never looks at those
again (`Exact`). It is inductive where the estimate is consistent: along a link
it falls by at most the time the link takes (`Consistent`). The labels are then
a lower bound of the reference times (`TimesAreAhead`). Consistency is a
condition of `AStarIsFastest` and not a fact about the code. It holds trivially
without the heuristic (`ExactSearchIsFastest`); with it, it follows if no edge
is faster than the heuristic's speed and none is shorter than what it takes off
the flat distance to the goal (`WhenTheEstimateIsConsistent`). The code ensures
neither: speeds are not capped, and the flat distance is stretched north of the
goal (`RoadNetwork_estimate.cfg`). For the two-sided search the theorem would be
false even with a consistent estimate (`RoadNetwork_fastest.cfg`).

**Legs and instructions.** Sums over slices of a path are differences of one
potential (`Measures`), so the lengths of consecutive slices telescope. The loop
of SplitTransitLegs keeps a list of cuts, and the edges behind the last cut on
one line (`CutAt`); at the end the cuts reach from the first node to the last
(`Tiled`). The loop over the inner nodes keeps `OnTrack`: maneuvers in the order
of their nodes, every turn into a street so far announced, and only unnamed
ramps up to the node where the loop, which moves its own index, goes on. The
loop that collapses maneuvers keeps the first and the last, the order and every
turn (`Collapsed`).

The library's induction theorems take an operator and cannot be used here, but
induction over a *set* of numbers can be derived from the well-foundedness of
`<` (`LaravelDbProofs!Smallest` and `Induction`, and their counterparts in
`RoadNetworkProofs`). That is how all loops are handled: each recursive function
gets a lemma that says what one turn does (`...Runs`), from the definition of
recursive functions by CHOOSE.

### Only model-checked

- Liveness: DeadPeersAreReaped, SubscriptionsDrain, EveryRequestAnswered,
  FailedSessionsEnd, IdleSessionsEnd, NoEventLingers, SearchesAnswer. Fairness
  and ENABLED are out of the prover's reach.
- The violations: a counterexample is TLC's to find.

Every invariant of a passing run, and the refinement, is a theorem.

## 5. Not modelled

- Wording and layout of responses, polyline encoding, media URLs, SQL text,
  column discovery and migrations.
- Authentication: a request reaches a model once its token, key or trip is
  accepted. The authorisation of location reads is modelled.
- Multi-stop routes: each leg is a request of `RouteService`; the greedy order
  of the stops has no state. Each leg stores its own route for the trip.
- `internal/wsplatform` and `wsnearby/processor.go`: no code of the server
  constructs them.
- The walking legs around a train or transit itinerary, the straight-line
  fallback when a search fails, and the concurrent warming of the polyline
  cache (up to four workers that store the same value under a lock).
- The importers of transit lines and stations, whose tables are constants, and
  the simulation and load-test tools.
- The token bucket's arithmetic, speed and timestamps of positions, metrics
  other than the connection gauges.

## 6. What could come next

1. Action properties, such as that a closed connection never opens again, which
   the invariants above do not state.
2. How far from the fastest the two-sided search can be when it stops early: a
   bound would say what `FirstIsFastest` promises too much.
3. Modules for the guards of `internal/wsplatform` and for the walking legs
   around an itinerary, once the server uses the former and a property needs
   the latter.
