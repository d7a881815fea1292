---------------------------- MODULE RouteService ----------------------------
(***************************************************************************)
(* POST /route: RouteService.CalculateWithMeta (internal/route/service.go) *)
(* over the backend chain that cmd/server/main.go builds from internal/    *)
(* route/backend.go.  Each request is a goroutine: cache lookup, a slot of *)
(* the total semaphore, singleflight, then, in the request that leads the  *)
(* flight, the limited OSRM backend, the limited internal backend and its  *)
(* lazily loaded road graph.  Coordinates are abstracted to the cell that  *)
(* RouteKeyWithPrecision rounds them to.                                   *)
(***************************************************************************)
EXTENDS Naturals, FiniteSets

CONSTANTS
  Requests,         \* requests that may arrive (each one once)
  Modes,            \* transport modes asked for; "car" stands for every mode
                    \* searched on the road graph (motorcycle, bus, walking)
  RawAlternatives,  \* values of the request's "alternatives" field
  Cells,            \* rounded origin/destination pairs
  ZeroCells,        \* those whose route has length 0
  AskedTrips,       \* values of its "trip_id" field: trips, or NoTrip
  Settings,         \* startup settings to consider, see SettingsAssumption
  MaxInFlight,      \* ROUTING_MAX_IN_FLIGHT   (0: unlimited)
  OsrmMaxInFlight,  \* OSRM_MAX_IN_FLIGHT      (0: unlimited)
  InternalMaxInFlight, \* INTERNAL_MAX_IN_FLIGHT (0: unlimited)
  MaxAlternatives,  \* ROUTING_MAX_ALTERNATIVES
  NoTrip, NoReq, None

ASSUME ModesAssumption ==
  Modes \subseteq {"car", "airplane", "train", "public_transport"}

ASSUME LimitsAssumption ==
  /\ MaxInFlight \in Nat /\ OsrmMaxInFlight \in Nat /\ InternalMaxInFlight \in Nat
  /\ MaxAlternatives \in Nat /\ RawAlternatives \subseteq Nat
  /\ IsFiniteSet(Requests)

\* ROUTING_BACKEND, INTERNAL_GRAPH_ENABLED, INTERNAL_GRAPH_LAZY_LOAD and
\* whether ROUTING_TIMEOUT_MS is positive.
AllSettings ==
  [primary : {"osrm", "internal"}, enabled : BOOLEAN, lazy : BOOLEAN, deadline : BOOLEAN]

ASSUME SettingsAssumption == Settings \subseteq AllSettings

ASSUME MarksAssumption == NoReq \notin Requests

Trips == AskedTrips \ {NoTrip}

VARIABLES
  conf,      \* settings read at startup; never changed afterwards
  pc, req,   \* request -> where its goroutine is, what it asked for
  got, err,  \* request -> the route, or the error, it will return
  hit,       \* request -> answered from the cache
  expired,   \* request -> the deadline of the flight it leads has passed
  cancelled, \* request -> its client went away
  total, osrm, internal, \* holders of a slot of the three semaphores
  flight,    \* singleflight.Group: key -> the request leading its flight
  mu, engine,\* InternalBackend.mu (while the graph loads) and its graphs
  cache,     \* Redis: route key -> cached response
  tripRoute  \* Redis: trip -> response stored for deviation detection

askVars  == <<pc, req, got, err, hit, expired, cancelled>>
semVars  == <<total, osrm, internal>>
storeVars == <<cache, tripRoute>>
vars == <<conf, askVars, semVars, flight, mu, engine, storeVars>>

Errors == {"overloaded", "timeout", "not_found", "unavailable", "not_loaded"}

\* Variant that passes the default 0 on instead of asking for one route.
NormalizeAlternativesKeepingZero(n) ==
  LET max == IF MaxAlternatives = 0 THEN 1 ELSE IF MaxAlternatives > 3 THEN 3 ELSE MaxAlternatives
  IN IF n > max THEN max ELSE n

\* normalizeAlternatives, with the clamping NewRouteService applies to its bound
NormalizeAlternatives(n) ==
  LET max == IF MaxAlternatives = 0 THEN 1 ELSE IF MaxAlternatives > 3 THEN 3 ELSE MaxAlternatives
  IN IF n = 0 THEN 1 ELSE IF n > max THEN max ELSE n

\* Variant key builder that leaves the number of alternatives out.
RouteKeyWithoutAlternatives(q) == [mode |-> q.mode, alts |-> 1, cell |-> q.cell]

\* cache.RouteKeyWithPrecision: version and backend name are fixed while the
\* process runs, the coordinates are those of the rounded cell.
RouteKey(q) ==
  [mode |-> q.mode, alts |-> NormalizeAlternatives(q.alts), cell |-> q.cell]

\* From one route to maxRouteAlternatives.
AltCounts == 1 .. 3
Key == [mode : Modes \cup {"car"}, alts : AltCounts, cell : Cells]
Question == [mode : Modes, alts : RawAlternatives, cell : Cells, trip : AskedTrips]

ASSUME NoneAssumption == None \notin Question

\* What a backend returns for question q, tagged with what it was computed for
\* (OSRM, train and transit searches ignore the number of alternatives).  The
\* backend's name is only metadata of one call, "cache" on a hit, and left out.
Response(q) ==
  [mode |-> q.mode, alts |-> NormalizeAlternatives(q.alts), cell |-> q.cell]

KeyOf(r) == RouteKey(req[r])

Free(sem, limit) == limit = 0 \/ Cardinality(sem) < limit

\* The graph a mode is searched on; engine is {} while no engine is loaded.
GraphOf(mode) == CASE mode = "train" -> "rail"
                   [] mode = "public_transport" -> "transit"
                   [] OTHER -> "road"

\* Positions of a request that leads a flight, and of one holding a total slot.
Leading == {"osrm_queue", "osrm_call", "fallback", "int_queue", "engine",
            "load_wait", "loading", "search", "fill"}
Holding == Leading \cup {"join", "follow", "store"}

-----------------------------------------------------------------------------
\* prepareInternalRouting: the graph is loaded at startup only for the internal
\* backend without lazy loading, and that load may fail.  ROUTING_BACKEND=osrm
\* without OSRM_BASE_URL behaves as "internal" with engine = {}.
Init ==
  /\ conf \in Settings
  /\ engine \in {{}} \cup
       (IF conf.enabled /\ conf.primary # "osrm" /\ ~conf.lazy
          THEN {{"road"} \cup g : g \in SUBSET {"rail", "transit"}} ELSE {})
  /\ pc   = [r \in Requests |-> "idle"]
  /\ req  = [r \in Requests |-> None]
  /\ got  = [r \in Requests |-> None]
  /\ err  = [r \in Requests |-> "none"]
  /\ hit  = [r \in Requests |-> FALSE]
  /\ expired   = [r \in Requests |-> FALSE]
  /\ cancelled = [r \in Requests |-> FALSE]
  /\ total = {} /\ osrm = {} /\ internal = {}
  /\ flight = [k \in Key |-> NoReq]
  /\ mu = NoReq
  /\ cache = [k \in Key |-> None]
  /\ tripRoute = [t \in Trips |-> None]

Goto(r, p) == pc' = [pc EXCEPT ![r] = p]

-----------------------------------------------------------------------------
(* CalculateWithMeta around the flight.                                    *)

\* A request with valid coordinates and mode reaches the service.
Arrive(r, q) ==
  /\ pc[r] = "idle"
  /\ req' = [req EXCEPT ![r] = q]
  /\ Goto(r, "lookup")
  /\ UNCHANGED <<conf, got, err, hit, expired, cancelled, semVars, flight, mu, engine, storeVars>>

\* Environment: the client goes away; ctx.Done fires.
Cancel(r) ==
  /\ pc[r] \notin {"idle", "done"}
  /\ ~cancelled[r]
  /\ cancelled' = [cancelled EXCEPT ![r] = TRUE]
  /\ UNCHANGED <<conf, pc, req, got, err, hit, expired, semVars, flight, mu, engine, storeVars>>

\* GetRoute finds an entry with Distance > 0.
CacheHit(r) ==
  LET c == cache[KeyOf(r)] IN
  /\ pc[r] = "lookup"
  /\ ~cancelled[r]
  /\ c # None
  /\ c.cell \notin ZeroCells
  /\ got' = [got EXCEPT ![r] = c]
  /\ hit' = [hit EXCEPT ![r] = TRUE]
  /\ Goto(r, "store")
  /\ UNCHANGED <<conf, req, err, expired, cancelled, semVars, flight, mu, engine, storeVars>>

\* No entry, a zero-length route, or a Redis error, which counts as a miss.
CacheMiss(r) ==
  /\ pc[r] = "lookup"
  /\ Goto(r, "slot")
  /\ UNCHANGED <<conf, req, got, err, hit, expired, cancelled, semVars, flight, mu, engine, storeVars>>

\* The first, non-blocking attempt at a slot of s.sem.
TrySlot(r) ==
  /\ pc[r] = "slot"
  /\ IF Free(total, MaxInFlight)
       THEN total' = total \cup {r} /\ Goto(r, "join")
       ELSE UNCHANGED total /\ Goto(r, "queued")
  /\ UNCHANGED <<conf, req, got, err, hit, expired, cancelled, osrm, internal, flight, mu, engine, storeVars>>

\* The second attempt waits for a slot, the queue timer or the client.
SlotGranted(r) ==
  /\ pc[r] = "queued"
  /\ Free(total, MaxInFlight)
  /\ total' = total \cup {r}
  /\ Goto(r, "join")
  /\ UNCHANGED <<conf, req, got, err, hit, expired, cancelled, osrm, internal, flight, mu, engine, storeVars>>

SlotRefused(r) ==
  /\ pc[r] = "queued"
  /\ \/ ~Free(total, MaxInFlight) /\ err' = [err EXCEPT ![r] = "overloaded"]
     \/ cancelled[r] /\ err' = [err EXCEPT ![r] = "timeout"]
  /\ Goto(r, "done")
  /\ UNCHANGED <<conf, req, got, hit, expired, cancelled, semVars, flight, mu, engine, storeVars>>

\* group.Do: the first caller for a key leads, the others wait for its result.
\* The deadline of the flight starts here and belongs to the flight, not to ctx.
JoinFlight(r) ==
  LET k == KeyOf(r) IN
  /\ pc[r] = "join"
  /\ IF flight[k] = NoReq
       THEN /\ flight' = [flight EXCEPT ![k] = r]
            /\ Goto(r, IF conf.primary = "osrm" THEN "osrm_queue" ELSE "int_queue")
       ELSE /\ UNCHANGED flight
            /\ Goto(r, "follow")
  /\ UNCHANGED <<conf, req, got, err, hit, expired, cancelled, semVars, mu, engine, storeVars>>

\* The requests that group.Do answers together when r's flight ends.
Crew(r) == {x \in Requests : x = r \/ (pc[x] = "follow" /\ KeyOf(x) = KeyOf(r))}

\* Variant that forgets the flight but not the requests waiting for it.
FailFlightLeaderOnly(r, e) ==
  /\ flight' = [flight EXCEPT ![KeyOf(r)] = NoReq]
  /\ err' = [err EXCEPT ![r] = e]
  /\ pc'  = [pc EXCEPT ![r] = "done"]
  /\ total' = total \ {r}
  /\ UNCHANGED got

\* group.Do returns error e to all of them; they leave and free their slots.
FailFlight(r, e) ==
  /\ flight' = [flight EXCEPT ![KeyOf(r)] = NoReq]
  /\ err' = [x \in Requests |-> IF x \in Crew(r) THEN e ELSE err[x]]
  /\ pc'  = [x \in Requests |-> IF x \in Crew(r) THEN "done" ELSE pc[x]]
  /\ total' = total \ Crew(r)
  /\ UNCHANGED got

\* group.Do returns the leader's route to all of them.
LandFlight(r) ==
  /\ flight' = [flight EXCEPT ![KeyOf(r)] = NoReq]
  /\ got' = [x \in Requests |-> IF x \in Crew(r) THEN got[r] ELSE got[x]]
  /\ pc'  = [x \in Requests |-> IF x \in Crew(r) THEN "store" ELSE pc[x]]
  /\ UNCHANGED <<err, total>>

\* SetTripRoute (skipped without a trip; its error is ignored), then the
\* response is returned and the deferred release runs.  persistRoute and
\* publishRouteCalculated only start goroutines that touch none of this state.
Store(r) ==
  /\ pc[r] = "store"
  /\ \/ /\ req[r].trip # NoTrip
        /\ ~cancelled[r]
        /\ tripRoute' = [tripRoute EXCEPT ![req[r].trip] = got[r]]
     \/ UNCHANGED tripRoute
  /\ total' = total \ {r}
  /\ Goto(r, "done")
  /\ UNCHANGED <<conf, req, got, err, hit, expired, cancelled, osrm, internal, flight, mu, engine, cache>>

-----------------------------------------------------------------------------
(* The flight: computeRouteResult over FallbackBackend or LimitedBackend.  *)

\* The compute deadline (ROUTING_TIMEOUT_MS > 0) passes.
Expire(r) ==
  /\ conf.deadline
  /\ pc[r] \in Leading
  /\ ~expired[r]
  /\ expired' = [expired EXCEPT ![r] = TRUE]
  /\ UNCHANGED <<conf, pc, req, got, err, hit, cancelled, semVars, flight, mu, engine, storeVars>>

\* An error of the primary sends the request to FallbackBackend's second half.
PrimaryFails(r) ==
  /\ Goto(r, "fallback")
  /\ UNCHANGED <<got, err, total, flight>>

\* LimitedBackend in front of OSRM.
OsrmSlot(r) ==
  /\ pc[r] = "osrm_queue"
  /\ \/ /\ Free(osrm, OsrmMaxInFlight)
        /\ osrm' = osrm \cup {r}
        /\ Goto(r, "osrm_call")
        /\ UNCHANGED <<got, err, total, flight>>
     \/ \* the queue timer, while no slot is free, or the deadline
        /\ OsrmMaxInFlight # 0
        /\ ~Free(osrm, OsrmMaxInFlight) \/ expired[r]
        /\ PrimaryFails(r)
        /\ UNCHANGED osrm
  /\ UNCHANGED <<conf, req, hit, expired, cancelled, internal, mu, engine, storeVars>>

\* Variant that returns early on an error without giving the slot back.
OsrmReturnsWithoutRelease(r) ==
  /\ pc[r] = "osrm_call"
  /\ \/ /\ req[r].mode = "car" /\ ~expired[r]
        /\ got' = [got EXCEPT ![r] = Response(req[r])]
        /\ Goto(r, "fill")
        /\ osrm' = osrm \ {r}
        /\ UNCHANGED <<err, total, flight>>
     \/ PrimaryFails(r) /\ UNCHANGED osrm
  /\ UNCHANGED <<conf, req, hit, expired, cancelled, internal, mu, engine, storeVars>>

\* OSRMBackend: only driving and walking profiles exist; any call may fail.
OsrmReturns(r) ==
  /\ pc[r] = "osrm_call"
  /\ osrm' = osrm \ {r}
  /\ \/ /\ req[r].mode = "car" /\ ~expired[r]
        /\ got' = [got EXCEPT ![r] = Response(req[r])]
        /\ Goto(r, "fill")
        /\ UNCHANGED <<err, total, flight>>
     \/ PrimaryFails(r)
  /\ UNCHANGED <<conf, req, hit, expired, cancelled, internal, mu, engine, storeVars>>

\* FallbackBackend asks CanServeModeWithoutLoad, which takes b.mu.
Fallback(r) ==
  /\ pc[r] = "fallback"
  /\ req[r].mode = "airplane" \/ mu = NoReq
  /\ IF req[r].mode = "airplane" \/ GraphOf(req[r].mode) \in engine
       THEN Goto(r, "int_queue") /\ UNCHANGED <<got, err, total, flight>>
       ELSE FailFlight(r, "not_loaded")
  /\ UNCHANGED <<conf, req, hit, expired, cancelled, osrm, internal, mu, engine, storeVars>>

\* LimitedBackend in front of the engine; airplane routes need no slot.
InternalSlot(r) ==
  /\ pc[r] = "int_queue"
  /\ \/ /\ req[r].mode = "airplane"
        /\ Goto(r, "engine")
        /\ UNCHANGED <<internal, got, err, total, flight>>
     \/ /\ req[r].mode # "airplane"
        /\ Free(internal, InternalMaxInFlight)
        /\ internal' = internal \cup {r}
        /\ Goto(r, "engine")
        /\ UNCHANGED <<got, err, total, flight>>
     \/ /\ req[r].mode # "airplane"
        /\ InternalMaxInFlight # 0
        /\ \/ ~Free(internal, InternalMaxInFlight) /\ FailFlight(r, "overloaded")
           \/ expired[r] /\ FailFlight(r, "timeout")
        /\ UNCHANGED internal
  /\ UNCHANGED <<conf, req, hit, expired, cancelled, osrm, mu, engine, storeVars>>

\* engineFor, its first critical section and the decisions that follow it.
EngineFor(r) ==
  LET mode == req[r].mode IN
  /\ pc[r] = "engine"
  /\ mu = NoReq
  /\ \/ /\ mode = "airplane" \/ GraphOf(mode) \in engine
        /\ Goto(r, "search")
        /\ UNCHANGED <<internal, got, err, total, flight>>
     \/ /\ mode = "car" /\ "road" \notin engine /\ conf.enabled /\ conf.lazy
        /\ Goto(r, "load_wait")
        /\ UNCHANGED <<internal, got, err, total, flight>>
     \/ /\ mode # "airplane" /\ GraphOf(mode) \notin engine
        /\ ~(mode = "car" /\ conf.enabled /\ conf.lazy)
        /\ internal' = internal \ {r}
        /\ FailFlight(r, "unavailable")
  /\ UNCHANGED <<conf, req, hit, expired, cancelled, osrm, mu, engine, storeVars>>

\* Variant without the second look at the engine under the lock.
LockForLoadUnchecked(r) ==
  /\ pc[r] = "load_wait"
  /\ mu = NoReq
  /\ Goto(r, "loading")
  /\ mu' = r
  /\ UNCHANGED <<conf, req, got, err, hit, expired, cancelled, semVars, flight, engine, storeVars>>

\* engineFor, second critical section: look again, then load with b.mu held.
LockForLoad(r) ==
  /\ pc[r] = "load_wait"
  /\ mu = NoReq
  /\ IF "road" \in engine
       THEN Goto(r, "search") /\ UNCHANGED mu
       ELSE Goto(r, "loading") /\ mu' = r
  /\ UNCHANGED <<conf, req, got, err, hit, expired, cancelled, semVars, flight, engine, storeVars>>

\* Variant whose error return leaves b.mu locked.
LoadReturnsLocked(r) ==
  /\ pc[r] = "loading"
  /\ \/ /\ \E g \in SUBSET {"rail", "transit"} : engine' = {"road"} \cup g
        /\ Goto(r, "search")
        /\ mu' = NoReq
        /\ UNCHANGED <<internal, got, err, total, flight>>
     \/ /\ FailFlight(r, IF expired[r] THEN "timeout" ELSE "unavailable")
        /\ internal' = internal \ {r}
        /\ UNCHANGED <<engine, mu>>
  /\ UNCHANGED <<conf, req, hit, expired, cancelled, osrm, storeVars>>

\* loadEngine returns: rail and transit overlays are optional.
LoadReturns(r) ==
  /\ pc[r] = "loading"
  /\ mu' = NoReq
  /\ \/ /\ \E g \in SUBSET {"rail", "transit"} : engine' = {"road"} \cup g
        /\ Goto(r, "search")
        /\ UNCHANGED <<internal, got, err, total, flight>>
     \/ /\ FailFlight(r, IF expired[r] THEN "timeout" ELSE "unavailable")
        /\ internal' = internal \ {r}
        /\ UNCHANGED engine
  /\ UNCHANGED <<conf, req, hit, expired, cancelled, osrm, storeVars>>

\* The search: a route, none, or none because the deadline passed.  An engine
\* without a road graph answers an airplane request with a straight line.
Search(r) ==
  /\ pc[r] = "search"
  /\ internal' = internal \ {r}
  /\ \/ /\ ~(req[r].mode = "car" /\ expired[r])
        /\ got' = [got EXCEPT ![r] = Response(req[r])]
        /\ Goto(r, "fill")
        /\ UNCHANGED <<err, total, flight>>
     \/ /\ req[r].mode # "airplane"
        /\ FailFlight(r, IF req[r].mode = "car" /\ expired[r] THEN "timeout" ELSE "not_found")
  /\ UNCHANGED <<conf, req, hit, expired, cancelled, osrm, mu, engine, storeVars>>

\* Still inside the flight: SetRoute, whose error is ignored.
FillCache(r) ==
  /\ pc[r] = "fill"
  /\ \/ cache' = [cache EXCEPT ![KeyOf(r)] = got[r]]
     \/ UNCHANGED cache
  /\ LandFlight(r)
  /\ UNCHANGED <<conf, req, hit, expired, cancelled, osrm, internal, mu, engine, tripRoute>>

\* Redis: a cached route reaches the end of its TTL.
RouteEvicted(k) ==
  /\ cache[k] # None
  /\ cache' = [cache EXCEPT ![k] = None]
  /\ UNCHANGED <<conf, askVars, semVars, flight, mu, engine, tripRoute>>

-----------------------------------------------------------------------------
\* Steps of r's own goroutine; every wait among them ends by a timer, a
\* deadline or the step of another request.
RequestStep(r) ==
  \/ CacheHit(r) \/ CacheMiss(r) \/ TrySlot(r) \/ SlotGranted(r) \/ SlotRefused(r)
  \/ JoinFlight(r) \/ Store(r)
  \/ OsrmSlot(r) \/ OsrmReturns(r) \/ Fallback(r) \/ InternalSlot(r)
  \/ EngineFor(r) \/ LockForLoad(r) \/ LoadReturns(r) \/ Search(r) \/ FillCache(r)

Next ==
  \/ \E r \in Requests : RequestStep(r) \/ Cancel(r) \/ Expire(r)
  \/ \E r \in Requests, q \in Question : Arrive(r, q)
  \/ \E k \in Key : RouteEvicted(k)

Spec == Init /\ [][Next]_vars

\* The scheduler runs every runnable goroutine, timers fire, and OSRM, Redis
\* and graph loading return because their calls carry timeouts.
FairSpec == Spec /\ \A r \in Requests : WF_vars(RequestStep(r))

-----------------------------------------------------------------------------
Route == [mode : Modes, alts : AltCounts, cell : Cells]

\* The range of every variable.
Ranges ==
  /\ conf \in AllSettings
  /\ pc  \in [Requests -> {"idle", "lookup", "slot", "queued", "done"} \cup Holding]
  /\ req \in [Requests -> Question \cup {None}]
  /\ got \in [Requests -> Route \cup {None}]
  /\ err \in [Requests -> Errors \cup {"none"}]
  /\ hit \in [Requests -> BOOLEAN]
  /\ expired \in [Requests -> BOOLEAN] /\ cancelled \in [Requests -> BOOLEAN]
  /\ total \subseteq Requests /\ osrm \subseteq Requests /\ internal \subseteq Requests
  /\ flight \in [Key -> Requests \cup {NoReq}]
  /\ mu \in Requests \cup {NoReq}
  /\ engine \subseteq {"road", "rail", "transit"}
  /\ cache \in [Key -> Route \cup {None}]
  /\ tripRoute \in [Trips -> Route \cup {None}]

\* Type invariant.  The key of a question that arrived is one of the keys the
\* cache and the flights are indexed by: whatever number of alternatives the
\* request carries, the key and the routes count one to three.
TypeOK ==
  /\ Ranges
  /\ \A r \in Requests : req[r] # None => KeyOf(r) \in Key

\* A slot is held exactly by the goroutines between taking it and their
\* deferred release, on every error path too, so no semaphore leaks and none is
\* over-committed.
SlotsAccounted ==
  /\ total = {r \in Requests : pc[r] \in Holding /\ ~hit[r]}
  /\ osrm = {r \in Requests : pc[r] = "osrm_call"}
  /\ internal = {r \in Requests : /\ pc[r] \in {"engine", "load_wait", "loading", "search"}
                                  /\ req[r].mode # "airplane"}
  /\ MaxInFlight = 0 \/ Cardinality(total) <= MaxInFlight
  /\ OsrmMaxInFlight = 0 \/ Cardinality(osrm) <= OsrmMaxInFlight
  /\ InternalMaxInFlight = 0 \/ Cardinality(internal) <= InternalMaxInFlight

\* Whatever way a route reached it (cache, own computation, another request's
\* flight), a request returns a route computed for its own mode, number of
\* alternatives and endpoints; so was the route stored for its trip.
AnswersFitTheQuestion ==
  LET Fits(q, v) == v.mode = q.mode /\ v.alts = NormalizeAlternatives(q.alts) /\ v.cell = q.cell IN
  /\ \A r \in Requests : got[r] # None => Fits(req[r], got[r])
  /\ \A t \in Trips : tripRoute[t] # None =>
       \E r \in Requests : req[r] # None /\ req[r].trip = t /\ Fits(req[r], tripRoute[t])

\* singleflight as used here: exactly one goroutine computes a key, and a
\* request waiting for a flight always has one to wait for.
FlightsAreLed ==
  /\ \A r \in Requests : pc[r] \in Leading => flight[KeyOf(r)] = r
  /\ \A r \in Requests : pc[r] = "follow" =>
       flight[KeyOf(r)] # NoReq /\ pc[flight[KeyOf(r)]] \in Leading

\* The road graph is loaded by one request at a time, and only while there is
\* none: concurrent first requests do not load it again.
LoadedOnce ==
  \A r \in Requests : pc[r] = "loading" => mu = r /\ engine = {}

\* Every request that arrives is answered.
EveryRequestAnswered == \A r \in Requests : (pc[r] = "lookup") ~> (pc[r] = "done")

\* README: "On timeout or connection failure, geo-service automatically falls
\* back to the internal engine."
FallsBackToInternalEngine ==
  \A r \in Requests : conf.enabled => err[r] # "not_loaded"
=============================================================================
