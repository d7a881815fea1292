--------------------------- MODULE ShipmentSearch ---------------------------
(***************************************************************************)
(* The packages around a passenger: ShipmentService.SearchNearby.  One     *)
(* query of the marketplace database selects the packages, the vehicle     *)
(* type labels come from a cache shared by all searches, and a second      *)
(* query, whose failure is ignored, loads the active shipping of each      *)
(* package: one that somebody else carries is dropped, the passenger's own *)
(* is marked so that navigation can be resumed.  Laravel writes between    *)
(* the two, and searches of different passengers meet in the cache.        *)
(***************************************************************************)
EXTENDS LaravelDb

CONSTANTS Searches,
          VehicleTypes,
          Allowed,       \* shipments.vehicle_allowed: entries, some of them no number
          Wanted,        \* the vehicle filters a request may carry
          Viewers,       \* callers: users, or Anonymous
          Limit,
          Listings,      \* listings a shipment may have
          MaxChanges,    \* bound on Laravel's writes
          MaxExpiries,   \* bound on the times the cache runs out
          Nobody

ASSUME SearchConstants ==
    /\ DOMAIN Allowed = Shipments
    /\ Wanted \subseteq SUBSET VehicleTypes
    /\ Viewers \subseteq Users \cup {Anonymous}
    /\ Limit \in Nat \ {0} /\ Nobody \notin Searches

VARIABLES search,    \* each request: its step, its caller, its rows and its answer
          cache,     \* vtData (loaded or not) and whether vtLoadAt is recent
          lock,      \* the holder of vtMu for writing
          loads,     \* ghost: successful loads since the cache last ran out
          changes,
          expiries,
          seen       \* ghost: what was true at some moment of each search

svcVars == <<search, cache, lock, loads>>
vars == <<svcVars, dbVars, changes, expiries, seen>>

NoSearch == [step |-> "idle", viewer |-> Anonymous, want |-> {}, rows |-> {},
             labelled |-> FALSE, resume |-> {}, intact |-> TRUE]

Move(s, step) == [search EXCEPT ![s].step = step]

-----------------------------------------------------------------------------

\* FindNearbyShipments; without rows there is nothing more to load.
Query(s, v, want) ==
    /\ search[s].step = "idle"
    /\ \E rows \in FindNearbyShipments(v, Limit) :
          search' = [search EXCEPT ![s] = [NoSearch EXCEPT
                        !.step = IF rows = {} THEN "done" ELSE "labels",
                        !.viewer = v, !.want = want, !.rows = rows]]
    /\ UNCHANGED <<cache, lock, loads>>

\* Whatever the format of the column, entries that are no number are skipped
\* and duplicates count once.
ShipmentAllowedVehicleIDs(raw) == ToSet(raw) \cap VehicleTypes

HasAnyVehicleType(allowed, want) == want \cap allowed # {}

Fits(sp, want) == want # {} => HasAnyVehicleType(ShipmentAllowedVehicleIDs(Allowed[sp]), want)

\* The rows whose vehicle_allowed meets the filter get their labels.
Labelled(q, loaded) ==
    LET rows == {sp \in q.rows : Fits(sp, q.want)}
    IN  [q EXCEPT !.rows = rows, !.labelled = loaded,
                  !.step = IF rows = {} THEN "done" ELSE "shippings"]

\* cachedVehicleTypes under RLock.
ReadCache(s) ==
    /\ search[s].step = "labels" /\ lock = Nobody
    /\ search' = IF cache.fresh THEN [search EXCEPT ![s] = Labelled(@, cache.loaded)]
                 ELSE Move(s, "stale")
    /\ UNCHANGED <<cache, lock, loads>>

\* Variant of LockCache.
LockCacheUnchecked(s) ==
    /\ search[s].step = "stale" /\ lock = Nobody
    /\ lock' = s
    /\ search' = Move(s, "loading")
    /\ UNCHANGED <<cache, loads>>

\* Under Lock the time is looked at again.
LockCache(s) ==
    /\ search[s].step = "stale" /\ lock = Nobody
    /\ IF cache.fresh
       THEN /\ search' = [search EXCEPT ![s] = Labelled(@, cache.loaded)]
            /\ lock' = lock
       ELSE /\ search' = Move(s, "loading")
            /\ lock' = s
    /\ UNCHANGED <<cache, loads>>

\* The query: what the cache holds after it, unchanged by an error.
LoadVehicleTypes(ok) == IF ok THEN [loaded |-> TRUE, fresh |-> TRUE] ELSE cache

\* Variant of LoadTypes.
LoadTypesKeepingLock(s, ok) ==
    /\ search[s].step = "loading"
    /\ cache' = LoadVehicleTypes(ok)
    /\ loads' = IF ok THEN loads + 1 ELSE loads
    /\ search' = [search EXCEPT ![s] = Labelled(@, cache'.loaded)]
    /\ lock' = IF ok THEN Nobody ELSE lock

\* LoadVehicleTypes with the lock held: an error leaves the old data.
LoadTypes(s, ok) ==
    /\ search[s].step = "loading"
    /\ cache' = LoadVehicleTypes(ok)
    /\ loads' = IF ok THEN loads + 1 ELSE loads
    /\ search' = [search EXCEPT ![s] = Labelled(@, cache'.loaded)]
    /\ lock' = Nobody

\* vehicleCacheTTL passes.
CacheRunsOut ==
    /\ cache.fresh /\ expiries < MaxExpiries
    /\ cache' = [cache EXCEPT !.fresh = FALSE]
    /\ loads' = 0
    /\ expiries' = expiries + 1
    /\ UNCHANGED <<search, lock, dbVars, changes>>

\* Variant of MayResume.
MayResumeAnyone(sp, v) == v # Anonymous

MayResume(sp, v) == v # Anonymous /\ Carrier(LoadShipping(sp)) = v

\* attachShippings, then the filter on the shipping's passenger; when the
\* query fails, no row has a shipping.
AttachShippings(s, ok) ==
    /\ search[s].step = "shippings"
    /\ LET q       == search[s]
           carried == {sp \in q.rows : ok /\ LoadShipping(sp) # 0}
           mine    == {sp \in carried : MayResume(sp, q.viewer)}
       IN  search' = [search EXCEPT ![s].step = "done", ![s].intact = ok,
                                    ![s].rows = @ \ (carried \ mine), ![s].resume = mine]
    /\ UNCHANGED <<cache, lock, loads>>

Answer(s) ==
    /\ search[s].step = "done"
    /\ search' = [search EXCEPT ![s] = NoSearch]
    /\ UNCHANGED <<cache, lock, loads>>

-----------------------------------------------------------------------------

NoSight == [free |-> {}, mine |-> {}, quiet |-> TRUE]

Init ==
    /\ trips = InitTrips /\ asks = {}
    /\ shippings \in {<<>>} \cup {<<[shipment |-> sp, trip |-> t, active |-> TRUE]>> :
                                    sp \in Shipments, t \in DOMAIN InitTrips}
    /\ listing = [sp \in Shipments |-> [open |-> TRUE, visible |-> TRUE, released |-> TRUE]]
    /\ onMap = Users
    /\ search = [s \in Searches |-> NoSearch]
    /\ cache = [loaded |-> FALSE, fresh |-> FALSE] /\ lock = Nobody
    /\ loads = 0 /\ changes = 0 /\ expiries = 0
    /\ seen = [s \in Searches |-> NoSight]

Laravel ==
    \/ \E u \in Users : RegisterTrip(u)
    \/ \E sp \in Shipments, t \in DOMAIN trips : Claim(sp, t) \/ SetAsk(sp, t)
    \/ \E i \in DOMAIN shippings : EndShipping(i)
    \/ \E sp \in Shipments, new \in Listings : new # listing[sp] /\ Relist(sp, new)

Step(s) ==
    \/ ReadCache(s) \/ LockCache(s) \/ Answer(s)
    \/ \E ok \in BOOLEAN : LoadTypes(s, ok) \/ AttachShippings(s, ok)

Serve == \E s \in Searches :
    Step(s) \/ \E v \in Viewers, want \in Wanted : Query(s, v, want)

Free(s) == {sp \in Shipments : ActiveOf(sp) \subseteq ActiveBy(search[s].viewer)}
Mine(s) == {sp \in Shipments : ActiveBy(search[s].viewer) \cap ActiveOf(sp) # {}}

Undisturbed == UNCHANGED <<dbVars, changes, expiries>>

\* From the query to the answer: which packages nobody else carried, which
\* the passenger carried, at some moment.
Observe ==
    seen' = [s \in Searches |->
        IF search'[s].step = "idle" THEN NoSight
        ELSE IF search[s].step = "done" THEN [seen[s] EXCEPT !.quiet = @ /\ UNCHANGED dbVars]
        ELSE [free  |-> seen[s].free \cup Free(s)',
              mine  |-> seen[s].mine \cup Mine(s)',
              quiet |-> seen[s].quiet /\ UNCHANGED dbVars]]

Next ==
    /\ \/ Serve /\ Undisturbed
       \/ CacheRunsOut
       \/ changes < MaxChanges /\ changes' = changes + 1 /\ Laravel /\ UNCHANGED <<svcVars, expiries>>
    /\ Observe

\* A request runs to its end, and sync.RWMutex starves neither readers nor
\* writers.
Fairness ==
    \A s \in Searches :
       /\ WF_vars(Step(s) /\ Undisturbed /\ Observe)
       /\ SF_vars((ReadCache(s) \/ LockCache(s)) /\ Undisturbed /\ Observe)

Spec == Init /\ [][Next]_vars /\ Fairness

-----------------------------------------------------------------------------
(* Properties. *)

Answered(s) == search[s].step = "done"
Shown(s) == search[s].rows

\* SearchNearby: every package in an answer was, at some moment of the search,
\* free of any other passenger's active shipping, and was not sent by the
\* passenger himself, also when the shippings could not be loaded and also
\* when it was claimed or given up between the two queries.
PackagesWereFree ==
    \A s \in Searches : Answered(s) =>
       /\ Shown(s) \subseteq seen[s].free
       /\ \A sp \in Shown(s) : Sender[sp] # search[s].viewer

\* can_resume_navigation is only ever set on a package the passenger himself
\* was carrying at some moment of the search, never for an anonymous caller.
ResumeIsOurs ==
    \A s \in Searches : Answered(s) =>
       /\ search[s].resume \subseteq Shown(s) \cap seen[s].mine
       /\ search[s].viewer = Anonymous => search[s].resume = {}

\* A passenger who left the map finds his delivery again: when the database
\* did not change during the search and no query failed, the listed package
\* he alone carries is in the answer and can be resumed, whatever the status
\* of the shipment has become, unless an accepted ask of another passenger,
\* the vehicle filter or nearer packages keep it out.
OwnDeliveryCanBeResumed ==
    \A s \in Searches :
       LET v == search[s].viewer
       IN  (Answered(s) /\ search[s].intact /\ seen[s].quiet) =>
              \A sp \in seen[s].mine :
                 \/ sp \in search[s].resume
                 \/ ~(VisibleOnMap(sp) /\ Released(sp))
                 \/ OwnCreated(sp, v)
                 \/ seen[s].free \cap {sp} = {} \/ AcceptedAskExists(sp, v)
                 \/ ~Fits(sp, search[s].want)
                 \/ ~WithinRadius(sp)
                 \/ Limit <= Cardinality({o \in Shipments \ {sp} : /\ OnNearbyMap(o, v)
                                                                   /\ Distance[o] <= Distance[sp]})

\* The double-checked lock: between two moments the cache runs out, the
\* vehicle types are loaded at most once, however many searches find it stale.
OneLoadPerPeriod == loads <= 1

\* No search waits for ever: not on the lock another search holds while it
\* loads, and not because that load failed.
SearchesAnswer ==
    \A s \in Searches : (search[s].step # "idle") ~> (search[s].step = "idle")
=============================================================================
