--------------------------- MODULE DriverPresence ---------------------------
(***************************************************************************)
(* Where the drivers are: internal/service/driver.go, its handler and its  *)
(* Redis store.  A position is written to a GEO index, which keeps it for  *)
(* ever, and to a hash that expires two minutes after the last update; a   *)
(* search reads the index, then one hash after the other, and drops from   *)
(* the index the members whose hash it could not read; then it asks the    *)
(* marketplace database, in three queries, who may be shown and what each  *)
(* one carries.  Updates, expiry and Laravel interleave with all of it.    *)
(*                                                                         *)
(* A position is its distance from the point all searches look around.     *)
(***************************************************************************)
EXTENDS LaravelDb

CONSTANTS Strays,        \* ids an API-key client may write that are no user id
          ApiKey,        \* the caller that authenticates with the API key
          Positions,
          Viewers,       \* callers of a search: users, or Anonymous
          Limits,        \* limits a request may ask for
          DefaultLimit,
          MaxLimit,      \* maxShipmentLimit, 500 in the code
          MaxChanges,    \* bound on updates, expiries and Laravel writes
          Nowhere

Members == Users \cup Strays
Callers == Users \cup {ApiKey}

ASSUME PresenceConstants ==
    /\ Positions \subseteq Nat /\ Nowhere \notin Positions
    /\ IsFiniteSet(Members)
    /\ Limits \subseteq Nat /\ Viewers \subseteq Users \cup {Anonymous}
    /\ MaxLimit \in Nat \ {0} /\ DefaultLimit \in 1 .. MaxLimit

VARIABLES geo,      \* the GEO index
          hash,     \* the location hashes
          search,   \* one request of SearchNearby
          read,     \* one request of GetUserLocation
          changes,  \* how many there were
          seen      \* ghost: what was true at some moment of the search and the read

redis == <<geo, hash>>
presenceVars == <<redis, search, read, dbVars>>
vars == <<presenceVars, changes, seen>>

NoJob == [kind |-> "none", id |-> 0]

NoIndex == [m \in Members |-> Nowhere]
NoSearch == [step |-> "idle", viewer |-> Anonymous, limit |-> DefaultLimit,
             todo |-> <<>>, found |-> <<>>, intact |-> TRUE]
NoRead == [step |-> "idle", caller |-> ApiKey, target |-> CHOOSE u \in Users : TRUE,
           pos |-> Nowhere]

-----------------------------------------------------------------------------
(* Writes. *)

\* A token names its user; an API-key client names the driver.
ResolveDriverID(caller, body) == IF caller = ApiKey THEN body ELSE caller

\* Index and hash are written in one transaction.
SetDriverLocation(id, pos) ==
    /\ geo' = [geo EXCEPT ![id] = pos]
    /\ hash' = [hash EXCEPT ![id] = pos]

RemoveDriverLocation(id) ==
    /\ geo' = [geo EXCEPT ![id] = Nowhere]
    /\ hash' = [hash EXCEPT ![id] = Nowhere]

\* POST /drivers/location
UpdateLocation(caller, body, pos) ==
    /\ SetDriverLocation(ResolveDriverID(caller, body), pos)
    /\ UNCHANGED <<search, read, dbVars>>

\* POST /gps/update without a trip: only for users.
UpdatePresence(caller, pos) ==
    /\ caller # ApiKey
    /\ SetDriverLocation(caller, pos)
    /\ UNCHANGED <<search, read, dbVars>>

GoOffline(caller, body) ==
    /\ RemoveDriverLocation(ResolveDriverID(caller, body))
    /\ UNCHANGED <<search, read, dbVars>>

\* driverLocationTTL passes.
HashExpires(m) ==
    /\ hash[m] # Nowhere
    /\ hash' = [hash EXCEPT ![m] = Nowhere]
    /\ UNCHANGED <<geo, search, read, dbVars>>

-----------------------------------------------------------------------------
(* SearchNearby. *)

Capped(n) == IF n > MaxLimit THEN MaxLimit ELSE n
Limit(asked) == IF asked = 0 THEN DefaultLimit ELSE Capped(asked)

First(q, n) == SubSeq(q, 1, IF Len(q) < n THEN Len(q) ELSE n)

\* GEOSEARCH ... ASC COUNT: members equally far come in any order.
GeoSearch(count) ==
    LET hits == {m \in Members : geo[m] # Nowhere /\ geo[m] <= Radius}
    IN  {First(q, count) :
            q \in {p \in SetToSeqs(hits) :
                      \A i, j \in DOMAIN p : i < j => geo[p[i]] <= geo[p[j]]}}

SearchNearby(v, asked) ==
    /\ search.step = "idle" /\ read.step = "idle"
    /\ \E q \in GeoSearch(Capped(Limit(asked) * 3)) :
          search' = [step |-> "hashes", viewer |-> v, limit |-> Limit(asked),
                     todo |-> [i \in DOMAIN q |-> [id |-> q[i], dist |-> geo[q[i]]]],
                     found |-> <<>>, intact |-> TRUE]
    /\ UNCHANGED <<redis, read, dbVars>>

\* getDriverLocationState of the next member; a failed read counts as no hash.
ReadHash(ok) ==
    /\ search.step = "hashes" /\ search.todo # <<>>
    /\ LET m == Head(search.todo)
       IN  search' = IF ok /\ hash[m.id] # Nowhere
                     THEN [search EXCEPT !.todo = Tail(@),
                                         !.found = Append(@, [id |-> m.id, pos |-> hash[m.id],
                                                              dist |-> m.dist, job |-> NoJob])]
                     ELSE [search EXCEPT !.step = "heal", !.intact = @ /\ ok]
    /\ UNCHANGED <<redis, read, dbVars>>

\* ZREM, whose own error is ignored.
Heal(ok) ==
    /\ search.step = "heal"
    /\ geo' = IF ok THEN [geo EXCEPT ![Head(search.todo).id] = Nowhere] ELSE geo
    /\ search' = [search EXCEPT !.step = "hashes", !.todo = Tail(@)]
    /\ UNCHANGED <<hash, read, dbVars>>

\* The first entries, up to the limit, whose ids are among the given ones.
FirstOf(q, ids, limit) ==
    LET out[n \in 0 .. Len(q)] ==
            IF n = 0 THEN <<>>
            ELSE IF q[n].id \in ids /\ Len(out[n - 1]) < limit THEN Append(out[n - 1], q[n])
            ELSE out[n - 1]
    IN  out[Len(q)]

\* Variants of ShownTo.
ShownFailingOpen(found, v, limit, ok) ==
    FirstOf(found, IF ok THEN FindVisibleOnMapUserIDs(Users \ {v}) ELSE Users \ {v}, limit)
ShownOfTheFirst(found, v, limit, ok) ==
    FirstOf(First(found, limit), IF ok THEN FindVisibleOnMapUserIDs(Users \ {v}) ELSE {}, limit)

\* The viewer, ids that are no user id, and users hidden by their profile are
\* left out; when the profiles cannot be read, everyone is.
ShownTo(found, v, limit, ok) ==
    FirstOf(found, IF ok THEN FindVisibleOnMapUserIDs(Users \ {v}) ELSE {}, limit)

FilterVisible(ok) ==
    /\ search.step = "hashes" /\ search.todo = <<>>
    /\ LET kept == ShownTo(search.found, search.viewer, search.limit, ok)
       IN  search' = [search EXCEPT !.found = kept, !.intact = @ /\ ok,
                                    !.step = IF kept = <<>> THEN "done" ELSE "shippings"]
    /\ UNCHANGED <<redis, read, dbVars>>

\* attachActiveShippings, first query: an error ends the enrichment.
AttachShippings(ok) ==
    /\ search.step = "shippings"
    /\ LET job(d)  == [kind |-> "shipping", id |-> LatestActiveShipping(d.id)]
           found   == [i \in DOMAIN search.found |->
                          IF ok /\ LatestActiveShipping(search.found[i].id) # 0
                          THEN [search.found[i] EXCEPT !.job = job(search.found[i])]
                          ELSE search.found[i]]
           missing == \E i \in DOMAIN found : found[i].job = NoJob
       IN  search' = [search EXCEPT !.found = found, !.intact = @ /\ ok,
                                    !.step = IF ok /\ missing THEN "trips" ELSE "done"]
    /\ UNCHANGED <<redis, read, dbVars>>

\* ... second query: the latest trip of those without a shipping.
AttachTrips(ok) ==
    /\ search.step = "trips"
    /\ search' = [search EXCEPT
           !.step = "done", !.intact = @ /\ ok,
           !.found = [i \in DOMAIN @ |->
                         LET d == @[i]
                         IN  IF ok /\ d.job = NoJob /\ LatestTrip(d.id) # 0
                             THEN [d EXCEPT !.job = [kind |-> "trip", id |-> LatestTrip(d.id)]]
                             ELSE d]]
    /\ UNCHANGED <<redis, read, dbVars>>

AnswerSearch ==
    /\ search.step = "done"
    /\ search' = NoSearch
    /\ UNCHANGED <<redis, read, dbVars>>

-----------------------------------------------------------------------------
(* GetUserLocation. *)

\* authorizeUserLocationRead; a failed query refuses.
Authorize(caller, u, ok) ==
    /\ read.step = "idle" /\ search.step = "idle"
    /\ read' = [step |-> IF \/ caller \in {ApiKey, u}
                            \/ ok /\ UsersShareActiveShipping(caller, u)
                         THEN "allowed" ELSE "refused",
                caller |-> caller, target |-> u, pos |-> Nowhere]
    /\ UNCHANGED <<redis, search, dbVars>>

\* GetPresence: Nowhere is "no live location", also when Redis fails.
GetPresence(ok) ==
    /\ read.step = "allowed"
    /\ read' = [read EXCEPT !.step = "done", !.pos = IF ok THEN hash[read.target] ELSE Nowhere]
    /\ UNCHANGED <<redis, search, dbVars>>

AnswerRead ==
    /\ read.step \in {"done", "refused"}
    /\ read' = NoRead
    /\ UNCHANGED <<redis, search, dbVars>>

-----------------------------------------------------------------------------

\* No request yet; each member is live, stale in the index, or absent.
Init ==
    /\ trips = InitTrips
    /\ shippings = <<>> /\ asks = {}
    /\ listing = [sp \in Shipments |-> [open |-> TRUE, visible |-> TRUE, released |-> TRUE]]
    /\ onMap \in SUBSET Users
    /\ geo \in [Members -> Positions \cup {Nowhere}]
    /\ hash \in {h \in [Members -> Positions \cup {Nowhere}] :
                    \A m \in Members : h[m] \in {geo[m], Nowhere}}
    /\ changes = 0
    /\ search = NoSearch /\ read = NoRead
    /\ seen = [live |-> {}, shown |-> {}, index |-> NoIndex, quiet |-> TRUE, positions |-> {}]

Redis ==
    \/ \E c \in Callers, m \in Members : GoOffline(c, m) \/ \E p \in Positions : UpdateLocation(c, m, p)
    \/ \E c \in Callers, p \in Positions : UpdatePresence(c, p)
    \/ \E m \in Members : HashExpires(m)

Search ==
    \/ \E v \in Viewers, l \in Limits : SearchNearby(v, l)
    \/ AnswerSearch
    \/ \E ok \in BOOLEAN : \/ ReadHash(ok) \/ Heal(ok) \/ FilterVisible(ok)
                           \/ AttachShippings(ok) \/ AttachTrips(ok)

Read ==
    \/ \E c \in Callers, u \in Users, ok \in BOOLEAN : Authorize(c, u, ok)
    \/ \E ok \in BOOLEAN : GetPresence(ok)
    \/ AnswerRead

Laravel ==
    /\ \/ \E u \in Users : ShowOnMap(u) \/ RegisterTrip(u)
       \/ \E sp \in Shipments, t \in DOMAIN trips : Claim(sp, t)
       \/ \E i \in DOMAIN shippings : EndShipping(i)
    /\ UNCHANGED <<redis, search, read>>

\* The ghost collects from the first step of a request to its answer.
Observe ==
    LET live == {<<m, hash'[m]>> : m \in {n \in Members : hash'[n] # Nowhere}}
        busy == search'.step \notin {"idle", "done"}
        over == search'.step = "idle"
    IN  seen' = [live  |-> IF over THEN {} ELSE IF busy THEN seen.live \cup live ELSE seen.live,
                 shown |-> IF over THEN {} ELSE IF busy THEN seen.shown \cup onMap' ELSE seen.shown,
                 index |-> IF over THEN NoIndex ELSE IF search.step = "idle" THEN geo ELSE seen.index,
                 quiet |-> over \/ (seen.quiet /\ UNCHANGED <<hash, trips, shippings, onMap>>),
                 positions |-> IF read'.step = "idle" THEN {}
                               ELSE seen.positions \cup ({hash'[read'.target]} \ {Nowhere})]

Next ==
    /\ \/ Search /\ UNCHANGED changes
       \/ Read /\ UNCHANGED changes
       \/ changes < MaxChanges /\ changes' = changes + 1 /\ (Redis \/ Laravel)
    /\ Observe

Spec == Init /\ [][Next]_vars

-----------------------------------------------------------------------------
(* Properties. *)

Answered == search.step = "done"
Ids(q) == {q[i].id : i \in DOMAIN q}

\* SearchNearby: whoever is shown, other than to himself, had at some moment
\* of the search exactly the position shown and, at some moment of it, a
\* profile visible on the map.  So a driver who went offline, whose hash had
\* expired, or who was hidden before the search began is not shown, whatever
\* fails on the way; and the answer has no more drivers than asked for.
ShownDriversWereThere ==
    Answered =>
      /\ Len(search.found) <= search.limit
      /\ \A i \in DOMAIN search.found :
            LET d == search.found[i]
            IN  /\ d.id # search.viewer
                /\ <<d.id, d.pos>> \in seen.live
                /\ d.id \in seen.shown

Eligible == {u \in Users \ {search.viewer} : /\ hash[u] # Nowhere /\ u \in onMap
                                             /\ seen.index[u] # Nowhere
                                             /\ seen.index[u] <= Radius}
Crowded == Cardinality({m \in Members : seen.index[m] # Nowhere /\ seen.index[m] <= Radius})
               > Capped(search.limit * 3)

Job(u) ==
    IF LatestActiveShipping(u) # 0 THEN [kind |-> "shipping", id |-> LatestActiveShipping(u)]
    ELSE IF LatestTrip(u) # 0 THEN [kind |-> "trip", id |-> LatestTrip(u)]
    ELSE NoJob

\* A search during which no call failed and nobody moved, expired or changed
\* his profile or jobs, and whose over-fetch covers the members in range,
\* answers with exactly the nearest eligible drivers, nearest first, each with
\* his latest active shipping or else his latest trip: neither the filters
\* after the fetch nor stale members of the index cost a result.
QuietSearchIsExact ==
    (Answered /\ search.intact /\ seen.quiet /\ ~Crowded) =>
      LET f == search.found
      IN  /\ Ids(f) \subseteq Eligible
          /\ Len(f) = Cardinality(Ids(f))
          /\ Ids(f) = Eligible \/ Len(f) = search.limit
          /\ \A i, j \in DOMAIN f : i < j => f[i].dist <= f[j].dist
          /\ \A i \in DOMAIN f, u \in Eligible \ Ids(f) : f[i].dist <= seen.index[u]
          /\ \A i \in DOMAIN f : f[i].job = Job(f[i].id)

\* GetUserLocation: a position is given to the user himself, to the API-key
\* client, or to the counterpart of one of the user's shippings, passenger
\* against sender or receiver; and it is one the user had while the request
\* was served.
ReadersAreCounterparts ==
    (read.step = "done" /\ read.pos # Nowhere) =>
      /\ \/ read.caller \in {ApiKey, read.target}
         \/ \E i \in DOMAIN shippings :
               /\ {read.caller, read.target} \cap Parties(i) # {}
               /\ Carrier(i) \in {read.caller, read.target}
               /\ {read.caller, read.target} \subseteq Parties(i) \cup {Carrier(i)}
      /\ read.pos \in seen.positions
=============================================================================
