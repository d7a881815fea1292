------------------------ MODULE ShipmentSearchProofs ------------------------
(***************************************************************************)
(* Machine-checked facts about the package search, for any number of       *)
(* searches, passengers and packages: what an answer shows, what can be    *)
(* resumed, and that the vehicle types are loaded once per period.         *)
(***************************************************************************)
EXTENDS ShipmentSearch, LaravelDbProofs

Steps == {"idle", "labels", "stale", "loading", "shippings", "done"}

Request ==
    [step : Steps, viewer : Users \cup {Anonymous}, want : SUBSET VehicleTypes, rows : SUBSET Shipments,
     labelled : BOOLEAN, resume : SUBSET Shipments, intact : BOOLEAN]

SearchTypeOK ==
    /\ ClaimsOK
    /\ search \in [Searches -> Request]
    /\ cache \in [loaded : BOOLEAN, fresh : BOOLEAN]
    /\ lock \in Searches \cup {Nobody}
    /\ loads \in Nat
    /\ seen \in [Searches -> [free : SUBSET Shipments, mine : SUBSET Shipments, quiet : BOOLEAN]]

\* Whoever loads holds the lock, and only while the cache is stale; a fresh
\* cache was loaded at most once.
LoaderIsAlone ==
    /\ loads <= 1
    /\ ~cache.fresh => loads = 0
    /\ \A s \in Searches : search[s].step = "loading" => lock = s /\ ~cache.fresh

\* The rows of a search were free from its first query on.
RowsWereFree ==
    \A s \in Searches : search[s].step # "idle" =>
       /\ search[s].rows \subseteq seen[s].free
       /\ \A sp \in search[s].rows : Sender[sp] # search[s].viewer

\* What can be resumed is known at the end only.
ResumeAtTheEnd ==
    \A s \in Searches :
       /\ search[s].step # "done" => search[s].resume = {}
       /\ search[s].step = "done" =>
            /\ search[s].resume \subseteq search[s].rows \cap seen[s].mine
            /\ search[s].viewer = Anonymous => search[s].resume = {}

\* As long as the database has not changed, what was seen is what is there.
QuietSight ==
    \A s \in Searches :
       /\ search[s].step = "idle" => seen[s] = NoSight
       /\ search[s].step # "idle" /\ seen[s].quiet => seen[s].free = Free(s) /\ seen[s].mine = Mine(s)

Nearer(sp, v) == {o \in Shipments \ {sp} : OnNearbyMap(o, v) /\ Distance[o] <= Distance[sp]}

FreeFor(v) == {sp \in Shipments : ActiveOf(sp) \subseteq ActiveBy(v)}
MineFor(v) == {sp \in Shipments : ActiveBy(v) \cap ActiveOf(sp) # {}}

\* The passenger's own deliveries that a search owes him.
OwedTo(v, want) ==
    {sp \in MineFor(v) \cap FreeFor(v) :
        /\ VisibleOnMap(sp) /\ Released(sp) /\ WithinRadius(sp)
        /\ ~OwnCreated(sp, v) /\ ~AcceptedAskExists(sp, v)
        /\ Fits(sp, want)
        /\ ~(Limit <= Cardinality(Nearer(sp, v)))}

Owed(s) == OwedTo(search[s].viewer, search[s].want)

\* They are among the rows until the shippings are attached, and then marked.
OwedIsKept ==
    \A s \in Searches : seen[s].quiet =>
       /\ search[s].step \in {"labels", "stale", "loading", "shippings"} => Owed(s) \subseteq search[s].rows
       /\ search[s].step = "done" /\ search[s].intact => Owed(s) \subseteq search[s].resume

\* The inductive invariant.
SearchInv == /\ SearchTypeOK /\ LoaderIsAlone
             /\ RowsWereFree /\ ResumeAtTheEnd /\ QuietSight /\ OwedIsKept

-----------------------------------------------------------------------------
(* What one step does to one search. *)

Begins(s, v, want) ==
    /\ search[s].step = "idle" /\ v \in Viewers /\ want \in Wanted
    /\ \E rows \in FindNearbyShipments(v, Limit) :
          search'[s] = [step |-> IF rows = {} THEN "done" ELSE "labels", viewer |-> v, want |-> want,
                        rows |-> rows, labelled |-> FALSE, resume |-> {}, intact |-> TRUE]

Waits(s) ==
    /\ search[s].step \in {"labels", "stale"}
    /\ search'[s] = [search[s] EXCEPT !.step = "stale"] \/ search'[s] = [search[s] EXCEPT !.step = "loading"]

Fitted(s) == {sp \in search[s].rows : Fits(sp, search[s].want)}

IsLabelled(s) ==
    /\ search[s].step \in {"labels", "stale", "loading"}
    /\ \E b \in BOOLEAN :
          search'[s] = [search[s] EXCEPT !.rows = Fitted(s), !.labelled = b,
                                         !.step = IF Fitted(s) = {} THEN "done" ELSE "shippings"]

Carried(s, ok) == {sp \in search[s].rows : ok /\ LoadShipping(sp) # 0}
Resumed(s, ok) == {sp \in Carried(s, ok) : MayResume(sp, search[s].viewer)}

Attaches(s, ok) ==
    /\ search[s].step = "shippings"
    /\ search'[s] = [search[s] EXCEPT !.step = "done", !.intact = ok,
                                      !.rows = @ \ (Carried(s, ok) \ Resumed(s, ok)), !.resume = Resumed(s, ok)]

\* A step moves one search or none; when it moves one, the database stays.
LEMMA OneSearchMoves ==
    ASSUME SearchTypeOK, Next, NEW s \in Searches
    PROVE  \/ search'[s] = search[s]
           \/ /\ UNCHANGED dbVars
              /\ \/ \E v \in Viewers, want \in Wanted : Begins(s, v, want)
                 \/ Waits(s)
                 \/ IsLabelled(s)
                 \/ \E ok \in BOOLEAN : Attaches(s, ok)
                 \/ search[s].step = "done" /\ search'[s] = NoSearch
<1>1. CASE Serve /\ Undisturbed
  <2>1. UNCHANGED dbVars
    BY <1>1 DEF Undisturbed
  <2>2. PICK t \in Searches : Step(t) \/ \E v \in Viewers, want \in Wanted : Query(t, v, want)
    BY <1>1 DEF Serve
  <2>3. search \in [Searches -> Request] /\ search[t] \in Request /\ cache \in [loaded : BOOLEAN, fresh : BOOLEAN]
    BY DEF SearchTypeOK
  <2>4. ASSUME NEW v \in Viewers, NEW want \in Wanted, Query(t, v, want)
        PROVE  /\ s # t => search'[s] = search[s]
               /\ s = t => Begins(s, v, want)
    BY <2>3, <2>4, ZenonT(60) DEF Query, Begins, NoSearch
  <2>5. CASE ReadCache(t)
    BY <2>1, <2>3, <2>5 DEF ReadCache, Move, Labelled, Fitted, Waits, IsLabelled
  <2>6. CASE LockCache(t)
    <3>1. CASE cache.fresh
      <4>1. search[t].step = "stale" /\ search' = [search EXCEPT ![t] = Labelled(@, cache.loaded)]
        BY <2>6, <3>1, Zenon DEF LockCache
      <4>. QED
        BY <2>1, <2>3, <4>1, ZenonT(60) DEF Labelled, Fitted, IsLabelled
    <3>2. CASE ~cache.fresh
      BY <2>1, <2>3, <2>6, <3>2 DEF LockCache, Move, Waits
    <3>. QED
      BY <3>1, <3>2
  <2>7. CASE Answer(t)
    BY <2>1, <2>3, <2>7 DEF Answer
  <2>8. ASSUME NEW ok \in BOOLEAN, LoadTypes(t, ok)
        PROVE  /\ s # t => search'[s] = search[s]
               /\ s = t => IsLabelled(s)
    BY <2>3, <2>8 DEF LoadTypes, LoadVehicleTypes, Labelled, Fitted, IsLabelled
  <2>9. ASSUME NEW ok \in BOOLEAN, AttachShippings(t, ok)
        PROVE  /\ s # t => search'[s] = search[s]
               /\ s = t => Attaches(s, ok)
    BY <2>3, <2>9 DEF AttachShippings, Attaches, Carried, Resumed
  <2>. QED
    BY <2>1, <2>2, <2>4, <2>5, <2>6, <2>7, <2>8, <2>9 DEF Step
<1>2. CASE CacheRunsOut
  BY <1>2 DEF CacheRunsOut
<1>3. CASE UNCHANGED svcVars
  BY <1>3 DEF svcVars
<1>. QED
  BY <1>1, <1>2, <1>3 DEF Next

\* What was seen of one search, after a step.
LEMMA SightStep ==
    ASSUME SearchTypeOK, Next, NEW s \in Searches
    PROVE  /\ search'[s].step = "idle" => seen'[s] = NoSight
           /\ search'[s].step # "idle" => (seen'[s].quiet <=> seen[s].quiet /\ UNCHANGED dbVars)
           /\ search'[s].step # "idle" /\ search[s].step = "done" =>
                seen'[s].free = seen[s].free /\ seen'[s].mine = seen[s].mine
           /\ search'[s].step # "idle" /\ search[s].step # "done" =>
                seen'[s].free = seen[s].free \cup Free(s)' /\ seen'[s].mine = seen[s].mine \cup Mine(s)'
<1>1. seen[s] \in [free : SUBSET Shipments, mine : SUBSET Shipments, quiet : BOOLEAN]
  BY DEF SearchTypeOK
<1>2. seen'[s] = IF search'[s].step = "idle" THEN NoSight
                 ELSE IF search[s].step = "done" THEN [seen[s] EXCEPT !.quiet = @ /\ UNCHANGED dbVars]
                 ELSE [free  |-> seen[s].free \cup Free(s)',
                       mine  |-> seen[s].mine \cup Mine(s)',
                       quiet |-> seen[s].quiet /\ UNCHANGED dbVars]
  BY DEF Next, Observe
<1>3. CASE search'[s].step = "idle"
  BY <1>2, <1>3
<1>4. CASE search'[s].step # "idle" /\ search[s].step = "done"
  <2>1. seen'[s] = [seen[s] EXCEPT !.quiet = @ /\ UNCHANGED dbVars]
    BY <1>2, <1>4
  <2>2. seen'[s].quiet <=> seen[s].quiet /\ UNCHANGED dbVars
    BY <1>1, <2>1, Zenon
  <2>. QED
    BY <1>1, <1>4, <2>1, <2>2
<1>5. CASE search'[s].step # "idle" /\ search[s].step # "done"
  <2>1. seen'[s] = [free  |-> seen[s].free \cup Free(s)',
                    mine  |-> seen[s].mine \cup Mine(s)',
                    quiet |-> seen[s].quiet /\ UNCHANGED dbVars]
    BY <1>2, <1>5
  <2>2. seen'[s].quiet <=> seen[s].quiet /\ UNCHANGED dbVars
    <3>1. seen'[s].quiet = (seen[s].quiet /\ UNCHANGED dbVars)
      BY <2>1
    <3>. QED
      BY <3>1, Zenon
  <2>. QED
    BY <1>5, <2>1, <2>2
<1>. QED
  BY <1>3, <1>4, <1>5

\* The lock, the cache and the count of its loads keep their types, and a load
\* ends what only its holder could have begun.
LEMMA LoaderStep ==
    ASSUME SearchTypeOK, LoaderIsAlone, Next
    PROVE  /\ cache' \in [loaded : BOOLEAN, fresh : BOOLEAN]
           /\ lock' \in Searches \cup {Nobody}
           /\ loads' \in Nat
           /\ LoaderIsAlone'
<1> USE DEF SearchTypeOK, LoaderIsAlone
<1>1. ASSUME NEW s \in Searches, NEW v \in Viewers, NEW want \in Wanted, Query(s, v, want)
      PROVE  /\ UNCHANGED <<cache, lock, loads>> /\ LoaderIsAlone'
  BY <1>1 DEF Query, NoSearch
<1>2. ASSUME NEW s \in Searches, ReadCache(s)
      PROVE  /\ UNCHANGED <<cache, lock, loads>> /\ LoaderIsAlone'
  BY <1>2 DEF ReadCache, Move, Labelled, Request
<1>3. ASSUME NEW s \in Searches, LockCache(s)
      PROVE  /\ cache' = cache /\ loads' = loads /\ lock' \in Searches \cup {Nobody} /\ LoaderIsAlone'
  <2>1. CASE cache.fresh
    <3>1. UNCHANGED <<cache, lock, loads>> /\ search' = [search EXCEPT ![s] = Labelled(@, cache.loaded)]
      BY <1>3, <2>1, Zenon DEF LockCache
    <3>. QED
      BY <3>1 DEF Labelled, Request
  <2>2. CASE ~cache.fresh
    BY <1>3, <2>2, SearchConstants DEF LockCache, Move, Request
  <2>. QED
    BY <2>1, <2>2
<1>4. ASSUME NEW s \in Searches, NEW ok \in BOOLEAN, LoadTypes(s, ok)
      PROVE  /\ cache' \in [loaded : BOOLEAN, fresh : BOOLEAN] /\ loads' \in Nat /\ lock' = Nobody
             /\ LoaderIsAlone'
  <2>1. /\ lock = s /\ ~cache.fresh /\ loads = 0 /\ lock' = Nobody
    BY <1>4 DEF LoadTypes
  <2>2. CASE ok
    BY <1>4, <2>1, <2>2 DEF LoadTypes, LoadVehicleTypes, Labelled, Request
  <2>3. CASE ~ok
    BY <1>4, <2>1, <2>3 DEF LoadTypes, LoadVehicleTypes, Labelled, Request
  <2>. QED
    BY <2>1, <2>2, <2>3
<1>5. ASSUME NEW s \in Searches, NEW ok \in BOOLEAN, AttachShippings(s, ok)
      PROVE  /\ UNCHANGED <<cache, lock, loads>> /\ LoaderIsAlone'
  <2>1. UNCHANGED <<cache, lock, loads>> /\ search'[s].step # "loading"
    BY <1>5, ZenonT(60) DEF AttachShippings, Request
  <2>2. \A t \in Searches : t # s => search'[t] = search[t]
    BY <1>5 DEF AttachShippings
  <2>. QED
    BY <2>1, <2>2
<1>6. ASSUME NEW s \in Searches, Answer(s)
      PROVE  /\ UNCHANGED <<cache, lock, loads>> /\ LoaderIsAlone'
  BY <1>6 DEF Answer, NoSearch
<1>7. CASE CacheRunsOut
  <2>1. /\ cache.fresh /\ UNCHANGED <<search, lock>>
        /\ cache' = [cache EXCEPT !.fresh = FALSE] /\ loads' = 0
    BY <1>7 DEF CacheRunsOut
  <2>2. cache' \in [loaded : BOOLEAN, fresh : BOOLEAN] /\ ~cache'.fresh
    BY <2>1
  <2>3. \A s \in Searches : search[s].step # "loading"
    BY <2>1
  <2>. QED
    BY <2>1, <2>2, <2>3
<1>8. CASE UNCHANGED svcVars
  BY <1>8 DEF svcVars
<1>. QED
  BY <1>1, <1>2, <1>3, <1>4, <1>5, <1>6, <1>7, <1>8 DEF Next, Serve, Step

-----------------------------------------------------------------------------
(* What the queries return. *)

\* Every row of the query is free for the passenger and not his own.
LEMMA RowsAreFree ==
    ASSUME NEW v, NEW rows \in FindNearbyShipments(v, Limit)
    PROVE  /\ rows \subseteq Shipments /\ rows \subseteq FreeFor(v)
           /\ \A sp \in rows : Sender[sp] # v
<1>1. rows \subseteq {sp \in Shipments : OnNearbyMap(sp, v)}
  BY DEF FindNearbyShipments
<1>2. ASSUME NEW sp, OnNearbyMap(sp, v)
      PROVE  ActiveOf(sp) \subseteq ActiveBy(v) /\ Sender[sp] # v
  BY <1>2 DEF OnNearbyMap, ActiveShippingExists, OwnCreated, ActiveOf, ActiveBy
<1>. QED
  BY <1>1, <1>2 DEF FreeFor

\* The query finds what it owes: a package is cut off by the limit only when
\* as many others are as near.
LEMMA OwedIsFound ==
    ASSUME NEW v, NEW want, NEW rows \in FindNearbyShipments(v, Limit)
    PROVE  OwedTo(v, want) \subseteq rows
<1> DEFINE hits == {sp \in Shipments : OnNearbyMap(sp, v)}
<1>1. SUFFICES ASSUME NEW sp \in OwedTo(v, want), sp \notin rows PROVE FALSE
  OBVIOUS
<1>2. sp \in hits
  <2>1. /\ sp \in Shipments /\ ActiveOf(sp) \subseteq ActiveBy(v) /\ ActiveBy(v) \cap ActiveOf(sp) # {}
        /\ VisibleOnMap(sp) /\ Released(sp) /\ WithinRadius(sp)
        /\ ~OwnCreated(sp, v) /\ ~AcceptedAskExists(sp, v)
    BY DEF OwedTo, MineFor, FreeFor
  <2>2. StatusEligible(sp, v) /\ ~ActiveShippingExists(sp, v)
    BY <2>1 DEF StatusEligible, ActiveShippingExists, ActiveBy
  <2>. QED
    BY <2>1, <2>2 DEF OnNearbyMap
<1>3. /\ rows \subseteq hits
      /\ Cardinality(rows) = IF Cardinality(hits) < Limit THEN Cardinality(hits) ELSE Limit
      /\ \A r \in rows, o \in hits \ rows : Distance[r] <= Distance[o]
  BY DEF FindNearbyShipments
<1> HIDE DEF hits
<1>4. IsFiniteSet(hits) /\ IsFiniteSet(Nearer(sp, v))
  BY FS_Subset, DbConstants DEF hits, Nearer
<1>5. Cardinality(rows) # Cardinality(hits)
  BY <1>1, <1>2, <1>3, <1>4, FS_Subset
<1>6. Cardinality(rows) = Limit
  BY <1>3, <1>5
<1>7. rows \subseteq Nearer(sp, v)
  BY <1>1, <1>2, <1>3 DEF Nearer, hits
<1>8. Cardinality(rows) <= Cardinality(Nearer(sp, v))
  BY <1>4, <1>7, FS_Subset
<1>. QED
  BY <1>6, <1>8 DEF OwedTo

\* As long as the database stays, what is free, carried and owed depends on
\* the passenger and the filter only.
LEMMA SameDb ==
    ASSUME NEW s \in Searches
    PROVE  /\ Free(s) = FreeFor(search[s].viewer) /\ Mine(s) = MineFor(search[s].viewer)
           /\ UNCHANGED dbVars =>
                /\ Free(s)' = FreeFor(search'[s].viewer) /\ Mine(s)' = MineFor(search'[s].viewer)
                /\ Owed(s)' = OwedTo(search'[s].viewer, search'[s].want)
<1>1. Free(s) = FreeFor(search[s].viewer) /\ Mine(s) = MineFor(search[s].viewer)
  BY DEF Free, Mine, FreeFor, MineFor
<1>2. ASSUME UNCHANGED dbVars
      PROVE  /\ Free(s)' = FreeFor(search'[s].viewer) /\ Mine(s)' = MineFor(search'[s].viewer)
             /\ Owed(s)' = OwedTo(search'[s].viewer, search'[s].want)
  <2>1. trips' = trips /\ shippings' = shippings /\ asks' = asks /\ listing' = listing
    BY <1>2 DEF dbVars, claims
  <2>2. Free(s)' = FreeFor(search'[s].viewer)
    BY <2>1 DEF Free, FreeFor, ActiveOf, ActiveBy, Carrier
  <2>3. Mine(s)' = MineFor(search'[s].viewer)
    BY <2>1 DEF Mine, MineFor, ActiveOf, ActiveBy, Carrier
  <2>4. Owed(s)' = OwedTo(search'[s].viewer, search'[s].want)
    BY <2>1 DEF Owed, OwedTo, MineFor, FreeFor, ActiveOf, ActiveBy, Carrier, VisibleOnMap, Released,
                AcceptedAskExists, Nearer, OnNearbyMap, StatusEligible, ActiveShippingExists
  <2>. QED
    BY <2>2, <2>3, <2>4
<1>. QED
  BY <1>1, <1>2
-----------------------------------------------------------------------------
(* The invariant is kept. *)

\* Every search keeps its type, and so does what was seen of it.
LEMMA SearchTypeStep ==
    ASSUME SearchInv, Next
    PROVE  SearchTypeOK'
<1>1. SearchTypeOK /\ LoaderIsAlone
  BY DEF SearchInv
<1>2. ASSUME NEW s \in Searches PROVE search'[s] \in Request
  <2>1. search[s] \in Request
    BY <1>1 DEF SearchTypeOK
  <2>2. ASSUME NEW v \in Viewers, NEW want \in Wanted, Begins(s, v, want) PROVE search'[s] \in Request
    BY <2>2, RowsAreFree, SearchConstants DEF Begins, Request, Steps
  <2>3. CASE Waits(s)
    BY <2>1, <2>3 DEF Waits, Request, Steps
  <2>4. CASE IsLabelled(s)
    <3>1. PICK b \in BOOLEAN :
             search'[s] = [search[s] EXCEPT !.rows = Fitted(s), !.labelled = b,
                                            !.step = IF Fitted(s) = {} THEN "done" ELSE "shippings"]
      BY <2>4 DEF IsLabelled
    <3>2. Fitted(s) \subseteq Shipments
      BY <2>1 DEF Fitted, Request
    <3>. QED
      BY <2>1, <3>1, <3>2 DEF Request, Steps
  <2>5. ASSUME NEW ok \in BOOLEAN, Attaches(s, ok) PROVE search'[s] \in Request
    <3>1. Resumed(s, ok) \subseteq Shipments
      BY <2>1 DEF Resumed, Carried, Request
    <3>. QED
      BY <2>1, <2>5, <3>1 DEF Attaches, Request, Steps
  <2>6. NoSearch \in Request
    BY DEF NoSearch, Request, Steps
  <2>. QED
    BY <1>1, <2>1, <2>2, <2>3, <2>4, <2>5, <2>6, OneSearchMoves
<1>3. search' \in [Searches -> Request]
  <2>1. search' = [s \in Searches |-> search'[s]]
    BY <1>1, ZenonT(60) DEF Next, Serve, Step, Query, ReadCache, LockCache, Answer, LoadTypes, AttachShippings, Move,
                CacheRunsOut, svcVars, SearchTypeOK
  <2>. QED
    BY <1>2, <2>1
<1>4. seen' \in [Searches -> [free : SUBSET Shipments, mine : SUBSET Shipments, quiet : BOOLEAN]]
  <2>1. ASSUME NEW s \in Searches
        PROVE  seen'[s] \in [free : SUBSET Shipments, mine : SUBSET Shipments, quiet : BOOLEAN]
    <3>1. seen[s] \in [free : SUBSET Shipments, mine : SUBSET Shipments, quiet : BOOLEAN]
      BY <1>1 DEF SearchTypeOK
    <3>2. Free(s)' \in SUBSET Shipments /\ Mine(s)' \in SUBSET Shipments
      BY DEF Free, Mine
    <3>3. CASE search'[s].step = "idle"
      BY <3>3 DEF Next, Observe, NoSight
    <3>4. CASE search'[s].step # "idle" /\ search[s].step = "done"
      <4>1. seen'[s] = [seen[s] EXCEPT !.quiet = @ /\ UNCHANGED dbVars]
        BY <3>4 DEF Next, Observe
      <4>. QED
        BY <3>1, <4>1
    <3>5. CASE search'[s].step # "idle" /\ search[s].step # "done"
      <4>1. seen'[s] = [free  |-> seen[s].free \cup Free(s)',
                        mine  |-> seen[s].mine \cup Mine(s)',
                        quiet |-> seen[s].quiet /\ UNCHANGED dbVars]
        BY <3>5 DEF Next, Observe
      <4>. QED
        BY <3>1, <3>2, <4>1
    <3>. QED
      BY <3>3, <3>4, <3>5
  <2>2. seen' = [s \in Searches |-> seen'[s]]
    BY DEF Next, Observe
  <2>. QED
    BY <2>1, <2>2
<1>5. ClaimStep
  BY DEF Next, Laravel, CacheRunsOut, Undisturbed, dbVars, claims, SetAsk, Relist, ClaimStep
<1>. QED
  BY <1>1, <1>3, <1>4, <1>5, ClaimsGrow, LoaderStep DEF SearchTypeOK

\* The rows of a search come from its first query, which saw them free; later
\* steps only take rows away, and what was seen only grows.
LEMMA RowsStep ==
    ASSUME SearchInv, Next
    PROVE  RowsWereFree'
<1> USE DEF SearchInv
<1> SUFFICES ASSUME NEW s \in Searches, search'[s].step # "idle"
             PROVE  /\ search'[s].rows \subseteq seen'[s].free
                    /\ \A sp \in search'[s].rows : Sender[sp] # search'[s].viewer
  BY DEF RowsWereFree
<1>1. search[s] \in Request
  BY DEF SearchTypeOK
<1>2. seen[s].free \subseteq seen'[s].free
  BY SightStep, Zenon
<1>3. search[s].step # "idle" => /\ search[s].rows \subseteq seen[s].free
                                 /\ \A sp \in search[s].rows : Sender[sp] # search[s].viewer
  BY DEF RowsWereFree
<1>4. ASSUME search[s].step # "idle", search'[s].rows \subseteq search[s].rows, search'[s].viewer = search[s].viewer
      PROVE  /\ search'[s].rows \subseteq seen'[s].free
             /\ \A sp \in search'[s].rows : Sender[sp] # search'[s].viewer
  BY <1>2, <1>3, <1>4
<1>5. ASSUME NEW v \in Viewers, NEW want \in Wanted, Begins(s, v, want), UNCHANGED dbVars
      PROVE  /\ search'[s].rows \subseteq seen'[s].free
             /\ \A sp \in search'[s].rows : Sender[sp] # search'[s].viewer
  <2>1. /\ search[s].step = "idle" /\ search'[s].viewer = v
        /\ search'[s].rows \in FindNearbyShipments(v, Limit)
    BY <1>5 DEF Begins
  <2>2. seen'[s].free = seen[s].free \cup Free(s)' /\ Free(s)' = FreeFor(v)
    BY <1>5, <2>1, SightStep, SameDb
  <2>. QED
    BY <2>1, <2>2, RowsAreFree
<1>6. CASE search'[s] = search[s]
  BY <1>4, <1>6
<1>7. CASE Waits(s)
  BY <1>1, <1>4, <1>7 DEF Waits, Request
<1>8. CASE IsLabelled(s)
  <2>1. search'[s].rows = Fitted(s) /\ search'[s].viewer = search[s].viewer /\ search[s].step # "idle"
    BY <1>1, <1>8 DEF IsLabelled, Request
  <2>. QED
    BY <1>4, <2>1 DEF Fitted
<1>9. ASSUME NEW ok \in BOOLEAN, Attaches(s, ok)
      PROVE  /\ search'[s].rows \subseteq seen'[s].free
             /\ \A sp \in search'[s].rows : Sender[sp] # search'[s].viewer
  BY <1>1, <1>4, <1>9 DEF Attaches, Request
<1>. QED
  BY <1>5, <1>6, <1>7, <1>8, <1>9, OneSearchMoves DEF NoSearch

\* The shippings that are attached are the ones carried at that moment.
LEMMA ResumeStep ==
    ASSUME SearchInv, Next
    PROVE  ResumeAtTheEnd'
<1> USE DEF SearchInv
<1> SUFFICES ASSUME NEW s \in Searches
             PROVE  /\ search'[s].step # "done" => search'[s].resume = {}
                    /\ search'[s].step = "done" =>
                         /\ search'[s].resume \subseteq search'[s].rows \cap seen'[s].mine
                         /\ search'[s].viewer = Anonymous => search'[s].resume = {}
  BY DEF ResumeAtTheEnd
<1>1. search[s] \in Request
  BY DEF SearchTypeOK
<1>2. /\ search[s].step # "done" => search[s].resume = {}
      /\ search[s].step = "done" =>
           /\ search[s].resume \subseteq search[s].rows \cap seen[s].mine
           /\ search[s].viewer = Anonymous => search[s].resume = {}
  BY DEF ResumeAtTheEnd
<1>3. ASSUME NEW v \in Viewers, NEW want \in Wanted, Begins(s, v, want) PROVE search'[s].resume = {}
  BY <1>3 DEF Begins
<1>4. CASE search'[s] = search[s]
  <2>1. search[s].step = "done" => seen'[s].mine = seen[s].mine
    BY <1>4, SightStep
  <2>. QED
    BY <1>2, <1>4, <2>1
<1>5. CASE Waits(s)
  BY <1>1, <1>2, <1>5 DEF Waits, Request
<1>6. CASE IsLabelled(s)
  BY <1>1, <1>2, <1>6 DEF IsLabelled, Request
<1>7. ASSUME NEW ok \in BOOLEAN, Attaches(s, ok), UNCHANGED dbVars
      PROVE  /\ search'[s].step = "done"
             /\ search'[s].resume \subseteq search'[s].rows \cap seen'[s].mine
             /\ search'[s].viewer = Anonymous => search'[s].resume = {}
  <2>1. /\ search[s].step = "shippings" /\ search'[s].step = "done"
        /\ search'[s].resume = Resumed(s, ok) /\ search'[s].viewer = search[s].viewer
        /\ search'[s].rows = search[s].rows \ (Carried(s, ok) \ Resumed(s, ok))
    BY <1>1, <1>7 DEF Attaches, Request
  <2>2. seen'[s].mine = seen[s].mine \cup MineFor(search[s].viewer)
    BY <1>7, <2>1, SightStep, SameDb
  <2>3. ASSUME NEW sp \in Resumed(s, ok)
        PROVE  /\ sp \in search'[s].rows /\ sp \in MineFor(search[s].viewer) /\ search[s].viewer # Anonymous
    <3>1. /\ sp \in search[s].rows /\ LoadShipping(sp) # 0 /\ search[s].viewer # Anonymous
          /\ Carrier(LoadShipping(sp)) = search[s].viewer
      BY DEF Resumed, Carried, MayResume
    <3>2. LoadShipping(sp) \in ActiveOf(sp)
      BY <3>1, ShippingFound DEF SearchTypeOK
    <3>3. LoadShipping(sp) \in ActiveBy(search[s].viewer)
      BY <3>1, <3>2 DEF ActiveOf, ActiveBy
    <3>4. sp \in Shipments
      BY <1>1, <3>1 DEF Request
    <3>. QED
      BY <2>1, <3>1, <3>2, <3>3, <3>4 DEF MineFor
  <2>. QED
    BY <2>1, <2>2, <2>3
<1>8. CASE search'[s] = NoSearch
  BY <1>8 DEF NoSearch
<1>. QED
  BY <1>3, <1>4, <1>5, <1>6, <1>7, <1>8, OneSearchMoves

\* Nothing is forgotten of what was seen, and nothing new is seen while the
\* database stays.
LEMMA QuietStep ==
    ASSUME SearchInv, Next
    PROVE  QuietSight'
<1> USE DEF SearchInv
<1> SUFFICES ASSUME NEW s \in Searches
             PROVE  /\ search'[s].step = "idle" => seen'[s] = NoSight
                    /\ search'[s].step # "idle" /\ seen'[s].quiet =>
                         seen'[s].free = Free(s)' /\ seen'[s].mine = Mine(s)'
  <2>1. NoSight' = NoSight
    BY DEF NoSight
  <2>. QED
    BY <2>1 DEF QuietSight
<1>1. search'[s].step = "idle" => seen'[s] = NoSight
  BY SightStep
<1>2. ASSUME search'[s].step # "idle", seen'[s].quiet
      PROVE  seen'[s].free = Free(s)' /\ seen'[s].mine = Mine(s)'
  <2>1. seen[s].quiet /\ UNCHANGED dbVars
    BY <1>2, SightStep, Zenon
  <2>2. Free(s)' = FreeFor(search'[s].viewer) /\ Mine(s)' = MineFor(search'[s].viewer)
    BY <2>1, SameDb
  <2>3. CASE search[s].step = "idle"
    <3>1. seen[s].free = {} /\ seen[s].mine = {}
      BY <2>3 DEF QuietSight, NoSight
    <3>. QED
      BY <1>2, <2>3, <3>1, SightStep
  <2>4. CASE search[s].step # "idle"
    <3>1. seen[s].free = FreeFor(search[s].viewer) /\ seen[s].mine = MineFor(search[s].viewer)
      BY <2>1, <2>4, SameDb DEF QuietSight
    <3>2. search'[s].viewer = search[s].viewer
      <4>1. search[s] \in Request
        BY DEF SearchTypeOK
      <4>2. Waits(s) \/ IsLabelled(s) \/ (\E ok \in BOOLEAN : Attaches(s, ok)) \/ search'[s] = search[s]
        BY <1>2, <2>4, OneSearchMoves DEF Begins, NoSearch
      <4>3. Waits(s) => search'[s].viewer = search[s].viewer
        BY <4>1 DEF Waits, Request
      <4>4. IsLabelled(s) => search'[s].viewer = search[s].viewer
        BY <4>1 DEF IsLabelled, Request
      <4>5. \A ok \in BOOLEAN : Attaches(s, ok) => search'[s].viewer = search[s].viewer
        BY <4>1 DEF Attaches, Request
      <4>. QED
        BY <4>2, <4>3, <4>4, <4>5
    <3>3. search[s].step = "done" => seen'[s].free = seen[s].free /\ seen'[s].mine = seen[s].mine
      BY <1>2, SightStep
    <3>4. search[s].step # "done" =>
            seen'[s].free = seen[s].free \cup Free(s)' /\ seen'[s].mine = seen[s].mine \cup Mine(s)'
      BY <1>2, SightStep
    <3>. QED
      BY <2>2, <3>1, <3>2, <3>3, <3>4
  <2>. QED
    BY <2>3, <2>4
<1>. QED
  BY <1>1, <1>2

\* The first query finds what is owed, the vehicle filter lets it through, and
\* the second query recognises the passenger as its carrier.
LEMMA OwedStep ==
    ASSUME SearchInv, Next
    PROVE  OwedIsKept'
<1> USE DEF SearchInv
<1> DEFINE open == {"labels", "stale", "loading", "shippings"}
<1> SUFFICES ASSUME NEW s \in Searches, seen'[s].quiet, search'[s].step # "idle"
             PROVE  /\ search'[s].step \in open => Owed(s)' \subseteq search'[s].rows
                    /\ search'[s].step = "done" /\ search'[s].intact => Owed(s)' \subseteq search'[s].resume
  BY DEF OwedIsKept
<1>1. search[s] \in Request
  BY DEF SearchTypeOK
<1>2. seen[s].quiet /\ UNCHANGED dbVars
  BY SightStep, Zenon
<1>3. Owed(s)' = OwedTo(search'[s].viewer, search'[s].want)
  BY <1>2, SameDb
<1>4. /\ search[s].step \in open => OwedTo(search[s].viewer, search[s].want) \subseteq search[s].rows
      /\ search[s].step = "done" /\ search[s].intact =>
           OwedTo(search[s].viewer, search[s].want) \subseteq search[s].resume
  BY <1>2 DEF OwedIsKept, Owed
<1>5. ASSUME NEW v \in Viewers, NEW want \in Wanted, Begins(s, v, want)
      PROVE  /\ search'[s].step \in open => Owed(s)' \subseteq search'[s].rows
             /\ search'[s].step = "done" => Owed(s)' \subseteq search'[s].resume
  <2>1. /\ search'[s].rows \in FindNearbyShipments(v, Limit)
        /\ search'[s].viewer = v /\ search'[s].want = want
        /\ search'[s].step = "done" => search'[s].rows = {}
    BY <1>5 DEF Begins
  <2>2. OwedTo(v, want) \subseteq search'[s].rows
    BY <2>1, OwedIsFound
  <2>. QED
    BY <1>3, <2>1, <2>2
<1>6. CASE search'[s] = search[s]
  BY <1>3, <1>4, <1>6
<1>7. CASE Waits(s)
  BY <1>1, <1>3, <1>4, <1>7 DEF Waits, Request
<1>8. CASE IsLabelled(s)
  <2>1. /\ search[s].step \in open /\ search'[s].rows = Fitted(s)
        /\ search'[s].viewer = search[s].viewer /\ search'[s].want = search[s].want
        /\ search'[s].step = "done" => Fitted(s) = {}
    BY <1>1, <1>8 DEF IsLabelled, Request
  <2>2. OwedTo(search[s].viewer, search[s].want) \subseteq Fitted(s)
    BY <1>4, <2>1 DEF OwedTo, Fitted
  <2>. QED
    BY <1>3, <2>1, <2>2
<1>9. ASSUME NEW ok \in BOOLEAN, Attaches(s, ok)
      PROVE  /\ search'[s].step = "done"
             /\ search'[s].intact => Owed(s)' \subseteq search'[s].resume
  <2>1. /\ search[s].step \in open /\ search'[s].step = "done" /\ search'[s].resume = Resumed(s, ok)
        /\ search'[s].viewer = search[s].viewer /\ search'[s].want = search[s].want
        /\ search'[s].intact = ok
    BY <1>1, <1>9 DEF Attaches, Request
  <2>2. ASSUME ok, NEW sp \in OwedTo(search[s].viewer, search[s].want)
        PROVE  sp \in Resumed(s, ok)
    <3>1. /\ sp \in search[s].rows
          /\ ActiveOf(sp) \subseteq ActiveBy(search[s].viewer) /\ ActiveOf(sp) # {}
      BY <1>4, <2>1 DEF OwedTo, FreeFor, MineFor
    <3>2. LoadShipping(sp) # 0 /\ LoadShipping(sp) \in ActiveBy(search[s].viewer)
      BY <3>1, ShippingFound DEF SearchTypeOK
    <3>3. Carrier(LoadShipping(sp)) = search[s].viewer /\ search[s].viewer # Anonymous
      BY <3>2, ShippingFound, DbConstants DEF ActiveBy, SearchTypeOK
    <3>. QED
      BY <2>2, <3>1, <3>2, <3>3 DEF Resumed, Carried, MayResume
  <2>. QED
    BY <1>3, <2>1, <2>2
<1>. QED
  BY <1>5, <1>6, <1>7, <1>8, <1>9, OneSearchMoves DEF NoSearch

\* A step that changes nothing keeps the invariant.
LEMMA StutterKeeps ==
    ASSUME SearchInv, UNCHANGED vars
    PROVE  SearchInv'
<1>1. UNCHANGED <<search, cache, lock, loads, trips, shippings, asks, listing, onMap, seen>> /\ UNCHANGED dbVars
  BY DEF vars, svcVars, dbVars, claims
<1>2. SearchTypeOK' /\ LoaderIsAlone' /\ RowsWereFree' /\ ResumeAtTheEnd'
  BY <1>1 DEF SearchInv, SearchTypeOK, ClaimsOK, LoaderIsAlone, RowsWereFree, ResumeAtTheEnd
<1>3. ASSUME NEW s \in Searches
      PROVE  Free(s)' = Free(s) /\ Mine(s)' = Mine(s) /\ Owed(s)' = Owed(s)
  BY <1>1, SameDb DEF Owed
<1>4. QuietSight'
  BY <1>1, <1>3 DEF SearchInv, QuietSight, NoSight
<1>5. OwedIsKept'
  BY <1>1, <1>3 DEF SearchInv, OwedIsKept
<1>. QED
  BY <1>2, <1>4, <1>5 DEF SearchInv

\* ShipmentService.SearchNearby: the invariant behind the theorems below.
THEOREM SearchInvariant == Spec => []SearchInv
<1>1. Init => SearchInv
  <2>1. SUFFICES ASSUME Init PROVE SearchInv
    OBVIOUS
  <2>2. SearchTypeOK
    <3>1. trips \in Seq(Users)
      BY <2>1, DbConstants DEF Init
    <3>2. shippings \in Seq(Shipping) /\ \A i \in DOMAIN shippings : shippings[i].trip \in DOMAIN trips
      <4>1. CASE shippings = <<>>
        BY <4>1
      <4>2. ASSUME NEW sp \in Shipments, NEW t \in DOMAIN InitTrips,
                   shippings = <<[shipment |-> sp, trip |-> t, active |-> TRUE]>>
            PROVE  shippings \in Seq(Shipping) /\ \A i \in DOMAIN shippings : shippings[i].trip \in DOMAIN trips
        <5>1. t \in Nat
          BY DbConstants
        <5>2. [shipment |-> sp, trip |-> t, active |-> TRUE] \in Shipping
          BY <5>1 DEF Shipping
        <5>. QED
          BY <2>1, <4>2, <5>2 DEF Init
      <4>. QED
        BY <2>1, <4>1, <4>2 DEF Init
    <3>3. NoSearch \in Request /\ NoSight \in [free : SUBSET Shipments, mine : SUBSET Shipments, quiet : BOOLEAN]
      BY DEF NoSearch, Request, Steps, NoSight
    <3>. QED
      BY <2>1, <3>1, <3>2, <3>3 DEF Init, SearchTypeOK, ClaimsOK
  <2>3. /\ \A s \in Searches : search[s] = NoSearch /\ seen[s] = NoSight
        /\ loads = 0
    BY <2>1 DEF Init
  <2>. QED
    BY <2>2, <2>3 DEF SearchInv, LoaderIsAlone, RowsWereFree, ResumeAtTheEnd, QuietSight, OwedIsKept, NoSearch
<1>2. SearchInv /\ [Next]_vars => SearchInv'
  <2>1. SearchInv /\ Next => SearchInv'
    BY SearchTypeStep, LoaderStep, RowsStep, ResumeStep, QuietStep, OwedStep DEF SearchInv
  <2>. QED
    BY <2>1, StutterKeeps
<1>. QED
  BY <1>1, <1>2, PTL DEF Spec

\* The double-checked lock (shipment.go, vehicleTypes): however many searches
\* find the cache stale, the types are loaded at most once per period.
THEOREM LoadedOncePerPeriod == Spec => []OneLoadPerPeriod
<1>1. SearchInv => OneLoadPerPeriod
  BY DEF SearchInv, LoaderIsAlone, OneLoadPerPeriod
<1>. QED
  BY <1>1, SearchInvariant, PTL

\* SearchNearby: every package in an answer was free of anybody else's
\* shipping at some moment of the search, and not sent by the passenger.
THEOREM AnswersWereFree == Spec => []PackagesWereFree
<1>1. SearchInv => PackagesWereFree
  BY DEF SearchInv, RowsWereFree, PackagesWereFree, Answered, Shown
<1>. QED
  BY <1>1, SearchInvariant, PTL

\* can_resume_navigation is only set on the passenger's own delivery.
THEOREM OnlyOursCanBeResumed == Spec => []ResumeIsOurs
<1>1. SearchInv => ResumeIsOurs
  BY DEF SearchInv, ResumeAtTheEnd, ResumeIsOurs, Answered, Shown
<1>. QED
  BY <1>1, SearchInvariant, PTL

\* A passenger who left the map finds his delivery again: a quiet search in
\* which nothing failed marks it, with the excuses the property names.
THEOREM OursCanBeResumed == Spec => []OwnDeliveryCanBeResumed
<1>1. SearchInv => OwnDeliveryCanBeResumed
  <2>1. SUFFICES ASSUME SearchInv, NEW s \in Searches, Answered(s), search[s].intact, seen[s].quiet,
                        NEW sp \in seen[s].mine, sp \notin search[s].resume,
                        VisibleOnMap(sp), Released(sp), ~OwnCreated(sp, search[s].viewer),
                        sp \in seen[s].free, ~AcceptedAskExists(sp, search[s].viewer),
                        Fits(sp, search[s].want), WithinRadius(sp)
                 PROVE  Limit <= Cardinality(Nearer(sp, search[s].viewer))
    BY DEF OwnDeliveryCanBeResumed, Nearer
  <2>2. sp \in MineFor(search[s].viewer) /\ sp \in FreeFor(search[s].viewer)
    BY <2>1, SameDb DEF SearchInv, QuietSight, Answered
  <2>3. sp \notin Owed(s)
    BY <2>1 DEF SearchInv, OwedIsKept, Answered
  <2>. QED
    BY <2>1, <2>2, <2>3 DEF Owed, OwedTo
<1>. QED
  BY <1>1, SearchInvariant, PTL
=============================================================================
