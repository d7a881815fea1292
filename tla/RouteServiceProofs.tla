------------------------- MODULE RouteServiceProofs -------------------------
(***************************************************************************)
(* Machine-checked facts about RouteService, for any number of requests,   *)
(* any semaphore limits and any startup settings: the semaphores are       *)
(* accounted for, singleflight always has a leader, the road graph is      *)
(* loaded once, and every answer fits the question it is given for.        *)
(***************************************************************************)
EXTENDS RouteService, TLAPS, FiniteSetTheorems

\* A goroutine's question is known from its arrival on, it has no route before,
\* and only one that skips the flight is marked as a cache hit.
Asked ==
  \A r \in Requests :
    /\ pc[r] = "idle" => req[r] = None /\ got[r] = None
    /\ pc[r] # "idle" => req[r] \in Question
    /\ hit[r] => pc[r] \in {"store", "done"}

\* Who holds a slot, and how many do: the two halves of SlotsAccounted.
SlotHolders ==
  /\ total = {r \in Requests : pc[r] \in Holding /\ ~hit[r]}
  /\ osrm = {r \in Requests : pc[r] = "osrm_call"}
  /\ internal = {r \in Requests : /\ pc[r] \in {"engine", "load_wait", "loading", "search"}
                                  /\ req[r].mode # "airplane"}

Within(sem, limit) == limit = 0 \/ Cardinality(sem) <= limit

SlotBounds ==
  /\ Within(total, MaxInFlight)
  /\ Within(osrm, OsrmMaxInFlight)
  /\ Within(internal, InternalMaxInFlight)

\* A registered flight is led by a request that computes its key.
FlightsHaveLeaders ==
  \A k \in Key : flight[k] # NoReq => pc[flight[k]] \in Leading /\ KeyOf(flight[k]) = k

\* b.mu is held across a step only while its holder loads the graph, and a
\* loaded engine has a road graph.
LoaderHoldsLock ==
  /\ mu # NoReq => pc[mu] = "loading"
  /\ engine = {} \/ "road" \in engine

Matches(k, v) == v.mode = k.mode /\ v.alts = k.alts /\ v.cell = k.cell

\* A cache entry was computed for the key it is stored under.
CacheFitsKeys == \A k \in Key : cache[k] # None => Matches(k, cache[k])

\* The inductive invariant.
RouteInv ==
  /\ TypeOK
  /\ Asked
  /\ SlotHolders
  /\ SlotBounds
  /\ FlightsAreLed
  /\ FlightsHaveLeaders
  /\ LoadedOnce
  /\ LoaderHoldsLock
  /\ CacheFitsKeys
  /\ AnswersFitTheQuestion

\* However many alternatives are asked for, one to three are searched.
LEMMA AlternativesAreCounted ==
  ASSUME NEW n \in RawAlternatives
  PROVE  NormalizeAlternatives(n) \in AltCounts
BY LimitsAssumption DEF NormalizeAlternatives, AltCounts

\* The key of a question is a key of the cache and of the flight group.
LEMMA KeyOfQuestion ==
  ASSUME NEW q \in Question
  PROVE  RouteKey(q) \in Key
BY AlternativesAreCounted DEF Question, RouteKey, Key

\* A backend answers a question with a route for its key.
LEMMA ResponseFits ==
  ASSUME NEW q \in Question
  PROVE  Response(q) \in Route /\ Matches(RouteKey(q), Response(q))
BY AlternativesAreCounted DEF Question, Response, Route, RouteKey, Matches

\* Every step preserves the types.
LEMMA TypeStep ==
  ASSUME TypeOK, Asked, [Next]_vars
  PROVE  TypeOK'
<1> USE DEF TypeOK, Ranges, Holding, Leading, Errors
<1>1. ASSUME NEW r \in Requests, CacheHit(r) PROVE Ranges'
  <2>1. cache[KeyOf(r)] \in Route \cup {None}
    BY <1>1, KeyOfQuestion DEF CacheHit, KeyOf, Asked
  <2>. QED
    BY <1>1, <2>1 DEF CacheHit, Goto, semVars, storeVars
<1>2. ASSUME NEW r \in Requests, CacheMiss(r) PROVE Ranges'
  BY <1>2 DEF CacheMiss, Goto, semVars, storeVars
<1>3. ASSUME NEW r \in Requests, TrySlot(r) PROVE Ranges'
  BY <1>3 DEF TrySlot, Goto, storeVars
<1>4. ASSUME NEW r \in Requests, SlotGranted(r) PROVE Ranges'
  BY <1>4 DEF SlotGranted, Goto, storeVars
<1>5. ASSUME NEW r \in Requests, SlotRefused(r) PROVE Ranges'
  BY <1>5 DEF SlotRefused, Goto, semVars, storeVars
<1>6. ASSUME NEW r \in Requests, JoinFlight(r) PROVE Ranges'
  <2>1. KeyOf(r) \in Key
    BY <1>6, KeyOfQuestion DEF JoinFlight, KeyOf, Asked
  <2>. QED
    BY <1>6, <2>1 DEF JoinFlight, Goto, semVars, storeVars
<1>7. ASSUME NEW r \in Requests, Store(r) PROVE Ranges'
  BY <1>7 DEF Store, Goto
<1>8. ASSUME NEW r \in Requests, OsrmSlot(r) PROVE Ranges'
  BY <1>8 DEF OsrmSlot, Goto, PrimaryFails, storeVars
<1>9. ASSUME NEW r \in Requests, OsrmReturns(r) PROVE Ranges'
  <2>1. Response(req[r]) \in Route
    BY <1>9, ResponseFits DEF OsrmReturns, Asked
  <2>. QED
    BY <1>9, <2>1 DEF OsrmReturns, Goto, PrimaryFails, askVars, semVars, storeVars
<1>10. ASSUME NEW r \in Requests, Fallback(r) PROVE Ranges'
  BY <1>10 DEF Fallback, Goto, FailFlight, Crew, storeVars
<1>11. ASSUME NEW r \in Requests, InternalSlot(r) PROVE Ranges'
  BY <1>11 DEF InternalSlot, Goto, FailFlight, Crew, storeVars
<1>12. ASSUME NEW r \in Requests, EngineFor(r) PROVE Ranges'
  BY <1>12 DEF EngineFor, Goto, FailFlight, Crew, storeVars
<1>13. ASSUME NEW r \in Requests, LockForLoad(r) PROVE Ranges'
  BY <1>13 DEF LockForLoad, Goto, semVars, storeVars
<1>14. ASSUME NEW r \in Requests, LoadReturns(r) PROVE Ranges'
  <2>1. CASE \E g \in SUBSET {"rail", "transit"} : engine' = {"road"} \cup g
    BY <1>14, <2>1 DEF LoadReturns, Goto, FailFlight, storeVars
  <2>2. CASE FailFlight(r, IF expired[r] THEN "timeout" ELSE "unavailable") /\ UNCHANGED engine
    BY <1>14, <2>2 DEF LoadReturns, FailFlight, storeVars
  <2>. QED
    BY <1>14, <2>1, <2>2 DEF LoadReturns
<1>15. ASSUME NEW r \in Requests, Search(r) PROVE Ranges'
  <2>1. Response(req[r]) \in Route
    BY <1>15, ResponseFits DEF Search, Asked
  <2>. QED
    BY <1>15, <2>1 DEF Search, Goto, FailFlight, Crew, askVars, semVars, storeVars
<1>16. ASSUME NEW r \in Requests, FillCache(r) PROVE Ranges'
  BY <1>16 DEF FillCache, LandFlight, Crew
<1>17. ASSUME NEW r \in Requests, Cancel(r) PROVE Ranges'
  BY <1>17 DEF Cancel, semVars, storeVars
<1>18. ASSUME NEW r \in Requests, Expire(r) PROVE Ranges'
  BY <1>18 DEF Expire, semVars, storeVars
<1>19. ASSUME NEW r \in Requests, NEW q \in Question, Arrive(r, q) PROVE Ranges'
  BY <1>19 DEF Arrive, Goto, semVars, storeVars
<1>20. ASSUME NEW k \in Key, RouteEvicted(k) PROVE Ranges'
  BY <1>20 DEF RouteEvicted, askVars, semVars
<1>21. ASSUME UNCHANGED vars PROVE Ranges'
  BY <1>21 DEF vars, askVars, semVars, storeVars
<1>22. Ranges'
  BY <1>1, <1>2, <1>3, <1>4, <1>5, <1>6, <1>7, <1>8, <1>9, <1>10, <1>11, <1>12, <1>13, <1>14, <1>15, <1>16, <1>17, <1>18, <1>19, <1>20, <1>21 DEF Next, RequestStep
<1>. QED
  BY <1>22, KeyOfQuestion DEF KeyOf

\* A question is recorded on arrival and kept.
LEMMA AskedStep ==
  ASSUME TypeOK, Asked, [Next]_vars
  PROVE  Asked'
<1> USE DEF TypeOK, Ranges, Asked, Holding, Leading
<1>1. ASSUME NEW r \in Requests, CacheHit(r) PROVE Asked'
  BY <1>1 DEF CacheHit, Goto, semVars, storeVars
<1>2. ASSUME NEW r \in Requests, CacheMiss(r) PROVE Asked'
  BY <1>2 DEF CacheMiss, Goto, semVars, storeVars
<1>3. ASSUME NEW r \in Requests, TrySlot(r) PROVE Asked'
  BY <1>3 DEF TrySlot, Goto, storeVars
<1>4. ASSUME NEW r \in Requests, SlotGranted(r) PROVE Asked'
  BY <1>4 DEF SlotGranted, Goto, storeVars
<1>5. ASSUME NEW r \in Requests, SlotRefused(r) PROVE Asked'
  BY <1>5 DEF SlotRefused, Goto, semVars, storeVars
<1>6. ASSUME NEW r \in Requests, JoinFlight(r) PROVE Asked'
  BY <1>6 DEF JoinFlight, Goto, semVars, storeVars
<1>7. ASSUME NEW r \in Requests, Store(r) PROVE Asked'
  BY <1>7 DEF Store, Goto
<1>8. ASSUME NEW r \in Requests, OsrmSlot(r) PROVE Asked'
  BY <1>8 DEF OsrmSlot, Goto, PrimaryFails, storeVars
<1>9. ASSUME NEW r \in Requests, OsrmReturns(r) PROVE Asked'
  BY <1>9 DEF OsrmReturns, Goto, PrimaryFails, storeVars
<1>10. ASSUME NEW r \in Requests, Fallback(r) PROVE Asked'
  BY <1>10 DEF Fallback, Goto, FailFlight, Crew, storeVars
<1>11. ASSUME NEW r \in Requests, InternalSlot(r) PROVE Asked'
  BY <1>11 DEF InternalSlot, Goto, FailFlight, Crew, storeVars
<1>12. ASSUME NEW r \in Requests, EngineFor(r) PROVE Asked'
  BY <1>12 DEF EngineFor, Goto, FailFlight, Crew, storeVars
<1>13. ASSUME NEW r \in Requests, LockForLoad(r) PROVE Asked'
  BY <1>13 DEF LockForLoad, Goto, semVars, storeVars
<1>14. ASSUME NEW r \in Requests, LoadReturns(r) PROVE Asked'
  BY <1>14 DEF LoadReturns, Goto, FailFlight, Crew, storeVars
<1>15. ASSUME NEW r \in Requests, Search(r) PROVE Asked'
  BY <1>15 DEF Search, Goto, FailFlight, Crew, storeVars
<1>16. ASSUME NEW r \in Requests, FillCache(r) PROVE Asked'
  BY <1>16 DEF FillCache, LandFlight, Crew
<1>17. ASSUME NEW r \in Requests, Cancel(r) PROVE Asked'
  BY <1>17 DEF Cancel, semVars, storeVars
<1>18. ASSUME NEW r \in Requests, Expire(r) PROVE Asked'
  BY <1>18 DEF Expire, semVars, storeVars
<1>19. ASSUME NEW r \in Requests, NEW q \in Question, Arrive(r, q) PROVE Asked'
  BY <1>19 DEF Arrive, Goto, semVars, storeVars
<1>20. ASSUME NEW k \in Key, RouteEvicted(k) PROVE Asked'
  BY <1>20 DEF RouteEvicted, askVars, semVars
<1>21. CASE UNCHANGED vars
  BY <1>21 DEF vars, askVars, semVars, storeVars
<1>. QED
  BY <1>1, <1>2, <1>3, <1>4, <1>5, <1>6, <1>7, <1>8, <1>9, <1>10, <1>11, <1>12, <1>13, <1>14, <1>15, <1>16, <1>17, <1>18, <1>19, <1>20, <1>21 DEF Next, RequestStep

\* Taking a slot of a semaphore that has one free keeps it within its limit,
\* and so does giving slots back.
LEMMA SlotArithmetic ==
  ASSUME NEW sem \in SUBSET Requests, NEW limit \in Nat
  PROVE  /\ \A r \in Requests : Free(sem, limit) => Within(sem \cup {r}, limit)
         /\ \A T \in SUBSET sem : Within(sem, limit) => Within(T, limit)
<1>1. IsFiniteSet(sem) /\ Cardinality(sem) \in Nat
  BY LimitsAssumption, FS_Subset, FS_CardinalityType
<1>2. ASSUME NEW r \in Requests, Free(sem, limit)
      PROVE  Within(sem \cup {r}, limit)
  <2>1. Cardinality(sem \cup {r}) \in {Cardinality(sem), Cardinality(sem) + 1}
    BY <1>1, FS_AddElement
  <2>. QED
    BY <1>1, <1>2, <2>1 DEF Free, Within
<1>3. ASSUME NEW T \in SUBSET sem, Within(sem, limit)
      PROVE  Within(T, limit)
  <2>1. Cardinality(T) <= Cardinality(sem) /\ Cardinality(T) \in Nat
    BY <1>1, FS_Subset, FS_CardinalityType
  <2>. QED
    BY <1>1, <1>3, <2>1 DEF Within
<1>. QED
  BY <1>2, <1>3

\* Every path out of a held position, the failing ones too, gives the slot back.
LEMMA HoldersStep ==
  ASSUME TypeOK, Asked, SlotHolders, [Next]_vars
  PROVE  SlotHolders'
<1> USE DEF TypeOK, Ranges, Asked, SlotHolders, Holding, Leading
<1>1. ASSUME NEW r \in Requests, CacheHit(r) PROVE SlotHolders'
  BY <1>1 DEF CacheHit, Goto, semVars, storeVars
<1>2. ASSUME NEW r \in Requests, CacheMiss(r) PROVE SlotHolders'
  BY <1>2 DEF CacheMiss, Goto, semVars, storeVars
<1>3. ASSUME NEW r \in Requests, TrySlot(r) PROVE SlotHolders'
  BY <1>3 DEF TrySlot, Goto, storeVars
<1>4. ASSUME NEW r \in Requests, SlotGranted(r) PROVE SlotHolders'
  BY <1>4 DEF SlotGranted, Goto, storeVars
<1>5. ASSUME NEW r \in Requests, SlotRefused(r) PROVE SlotHolders'
  BY <1>5 DEF SlotRefused, Goto, semVars, storeVars
<1>6. ASSUME NEW r \in Requests, JoinFlight(r) PROVE SlotHolders'
  BY <1>6 DEF JoinFlight, Goto, semVars, storeVars
<1>7. ASSUME NEW r \in Requests, Store(r) PROVE SlotHolders'
  BY <1>7 DEF Store, Goto
<1>8. ASSUME NEW r \in Requests, OsrmSlot(r) PROVE SlotHolders'
  BY <1>8 DEF OsrmSlot, Goto, PrimaryFails, storeVars
<1>9. ASSUME NEW r \in Requests, OsrmReturns(r) PROVE SlotHolders'
  BY <1>9 DEF OsrmReturns, Goto, PrimaryFails, storeVars
<1>10. ASSUME NEW r \in Requests, Fallback(r) PROVE SlotHolders'
  BY <1>10 DEF Fallback, Goto, FailFlight, Crew, storeVars
<1>11. ASSUME NEW r \in Requests, InternalSlot(r) PROVE SlotHolders'
  BY <1>11 DEF InternalSlot, Goto, FailFlight, Crew, storeVars
<1>12. ASSUME NEW r \in Requests, EngineFor(r) PROVE SlotHolders'
  BY <1>12 DEF EngineFor, Goto, FailFlight, Crew, storeVars
<1>13. ASSUME NEW r \in Requests, LockForLoad(r) PROVE SlotHolders'
  BY <1>13 DEF LockForLoad, Goto, semVars, storeVars
<1>14. ASSUME NEW r \in Requests, LoadReturns(r) PROVE SlotHolders'
  BY <1>14 DEF LoadReturns, Goto, FailFlight, Crew, storeVars
<1>15. ASSUME NEW r \in Requests, Search(r) PROVE SlotHolders'
  BY <1>15 DEF Search, Goto, FailFlight, Crew, storeVars
<1>16. ASSUME NEW r \in Requests, FillCache(r) PROVE SlotHolders'
  BY <1>16 DEF FillCache, LandFlight, Crew
<1>17. ASSUME NEW r \in Requests, Cancel(r) PROVE SlotHolders'
  BY <1>17 DEF Cancel, semVars, storeVars
<1>18. ASSUME NEW r \in Requests, Expire(r) PROVE SlotHolders'
  BY <1>18 DEF Expire, semVars, storeVars
<1>19. ASSUME NEW r \in Requests, NEW q \in Question, Arrive(r, q) PROVE SlotHolders'
  BY <1>19 DEF Arrive, Goto, semVars, storeVars
<1>20. ASSUME NEW k \in Key, RouteEvicted(k) PROVE SlotHolders'
  BY <1>20 DEF RouteEvicted, askVars, semVars
<1>21. CASE UNCHANGED vars
  BY <1>21 DEF vars, askVars, semVars, storeVars
<1>. QED
  BY <1>1, <1>2, <1>3, <1>4, <1>5, <1>6, <1>7, <1>8, <1>9, <1>10, <1>11, <1>12, <1>13, <1>14, <1>15, <1>16, <1>17, <1>18, <1>19, <1>20, <1>21 DEF Next, RequestStep

\* No step over-commits a semaphore.
LEMMA BoundsStep ==
  ASSUME TypeOK, SlotBounds, [Next]_vars
  PROVE  SlotBounds'
<1> USE DEF TypeOK, Ranges, SlotBounds
<1>1. ASSUME NEW r \in Requests, CacheHit(r) PROVE SlotBounds'
  BY <1>1 DEF CacheHit, Goto, semVars, storeVars
<1>2. ASSUME NEW r \in Requests, CacheMiss(r) PROVE SlotBounds'
  BY <1>2 DEF CacheMiss, Goto, semVars, storeVars
<1>3. ASSUME NEW r \in Requests, TrySlot(r) PROVE SlotBounds'
  BY <1>3, SlotArithmetic, LimitsAssumption DEF TrySlot, Goto, storeVars
<1>4. ASSUME NEW r \in Requests, SlotGranted(r) PROVE SlotBounds'
  BY <1>4, SlotArithmetic, LimitsAssumption DEF SlotGranted, Goto, storeVars
<1>5. ASSUME NEW r \in Requests, SlotRefused(r) PROVE SlotBounds'
  BY <1>5 DEF SlotRefused, Goto, semVars, storeVars
<1>6. ASSUME NEW r \in Requests, JoinFlight(r) PROVE SlotBounds'
  BY <1>6 DEF JoinFlight, Goto, semVars, storeVars
<1>7. ASSUME NEW r \in Requests, Store(r) PROVE SlotBounds'
  BY <1>7, SlotArithmetic, LimitsAssumption DEF Store, Goto
<1>8. ASSUME NEW r \in Requests, OsrmSlot(r) PROVE SlotBounds'
  BY <1>8, SlotArithmetic, LimitsAssumption DEF OsrmSlot, Goto, PrimaryFails, storeVars
<1>9. ASSUME NEW r \in Requests, OsrmReturns(r) PROVE SlotBounds'
  BY <1>9, SlotArithmetic, LimitsAssumption DEF OsrmReturns, Goto, PrimaryFails, storeVars
<1>10. ASSUME NEW r \in Requests, Fallback(r) PROVE SlotBounds'
  BY <1>10, SlotArithmetic, LimitsAssumption DEF Fallback, Goto, FailFlight, Crew, storeVars
<1>11. ASSUME NEW r \in Requests, InternalSlot(r) PROVE SlotBounds'
  BY <1>11, SlotArithmetic, LimitsAssumption, ZenonT(60) DEF InternalSlot, Goto, FailFlight, Crew, storeVars
<1>12. ASSUME NEW r \in Requests, EngineFor(r) PROVE SlotBounds'
  BY <1>12, SlotArithmetic, LimitsAssumption DEF EngineFor, Goto, FailFlight, Crew, storeVars
<1>13. ASSUME NEW r \in Requests, LockForLoad(r) PROVE SlotBounds'
  BY <1>13 DEF LockForLoad, Goto, semVars, storeVars
<1>14. ASSUME NEW r \in Requests, LoadReturns(r) PROVE SlotBounds'
  BY <1>14, SlotArithmetic, LimitsAssumption DEF LoadReturns, Goto, FailFlight, Crew, storeVars
<1>15. ASSUME NEW r \in Requests, Search(r) PROVE SlotBounds'
  BY <1>15, SlotArithmetic, LimitsAssumption DEF Search, Goto, FailFlight, Crew, storeVars
<1>16. ASSUME NEW r \in Requests, FillCache(r) PROVE SlotBounds'
  BY <1>16 DEF FillCache, LandFlight, Crew
<1>17. ASSUME NEW r \in Requests, Cancel(r) PROVE SlotBounds'
  BY <1>17 DEF Cancel, semVars, storeVars
<1>18. ASSUME NEW r \in Requests, Expire(r) PROVE SlotBounds'
  BY <1>18 DEF Expire, semVars, storeVars
<1>19. ASSUME NEW r \in Requests, NEW q \in Question, Arrive(r, q) PROVE SlotBounds'
  BY <1>19 DEF Arrive, Goto, semVars, storeVars
<1>20. ASSUME NEW k \in Key, RouteEvicted(k) PROVE SlotBounds'
  BY <1>20 DEF RouteEvicted, askVars, semVars
<1>21. CASE UNCHANGED vars
  BY <1>21 DEF vars, askVars, semVars, storeVars
<1>. QED
  BY <1>1, <1>2, <1>3, <1>4, <1>5, <1>6, <1>7, <1>8, <1>9, <1>10, <1>11, <1>12, <1>13, <1>14, <1>15, <1>16, <1>17, <1>18, <1>19, <1>20, <1>21 DEF Next, RequestStep

\* A flight is registered exactly while a request leads it.
LEMMA FlightStep ==
  ASSUME TypeOK, Asked, FlightsAreLed, FlightsHaveLeaders, [Next]_vars
  PROVE  FlightsAreLed' /\ FlightsHaveLeaders'
<1> USE DEF TypeOK, Ranges, Asked, FlightsAreLed, FlightsHaveLeaders, Leading, Holding, KeyOf
<1>1. ASSUME NEW r \in Requests, CacheHit(r) PROVE FlightsAreLed' /\ FlightsHaveLeaders'
  BY <1>1, MarksAssumption, KeyOfQuestion DEF CacheHit, Goto, semVars, storeVars
<1>2. ASSUME NEW r \in Requests, CacheMiss(r) PROVE FlightsAreLed' /\ FlightsHaveLeaders'
  BY <1>2, MarksAssumption, KeyOfQuestion DEF CacheMiss, Goto, semVars, storeVars
<1>3. ASSUME NEW r \in Requests, TrySlot(r) PROVE FlightsAreLed' /\ FlightsHaveLeaders'
  BY <1>3, MarksAssumption, KeyOfQuestion DEF TrySlot, Goto, storeVars
<1>4. ASSUME NEW r \in Requests, SlotGranted(r) PROVE FlightsAreLed' /\ FlightsHaveLeaders'
  BY <1>4, MarksAssumption, KeyOfQuestion DEF SlotGranted, Goto, storeVars
<1>5. ASSUME NEW r \in Requests, SlotRefused(r) PROVE FlightsAreLed' /\ FlightsHaveLeaders'
  BY <1>5, MarksAssumption, KeyOfQuestion DEF SlotRefused, Goto, semVars, storeVars
<1>6. ASSUME NEW r \in Requests, JoinFlight(r) PROVE FlightsAreLed' /\ FlightsHaveLeaders'
  BY <1>6, MarksAssumption, KeyOfQuestion DEF JoinFlight, Goto, semVars, storeVars
<1>7. ASSUME NEW r \in Requests, Store(r) PROVE FlightsAreLed' /\ FlightsHaveLeaders'
  BY <1>7, MarksAssumption, KeyOfQuestion DEF Store, Goto
<1>8. ASSUME NEW r \in Requests, OsrmSlot(r) PROVE FlightsAreLed' /\ FlightsHaveLeaders'
  BY <1>8, MarksAssumption, KeyOfQuestion DEF OsrmSlot, Goto, PrimaryFails, storeVars
<1>9. ASSUME NEW r \in Requests, OsrmReturns(r) PROVE FlightsAreLed' /\ FlightsHaveLeaders'
  BY <1>9, MarksAssumption, KeyOfQuestion DEF OsrmReturns, Goto, PrimaryFails, storeVars
<1>10. ASSUME NEW r \in Requests, Fallback(r) PROVE FlightsAreLed' /\ FlightsHaveLeaders'
  BY <1>10, MarksAssumption, KeyOfQuestion DEF Fallback, Goto, FailFlight, Crew, storeVars
<1>11. ASSUME NEW r \in Requests, InternalSlot(r) PROVE FlightsAreLed' /\ FlightsHaveLeaders'
  BY <1>11, MarksAssumption, KeyOfQuestion DEF InternalSlot, Goto, FailFlight, Crew, storeVars
<1>12. ASSUME NEW r \in Requests, EngineFor(r) PROVE FlightsAreLed' /\ FlightsHaveLeaders'
  BY <1>12, MarksAssumption, KeyOfQuestion DEF EngineFor, Goto, FailFlight, Crew, storeVars
<1>13. ASSUME NEW r \in Requests, LockForLoad(r) PROVE FlightsAreLed' /\ FlightsHaveLeaders'
  BY <1>13, MarksAssumption, KeyOfQuestion DEF LockForLoad, Goto, semVars, storeVars
<1>14. ASSUME NEW r \in Requests, LoadReturns(r) PROVE FlightsAreLed' /\ FlightsHaveLeaders'
  BY <1>14, MarksAssumption, KeyOfQuestion DEF LoadReturns, Goto, FailFlight, Crew, storeVars
<1>15. ASSUME NEW r \in Requests, Search(r) PROVE FlightsAreLed' /\ FlightsHaveLeaders'
  BY <1>15, MarksAssumption, KeyOfQuestion DEF Search, Goto, FailFlight, Crew, storeVars
<1>16. ASSUME NEW r \in Requests, FillCache(r) PROVE FlightsAreLed' /\ FlightsHaveLeaders'
  BY <1>16, MarksAssumption, KeyOfQuestion DEF FillCache, LandFlight, Crew
<1>17. ASSUME NEW r \in Requests, Cancel(r) PROVE FlightsAreLed' /\ FlightsHaveLeaders'
  BY <1>17 DEF Cancel, semVars, storeVars
<1>18. ASSUME NEW r \in Requests, Expire(r) PROVE FlightsAreLed' /\ FlightsHaveLeaders'
  BY <1>18 DEF Expire, semVars, storeVars
<1>19. ASSUME NEW r \in Requests, NEW q \in Question, Arrive(r, q) PROVE FlightsAreLed' /\ FlightsHaveLeaders'
  BY <1>19, MarksAssumption, KeyOfQuestion DEF Arrive, Goto, semVars, storeVars
<1>20. ASSUME NEW k \in Key, RouteEvicted(k) PROVE FlightsAreLed' /\ FlightsHaveLeaders'
  BY <1>20 DEF RouteEvicted, askVars, semVars
<1>21. CASE UNCHANGED vars
  BY <1>21 DEF vars, askVars, semVars, storeVars
<1>. QED
  BY <1>1, <1>2, <1>3, <1>4, <1>5, <1>6, <1>7, <1>8, <1>9, <1>10, <1>11, <1>12, <1>13, <1>14, <1>15, <1>16, <1>17, <1>18, <1>19, <1>20, <1>21 DEF Next, RequestStep

\* The graph is loaded under the lock and only while there is none.
LEMMA LoadStep ==
  ASSUME TypeOK, LoadedOnce, LoaderHoldsLock, [Next]_vars
  PROVE  LoadedOnce' /\ LoaderHoldsLock'
<1> USE DEF TypeOK, Ranges, LoadedOnce, LoaderHoldsLock, Leading, Holding
<1>1. ASSUME NEW r \in Requests, CacheHit(r) PROVE LoadedOnce' /\ LoaderHoldsLock'
  BY <1>1, MarksAssumption DEF CacheHit, Goto, semVars, storeVars
<1>2. ASSUME NEW r \in Requests, CacheMiss(r) PROVE LoadedOnce' /\ LoaderHoldsLock'
  BY <1>2, MarksAssumption DEF CacheMiss, Goto, semVars, storeVars
<1>3. ASSUME NEW r \in Requests, TrySlot(r) PROVE LoadedOnce' /\ LoaderHoldsLock'
  BY <1>3, MarksAssumption DEF TrySlot, Goto, storeVars
<1>4. ASSUME NEW r \in Requests, SlotGranted(r) PROVE LoadedOnce' /\ LoaderHoldsLock'
  BY <1>4, MarksAssumption DEF SlotGranted, Goto, storeVars
<1>5. ASSUME NEW r \in Requests, SlotRefused(r) PROVE LoadedOnce' /\ LoaderHoldsLock'
  BY <1>5, MarksAssumption DEF SlotRefused, Goto, semVars, storeVars
<1>6. ASSUME NEW r \in Requests, JoinFlight(r) PROVE LoadedOnce' /\ LoaderHoldsLock'
  BY <1>6, MarksAssumption DEF JoinFlight, Goto, semVars, storeVars
<1>7. ASSUME NEW r \in Requests, Store(r) PROVE LoadedOnce' /\ LoaderHoldsLock'
  BY <1>7, MarksAssumption DEF Store, Goto
<1>8. ASSUME NEW r \in Requests, OsrmSlot(r) PROVE LoadedOnce' /\ LoaderHoldsLock'
  BY <1>8, MarksAssumption DEF OsrmSlot, Goto, PrimaryFails, storeVars
<1>9. ASSUME NEW r \in Requests, OsrmReturns(r) PROVE LoadedOnce' /\ LoaderHoldsLock'
  BY <1>9, MarksAssumption DEF OsrmReturns, Goto, PrimaryFails, storeVars
<1>10. ASSUME NEW r \in Requests, Fallback(r) PROVE LoadedOnce' /\ LoaderHoldsLock'
  BY <1>10, MarksAssumption DEF Fallback, Goto, FailFlight, Crew, storeVars
<1>11. ASSUME NEW r \in Requests, InternalSlot(r) PROVE LoadedOnce' /\ LoaderHoldsLock'
  BY <1>11, MarksAssumption DEF InternalSlot, Goto, FailFlight, Crew, storeVars
<1>12. ASSUME NEW r \in Requests, EngineFor(r) PROVE LoadedOnce' /\ LoaderHoldsLock'
  BY <1>12, MarksAssumption DEF EngineFor, Goto, FailFlight, Crew, storeVars
<1>13. ASSUME NEW r \in Requests, LockForLoad(r) PROVE LoadedOnce' /\ LoaderHoldsLock'
  BY <1>13, MarksAssumption DEF LockForLoad, Goto, semVars, storeVars
<1>14. ASSUME NEW r \in Requests, LoadReturns(r) PROVE LoadedOnce' /\ LoaderHoldsLock'
  BY <1>14, MarksAssumption, ZenonT(60) DEF LoadReturns, Goto, FailFlight, Crew, storeVars
<1>15. ASSUME NEW r \in Requests, Search(r) PROVE LoadedOnce' /\ LoaderHoldsLock'
  BY <1>15, MarksAssumption DEF Search, Goto, FailFlight, Crew, storeVars
<1>16. ASSUME NEW r \in Requests, FillCache(r) PROVE LoadedOnce' /\ LoaderHoldsLock'
  BY <1>16, MarksAssumption DEF FillCache, LandFlight, Crew
<1>17. ASSUME NEW r \in Requests, Cancel(r) PROVE LoadedOnce' /\ LoaderHoldsLock'
  BY <1>17, MarksAssumption DEF Cancel, semVars, storeVars
<1>18. ASSUME NEW r \in Requests, Expire(r) PROVE LoadedOnce' /\ LoaderHoldsLock'
  BY <1>18, MarksAssumption DEF Expire, semVars, storeVars
<1>19. ASSUME NEW r \in Requests, NEW q \in Question, Arrive(r, q) PROVE LoadedOnce' /\ LoaderHoldsLock'
  BY <1>19, MarksAssumption DEF Arrive, Goto, semVars, storeVars
<1>20. ASSUME NEW k \in Key, RouteEvicted(k) PROVE LoadedOnce' /\ LoaderHoldsLock'
  BY <1>20, MarksAssumption DEF RouteEvicted, askVars, semVars
<1>21. CASE UNCHANGED vars
  BY <1>21 DEF vars, askVars, semVars, storeVars
<1>. QED
  BY <1>1, <1>2, <1>3, <1>4, <1>5, <1>6, <1>7, <1>8, <1>9, <1>10, <1>11, <1>12, <1>13, <1>14, <1>15, <1>16, <1>17, <1>18, <1>19, <1>20, <1>21 DEF Next, RequestStep

\* What a flight stores under its key was computed for that key.
LEMMA CacheStep ==
  ASSUME TypeOK, Asked, CacheFitsKeys, AnswersFitTheQuestion, [Next]_vars
  PROVE  CacheFitsKeys'
<1> USE DEF TypeOK, Ranges, CacheFitsKeys
<1>1. ASSUME NEW r \in Requests, CacheHit(r) PROVE CacheFitsKeys'
  BY <1>1 DEF CacheHit, Goto, semVars, storeVars
<1>2. ASSUME NEW r \in Requests, CacheMiss(r) PROVE CacheFitsKeys'
  BY <1>2 DEF CacheMiss, Goto, semVars, storeVars
<1>3. ASSUME NEW r \in Requests, TrySlot(r) PROVE CacheFitsKeys'
  BY <1>3 DEF TrySlot, Goto, storeVars
<1>4. ASSUME NEW r \in Requests, SlotGranted(r) PROVE CacheFitsKeys'
  BY <1>4 DEF SlotGranted, Goto, storeVars
<1>5. ASSUME NEW r \in Requests, SlotRefused(r) PROVE CacheFitsKeys'
  BY <1>5 DEF SlotRefused, Goto, semVars, storeVars
<1>6. ASSUME NEW r \in Requests, JoinFlight(r) PROVE CacheFitsKeys'
  BY <1>6 DEF JoinFlight, Goto, semVars, storeVars
<1>7. ASSUME NEW r \in Requests, Store(r) PROVE CacheFitsKeys'
  BY <1>7 DEF Store, Goto
<1>8. ASSUME NEW r \in Requests, OsrmSlot(r) PROVE CacheFitsKeys'
  BY <1>8 DEF OsrmSlot, Goto, PrimaryFails, storeVars
<1>9. ASSUME NEW r \in Requests, OsrmReturns(r) PROVE CacheFitsKeys'
  BY <1>9 DEF OsrmReturns, Goto, PrimaryFails, storeVars
<1>10. ASSUME NEW r \in Requests, Fallback(r) PROVE CacheFitsKeys'
  BY <1>10 DEF Fallback, Goto, FailFlight, Crew, storeVars
<1>11. ASSUME NEW r \in Requests, InternalSlot(r) PROVE CacheFitsKeys'
  BY <1>11 DEF InternalSlot, Goto, FailFlight, Crew, storeVars
<1>12. ASSUME NEW r \in Requests, EngineFor(r) PROVE CacheFitsKeys'
  BY <1>12 DEF EngineFor, Goto, FailFlight, Crew, storeVars
<1>13. ASSUME NEW r \in Requests, LockForLoad(r) PROVE CacheFitsKeys'
  BY <1>13 DEF LockForLoad, Goto, semVars, storeVars
<1>14. ASSUME NEW r \in Requests, LoadReturns(r) PROVE CacheFitsKeys'
  BY <1>14 DEF LoadReturns, Goto, FailFlight, Crew, storeVars
<1>15. ASSUME NEW r \in Requests, Search(r) PROVE CacheFitsKeys'
  BY <1>15 DEF Search, Goto, FailFlight, Crew, storeVars
<1>16. ASSUME NEW r \in Requests, FillCache(r) PROVE CacheFitsKeys'
  <2>1. KeyOf(r) \in Key
    BY <1>16, KeyOfQuestion DEF FillCache, KeyOf, Asked
  <2>2. got[r] # None => Matches(KeyOf(r), got[r])
    BY DEF AnswersFitTheQuestion, Matches, KeyOf, RouteKey
  <2>. QED
    BY <1>16, <2>1, <2>2 DEF FillCache
<1>17. ASSUME NEW r \in Requests, Cancel(r) PROVE CacheFitsKeys'
  BY <1>17 DEF Cancel, semVars, storeVars
<1>18. ASSUME NEW r \in Requests, Expire(r) PROVE CacheFitsKeys'
  BY <1>18 DEF Expire, semVars, storeVars
<1>19. ASSUME NEW r \in Requests, NEW q \in Question, Arrive(r, q) PROVE CacheFitsKeys'
  BY <1>19 DEF Arrive, Goto, semVars, storeVars
<1>20. ASSUME NEW k \in Key, RouteEvicted(k) PROVE CacheFitsKeys'
  BY <1>20 DEF RouteEvicted, askVars, semVars
<1>21. CASE UNCHANGED vars
  BY <1>21 DEF vars, askVars, semVars, storeVars
<1>. QED
  BY <1>1, <1>2, <1>3, <1>4, <1>5, <1>6, <1>7, <1>8, <1>9, <1>10, <1>11, <1>12, <1>13, <1>14, <1>15, <1>16, <1>17, <1>18, <1>19, <1>20, <1>21 DEF Next, RequestStep

\* A route reaches only requests that asked for it.
LEMMA AnswerStep ==
  ASSUME TypeOK, Asked, CacheFitsKeys, AnswersFitTheQuestion, [Next]_vars
  PROVE  AnswersFitTheQuestion'
<1> USE DEF TypeOK, Ranges, AnswersFitTheQuestion
<1>1. ASSUME NEW r \in Requests, CacheHit(r) PROVE AnswersFitTheQuestion'
  <2>1. KeyOf(r) \in Key
    BY <1>1, KeyOfQuestion DEF CacheHit, KeyOf, Asked
  <2>2. Matches(RouteKey(req[r]), cache[KeyOf(r)])
    BY <1>1, <2>1 DEF CacheHit, CacheFitsKeys, KeyOf
  <2>3. got' = [got EXCEPT ![r] = cache[KeyOf(r)]] /\ req' = req /\ tripRoute' = tripRoute
    BY <1>1 DEF CacheHit, storeVars
  <2>. QED
    BY <2>2, <2>3 DEF Matches, RouteKey
<1>2. ASSUME NEW r \in Requests, CacheMiss(r) PROVE AnswersFitTheQuestion'
  BY <1>2 DEF CacheMiss, Goto, semVars, storeVars
<1>3. ASSUME NEW r \in Requests, TrySlot(r) PROVE AnswersFitTheQuestion'
  BY <1>3 DEF TrySlot, Goto, storeVars
<1>4. ASSUME NEW r \in Requests, SlotGranted(r) PROVE AnswersFitTheQuestion'
  BY <1>4 DEF SlotGranted, Goto, storeVars
<1>5. ASSUME NEW r \in Requests, SlotRefused(r) PROVE AnswersFitTheQuestion'
  BY <1>5 DEF SlotRefused, Goto, semVars, storeVars
<1>6. ASSUME NEW r \in Requests, JoinFlight(r) PROVE AnswersFitTheQuestion'
  BY <1>6 DEF JoinFlight, Goto, semVars, storeVars
<1>7. ASSUME NEW r \in Requests, Store(r) PROVE AnswersFitTheQuestion'
  <2>1. got' = got /\ req' = req
    BY <1>7 DEF Store
  <2>2. req[r] \in Question /\ req[r] # None
    BY <1>7, NoneAssumption DEF Store, Asked
  <2>3. \A t \in Trips : tripRoute'[t] = tripRoute[t] \/ (t = req[r].trip /\ tripRoute'[t] = got[r])
    BY <1>7 DEF Store
  <2>. QED
    BY <2>1, <2>2, <2>3
<1>8. ASSUME NEW r \in Requests, OsrmSlot(r) PROVE AnswersFitTheQuestion'
  BY <1>8 DEF OsrmSlot, Goto, PrimaryFails, storeVars
<1>9. ASSUME NEW r \in Requests, OsrmReturns(r) PROVE AnswersFitTheQuestion'
  <2>1. Matches(RouteKey(req[r]), Response(req[r]))
    BY <1>9, ResponseFits DEF OsrmReturns, Asked
  <2>2. \A x \in Requests : got'[x] \in {got[x]} \cup (IF x = r THEN {Response(req[r])} ELSE {})
    BY <1>9 DEF OsrmReturns, PrimaryFails
  <2>3. req' = req /\ tripRoute' = tripRoute
    BY <1>9 DEF OsrmReturns, storeVars
  <2>. QED
    BY <2>1, <2>2, <2>3 DEF Matches, RouteKey
<1>10. ASSUME NEW r \in Requests, Fallback(r) PROVE AnswersFitTheQuestion'
  BY <1>10 DEF Fallback, Goto, FailFlight, Crew, storeVars
<1>11. ASSUME NEW r \in Requests, InternalSlot(r) PROVE AnswersFitTheQuestion'
  BY <1>11 DEF InternalSlot, Goto, FailFlight, Crew, storeVars
<1>12. ASSUME NEW r \in Requests, EngineFor(r) PROVE AnswersFitTheQuestion'
  BY <1>12 DEF EngineFor, Goto, FailFlight, Crew, storeVars
<1>13. ASSUME NEW r \in Requests, LockForLoad(r) PROVE AnswersFitTheQuestion'
  BY <1>13 DEF LockForLoad, Goto, semVars, storeVars
<1>14. ASSUME NEW r \in Requests, LoadReturns(r) PROVE AnswersFitTheQuestion'
  BY <1>14 DEF LoadReturns, Goto, FailFlight, Crew, storeVars
<1>15. ASSUME NEW r \in Requests, Search(r) PROVE AnswersFitTheQuestion'
  <2>1. Matches(RouteKey(req[r]), Response(req[r]))
    BY <1>15, ResponseFits DEF Search, Asked
  <2>2. \A x \in Requests : got'[x] \in {got[x]} \cup (IF x = r THEN {Response(req[r])} ELSE {})
    BY <1>15 DEF Search, FailFlight
  <2>3. req' = req /\ tripRoute' = tripRoute
    BY <1>15 DEF Search, storeVars
  <2>. QED
    BY <2>1, <2>2, <2>3 DEF Matches, RouteKey
<1>16. ASSUME NEW r \in Requests, FillCache(r) PROVE AnswersFitTheQuestion'
  <2>1. \A x \in Crew(r) : RouteKey(req[x]) = RouteKey(req[r])
    BY DEF Crew, KeyOf
  <2>2. got[r] # None => Matches(RouteKey(req[r]), got[r])
    BY DEF Matches, RouteKey
  <2>3. got[r] # None => \A x \in Crew(r) : Matches(RouteKey(req[x]), got[r])
    BY <2>1, <2>2
  <2>4. \A x \in Requests : got'[x] = IF x \in Crew(r) THEN got[r] ELSE got[x]
    BY <1>16 DEF FillCache, LandFlight
  <2>5. req' = req /\ tripRoute' = tripRoute
    BY <1>16 DEF FillCache
  <2>. QED
    BY <2>3, <2>4, <2>5 DEF Matches, RouteKey
<1>17. ASSUME NEW r \in Requests, Cancel(r) PROVE AnswersFitTheQuestion'
  BY <1>17 DEF Cancel, semVars, storeVars
<1>18. ASSUME NEW r \in Requests, Expire(r) PROVE AnswersFitTheQuestion'
  BY <1>18 DEF Expire, semVars, storeVars
<1>19. ASSUME NEW r \in Requests, NEW q \in Question, Arrive(r, q) PROVE AnswersFitTheQuestion'
  <2>1. got' = got /\ tripRoute' = tripRoute /\ req' = [req EXCEPT ![r] = q]
    BY <1>19 DEF Arrive, storeVars
  <2>2. req[r] = None /\ got[r] = None
    BY <1>19 DEF Arrive, Asked
  <2>. QED
    BY <2>1, <2>2
<1>20. ASSUME NEW k \in Key, RouteEvicted(k) PROVE AnswersFitTheQuestion'
  BY <1>20 DEF RouteEvicted, askVars, semVars
<1>21. CASE UNCHANGED vars
  BY <1>21 DEF vars, askVars, semVars, storeVars
<1>. QED
  BY <1>1, <1>2, <1>3, <1>4, <1>5, <1>6, <1>7, <1>8, <1>9, <1>10, <1>11, <1>12, <1>13, <1>14, <1>15, <1>16, <1>17, <1>18, <1>19, <1>20, <1>21 DEF Next, RequestStep

\* The initial state satisfies the inductive invariant.
LEMMA InitRouteInv == Init => RouteInv
<1> SUFFICES ASSUME Init PROVE RouteInv
  OBVIOUS
<1>1. TypeOK
  BY SettingsAssumption DEF Init, TypeOK, Ranges
<1>2. Asked /\ SlotHolders
  BY DEF Init, Asked, SlotHolders, Holding, Leading
<1>3. SlotBounds
  BY FS_EmptySet, LimitsAssumption DEF Init, SlotBounds, Within
<1>4. FlightsAreLed /\ FlightsHaveLeaders
  BY DEF Init, FlightsAreLed, FlightsHaveLeaders, Leading
<1>5. LoadedOnce /\ LoaderHoldsLock
  BY DEF Init, LoadedOnce, LoaderHoldsLock
<1>6. CacheFitsKeys /\ AnswersFitTheQuestion
  BY DEF Init, CacheFitsKeys, AnswersFitTheQuestion
<1>. QED
  BY <1>1, <1>2, <1>3, <1>4, <1>5, <1>6 DEF RouteInv

\* Every reachable state satisfies the inductive invariant.
THEOREM RouteInvariant == Spec => []RouteInv
<1>1. RouteInv /\ [Next]_vars => RouteInv'
  <2> SUFFICES ASSUME RouteInv, [Next]_vars PROVE RouteInv'
    OBVIOUS
  <2>1. TypeOK' /\ Asked'
    BY TypeStep, AskedStep DEF RouteInv
  <2>2. SlotHolders' /\ SlotBounds'
    BY HoldersStep, BoundsStep DEF RouteInv
  <2>3. FlightsAreLed' /\ FlightsHaveLeaders'
    BY FlightStep DEF RouteInv
  <2>4. LoadedOnce' /\ LoaderHoldsLock'
    BY LoadStep DEF RouteInv
  <2>5. CacheFitsKeys' /\ AnswersFitTheQuestion'
    BY CacheStep, AnswerStep DEF RouteInv
  <2>. QED
    BY <2>1, <2>2, <2>3, <2>4, <2>5 DEF RouteInv
<1>. QED
  BY InitRouteInv, <1>1, PTL DEF Spec

\* Type correctness of the requests, the semaphores, the flights and the stores.
THEOREM TypeCorrect == Spec => []TypeOK
<1>1. RouteInv => TypeOK
  BY DEF RouteInv
<1>. QED
  BY RouteInvariant, <1>1, PTL

\* No path through the chain, error or not, leaks a slot of the three
\* semaphores, and none is over-committed, whatever the limits.
THEOREM SemaphoresAccounted == Spec => []SlotsAccounted
<1>1. RouteInv => SlotsAccounted
  BY DEF RouteInv, SlotHolders, SlotBounds, Within, SlotsAccounted
<1>. QED
  BY RouteInvariant, <1>1, PTL

\* A key is computed by one request at a time, and a request waiting for a
\* flight always has a leader that is still computing.
THEOREM SingleflightIsLed == Spec => []FlightsAreLed
<1>1. RouteInv => FlightsAreLed
  BY DEF RouteInv
<1>. QED
  BY RouteInvariant, <1>1, PTL

\* Concurrent first requests load the road graph once.
THEOREM GraphLoadedOnce == Spec => []LoadedOnce
<1>1. RouteInv => LoadedOnce
  BY DEF RouteInv
<1>. QED
  BY RouteInvariant, <1>1, PTL

\* A request, and the trip it names, get only a route computed for the mode,
\* number of alternatives and endpoints the request asked for.
THEOREM AnswersFit == Spec => []AnswersFitTheQuestion
<1>1. RouteInv => AnswersFitTheQuestion
  BY DEF RouteInv
<1>. QED
  BY RouteInvariant, <1>1, PTL

=============================================================================
