------------------------ MODULE DriverPresenceProofs ------------------------
(***************************************************************************)
(* Machine-checked facts about the driver search and the location read,    *)
(* for any number of drivers, packages and writes: who is shown was there, *)
(* an undisturbed search is exact, and positions go to counterparts.       *)
(***************************************************************************)
EXTENDS DriverPresence, LaravelDbProofs

Near == [id : Members, dist : Positions]
JobSet == [kind : {"none", "shipping", "trip"}, id : Nat]
Found == [id : Members, pos : Positions, dist : Positions, job : JobSet]
Index == [Members -> Positions \cup {Nowhere}]

SearchSet ==
    [step : {"idle", "hashes", "heal", "shippings", "trips", "done"}, viewer : Users \cup {Anonymous},
     limit : Nat \ {0}, todo : Seq(Near), found : Seq(Found), intact : BOOLEAN]
ReadSet ==
    [step : {"allowed", "refused", "done"}, caller : Callers, target : Users, pos : Positions \cup {Nowhere}]
SeenSet ==
    [live : SUBSET (Members \X Positions), shown : SUBSET Users, index : Index, quiet : BOOLEAN,
     positions : SUBSET Positions]

PresenceTypeOK ==
    /\ ClaimsOK /\ onMap \in SUBSET Users
    /\ geo \in Index /\ hash \in Index
    /\ search \in SearchSet
    /\ search.step = "heal" => search.todo # <<>>
    /\ read = NoRead \/ read \in ReadSet
    /\ seen \in SeenSet

\* The right of a caller to the position of a user, once there, stays.
Entitled(c, u) ==
    \/ c \in {ApiKey, u}
    \/ \E i \in DOMAIN shippings : /\ {c, u} \cap Parties(i) # {}
                                   /\ Carrier(i) \in {c, u}
                                   /\ {c, u} \subseteq Parties(i) \cup {Carrier(i)}

ReadIsEntitled ==
    /\ read.step \in {"allowed", "done"} => Entitled(read.caller, read.target)
    /\ read.step = "done" /\ read.pos # Nowhere => read.pos \in seen.positions

\* What a search has read from the hashes was live at that moment.
FoundWasLive ==
    search.step # "idle" =>
       \A i \in DOMAIN search.found : <<search.found[i].id, search.found[i].pos>> \in seen.live

\* After the filter everyone left was visible, and is not the viewer.
FoundWasShown ==
    search.step \in {"shippings", "trips", "done"} =>
      /\ Len(search.found) <= search.limit
      /\ \A i \in DOMAIN search.found : /\ search.found[i].id # search.viewer
                                        /\ search.found[i].id \in seen.shown

-----------------------------------------------------------------------------
(* Undisturbed searches. *)

Undisturbed == search.intact /\ seen.quiet /\ ~Crowded

InRange(index, m) == index[m] # Nowhere /\ index[m] <= Radius

SortedByDist(q) == \A i, j \in DOMAIN q : i < j => q[i].dist <= q[j].dist
NoTwice(q) == \A i, j \in DOMAIN q : q[i].id = q[j].id => i = j
AtTheirDist(q, index) == \A i \in DOMAIN q : InRange(index, q[i].id) /\ q[i].dist = index[q[i].id]

\* While the hashes are read, what was found and what is to be read are the
\* live members in range, nearest first, each once.
Reading(f, t, index, h) ==
    /\ SortedByDist(f) /\ SortedByDist(t) /\ \A i \in DOMAIN f, j \in DOMAIN t : f[i].dist <= t[j].dist
    /\ NoTwice(f) /\ NoTwice(t) /\ Ids(f) \cap Ids(t) = {}
    /\ AtTheirDist(f, index) /\ AtTheirDist(t, index)
    /\ \A i \in DOMAIN f : h[f[i].id] # Nowhere /\ f[i].job = NoJob
    /\ \A m \in Members : InRange(index, m) /\ h[m] # Nowhere => m \in Ids(f) \cup Ids(t)

\* After the filter the list is the answer, but for the jobs.
Listed(f, limit, eligible, index) ==
    /\ SortedByDist(f) /\ NoTwice(f)
    /\ Ids(f) \subseteq eligible
    /\ Ids(f) = eligible \/ Len(f) = limit
    /\ \A i \in DOMAIN f, u \in eligible \ Ids(f) : f[i].dist <= index[u]

ShippingJob(u) ==
    IF LatestActiveShipping(u) # 0 THEN [kind |-> "shipping", id |-> LatestActiveShipping(u)] ELSE NoJob

JobsSoFar ==
    \A i \in DOMAIN search.found, u \in Members :
       search.found[i].id = u =>
         /\ search.step = "shippings" => search.found[i].job = NoJob
         /\ search.step = "trips" => search.found[i].job = ShippingJob(u)
         /\ search.step = "done" => search.found[i].job = Job(u)

QuietSearch ==
    Undisturbed =>
      /\ search.step \in {"hashes", "heal"} => Reading(search.found, search.todo, seen.index, hash)
      /\ search.step = "heal" => hash[Head(search.todo).id] = Nowhere
      /\ search.step \in {"shippings", "trips", "done"} =>
           Listed(search.found, search.limit, Eligible, seen.index) /\ JobsSoFar

\* The inductive invariant.
PresenceInv == PresenceTypeOK /\ ReadIsEntitled /\ FoundWasLive /\ FoundWasShown /\ QuietSearch
-----------------------------------------------------------------------------
(* The loop of filterVisibleOnMap. *)

\* The list after the n-th entry has been looked at.
Taken(out, q, ids, limit, n) ==
    IF q[n].id \in ids /\ Len(out) < limit THEN Append(out, q[n]) ELSE out

IsLoop(g, q, ids, limit, n) ==
    /\ DOMAIN g = 0 .. n
    /\ g[0] = <<>>
    /\ \A m \in 1 .. n : g[m] = Taken(g[m - 1], q, ids, limit, m)

\* The loop has a run over the whole list, and FirstOf is its last value.
LEMMA LoopRuns ==
    ASSUME NEW q, Len(q) \in Nat, NEW ids, NEW limit
    PROVE  \E g : IsLoop(g, q, ids, limit, Len(q)) /\ FirstOf(q, ids, limit) = g[Len(q)]
<1> DEFINE S == {n \in Nat : \E g : IsLoop(g, q, ids, limit, n)}
<1>1. 0 \in S
  <2>1. IsLoop([m \in 0 .. 0 |-> <<>>], q, ids, limit, 0)
    BY DEF IsLoop
  <2>. QED
    BY <2>1
<1>2. ASSUME NEW n \in Nat, n \in S PROVE n + 1 \in S
  <2>1. PICK g : IsLoop(g, q, ids, limit, n)
    BY <1>2
  <2> DEFINE h == [m \in 0 .. n + 1 |-> IF m = n + 1 THEN Taken(g[n], q, ids, limit, n + 1) ELSE g[m]]
  <2>2. DOMAIN h = 0 .. n + 1 /\ h[0] = <<>>
    BY <2>1 DEF IsLoop
  <2>3. ASSUME NEW m \in 1 .. n + 1 PROVE h[m] = Taken(h[m - 1], q, ids, limit, m)
    <3>1. CASE m = n + 1
      <4>1. h[m - 1] = g[n] /\ h[m] = Taken(g[n], q, ids, limit, n + 1)
        BY <3>1
      <4>. QED
        BY <3>1, <4>1
    <3>2. CASE m # n + 1
      <4>1. m \in 1 .. n /\ h[m] = g[m] /\ h[m - 1] = g[m - 1]
        BY <3>2
      <4>2. g[m] = Taken(g[m - 1], q, ids, limit, m)
        BY <2>1, <4>1 DEF IsLoop
      <4> HIDE DEF h
      <4>. QED
        BY <4>1, <4>2
    <3>. QED
      BY <3>1, <3>2
  <2> HIDE DEF h
  <2>4. IsLoop(h, q, ids, limit, n + 1)
    BY <2>2, <2>3 DEF IsLoop
  <2>. QED
    BY <2>4
<1>3. Nat \subseteq S
  <2> HIDE DEF S
  <2>. QED
    BY <1>1, <1>2, Induction
<1>4. PICK g : IsLoop(g, q, ids, limit, Len(q))
  BY <1>3
<1> DEFINE Body(out) == [n \in 0 .. Len(q) |->
              IF n = 0 THEN <<>>
              ELSE IF q[n].id \in ids /\ Len(out[n - 1]) < limit THEN Append(out[n - 1], q[n])
              ELSE out[n - 1]]
<1> DEFINE f == CHOOSE out : out = Body(out)
<1>5. \E out : out = Body(out)
  <2> DEFINE g0 == [n \in 0 .. Len(q) |-> g[n]]
  <2>1. ASSUME NEW n \in 0 .. Len(q) PROVE g0[n] = Body(g0)[n]
    <3>1. CASE n = 0
      BY <1>4, <3>1 DEF IsLoop
    <3>2. CASE n # 0
      <4>1. n \in 1 .. Len(q) /\ g0[n] = g[n] /\ g0[n - 1] = g[n - 1]
        BY <3>2
      <4>2. g[n] = Taken(g[n - 1], q, ids, limit, n)
        BY <1>4, <4>1 DEF IsLoop
      <4> HIDE DEF g0
      <4>3. Body(g0)[n] = Taken(g0[n - 1], q, ids, limit, n)
        BY <3>2 DEF Taken
      <4> HIDE DEF Body
      <4>. QED
        BY <4>1, <4>2, <4>3
    <3>. QED
      BY <3>1, <3>2
  <2>2. g0 = Body(g0)
    BY <2>1, SMTT(30)
  <2>. QED
    BY <2>2
<1>6. f = Body(f)
  BY <1>5
<1>7. FirstOf(q, ids, limit) = f[Len(q)]
  BY DEF FirstOf
<1>8. IsLoop(f, q, ids, limit, Len(q))
  <2> HIDE DEF f
  <2>1. DOMAIN f = 0 .. Len(q) /\ f[0] = <<>>
    BY <1>6
  <2>2. ASSUME NEW m \in 1 .. Len(q) PROVE f[m] = Taken(f[m - 1], q, ids, limit, m)
    <3>1. m \in 0 .. Len(q) /\ m # 0
      OBVIOUS
    <3>2. Body(f)[m] = Taken(f[m - 1], q, ids, limit, m)
      BY <3>1 DEF Taken
    <3> HIDE DEF Body
    <3>. QED
      BY <1>6, <3>2
  <2>. QED
    BY <2>1, <2>2 DEF IsLoop
<1>. QED
  BY <1>7, <1>8

\* r is made of the entries k[1] < k[2] < ... of the first n of q: the ones
\* asked for, until there are enough.
IsPick(r, k, q, ids, limit, n) ==
    /\ k \in [1 .. Len(r) -> 1 .. n]
    /\ Len(r) <= limit
    /\ \A i \in 1 .. Len(r) : r[i] = q[k[i]] /\ q[k[i]].id \in ids
    /\ \A i, j \in 1 .. Len(r) : i < j => k[i] < k[j]
    /\ \A j \in 1 .. n : q[j].id \in ids => \/ \E i \in 1 .. Len(r) : k[i] = j
                                            \/ Len(r) = limit /\ \A i \in 1 .. Len(r) : k[i] < j

\* One turn of the loop.
LEMMA PickStep ==
    ASSUME NEW D, NEW q \in Seq(D), NEW ids, NEW limit \in Nat, NEW n \in Nat, n + 1 <= Len(q),
           NEW r \in Seq(D), NEW k, IsPick(r, k, q, ids, limit, n)
    PROVE  /\ Taken(r, q, ids, limit, n + 1) \in Seq(D)
           /\ \E k2 : IsPick(Taken(r, q, ids, limit, n + 1), k2, q, ids, limit, n + 1)
<1>1. Len(r) \in Nat /\ q[n + 1] \in D
  OBVIOUS
<1>2. CASE q[n + 1].id \in ids /\ Len(r) < limit
  <2> DEFINE r2 == Append(r, q[n + 1])
             k2 == [i \in 1 .. Len(r) + 1 |-> IF i = Len(r) + 1 THEN n + 1 ELSE k[i]]
  <2>1. Taken(r, q, ids, limit, n + 1) = r2
    BY <1>2 DEF Taken
  <2>2. /\ r2 \in Seq(D) /\ Len(r2) = Len(r) + 1 /\ r2[Len(r) + 1] = q[n + 1]
        /\ \A i \in 1 .. Len(r) : r2[i] = r[i]
    BY <1>1
  <2>3. k2[Len(r) + 1] = n + 1 /\ \A i \in 1 .. Len(r) : k2[i] = k[i] /\ k[i] \in 1 .. n
    BY <1>1 DEF IsPick
  <2>4. k2 \in [1 .. Len(r) + 1 -> 1 .. n + 1]
    <3>1. ASSUME NEW i \in 1 .. Len(r) + 1 PROVE k2[i] \in 1 .. n + 1
      <4>1. i = Len(r) + 1 \/ i \in 1 .. Len(r)
        BY <1>1
      <4> HIDE DEF k2
      <4>. QED
        BY <2>3, <4>1
    <3>. QED
      BY <3>1
  <2> HIDE DEF r2, k2
  <2>5. \A i \in 1 .. Len(r) + 1 : i = Len(r) + 1 \/ i \in 1 .. Len(r)
    BY <1>1
  <2>6. \A i \in 1 .. Len(r) + 1 : r2[i] = q[k2[i]] /\ q[k2[i]].id \in ids
    BY <1>2, <2>2, <2>3, <2>5 DEF IsPick
  <2>7. \A i, j \in 1 .. Len(r) + 1 : i < j => k2[i] < k2[j]
    <3>1. ASSUME NEW i \in 1 .. Len(r) + 1, NEW j \in 1 .. Len(r) + 1, i < j PROVE k2[i] < k2[j]
      <4>1. i \in 1 .. Len(r)
        BY <1>1, <3>1
      <4>2. CASE j \in 1 .. Len(r)
        BY <2>3, <3>1, <4>1, <4>2 DEF IsPick
      <4>3. CASE j = Len(r) + 1
        BY <2>3, <4>1, <4>3
      <4>. QED
        BY <2>5, <4>2, <4>3
    <3>. QED
      BY <3>1
  <2>8. ASSUME NEW j \in 1 .. n + 1, q[j].id \in ids PROVE \E i \in 1 .. Len(r) + 1 : k2[i] = j
    <3>1. CASE j = n + 1
      BY <1>1, <2>3, <3>1
    <3>2. CASE j \in 1 .. n
      <4>1. PICK i \in 1 .. Len(r) : k[i] = j
        BY <1>2, <2>8, <3>2 DEF IsPick
      <4>2. i \in 1 .. Len(r) + 1 /\ k2[i] = j
        BY <1>1, <2>3, <4>1
      <4>. QED
        BY <4>2
    <3>. QED
      BY <3>1, <3>2
  <2>9. IsPick(r2, k2, q, ids, limit, n + 1)
    BY <1>1, <1>2, <2>2, <2>4, <2>6, <2>7, <2>8 DEF IsPick
  <2>. QED
    BY <2>1, <2>2, <2>9
<1>3. CASE ~(q[n + 1].id \in ids /\ Len(r) < limit)
  <2>1. Taken(r, q, ids, limit, n + 1) = r
    BY <1>3 DEF Taken
  <2>2. k \in [1 .. Len(r) -> 1 .. n + 1]
    BY <1>1 DEF IsPick
  <2>3. ASSUME NEW j \in 1 .. n + 1, q[j].id \in ids
        PROVE  \/ \E i \in 1 .. Len(r) : k[i] = j
               \/ Len(r) = limit /\ \A i \in 1 .. Len(r) : k[i] < j
    <3>1. CASE j = n + 1
      <4>1. Len(r) = limit
        BY <1>1, <1>3, <2>3, <3>1 DEF IsPick
      <4>2. \A i \in 1 .. Len(r) : k[i] < j
        BY <1>1, <3>1 DEF IsPick
      <4>. QED
        BY <4>1, <4>2
    <3>2. CASE j \in 1 .. n
      BY <2>3, <3>2 DEF IsPick
    <3>. QED
      BY <3>1, <3>2
  <2>4. IsPick(r, k, q, ids, limit, n + 1)
    BY <2>2, <2>3 DEF IsPick
  <2>. QED
    BY <2>1, <2>4
<1>. QED
  BY <1>2, <1>3

\* filterVisibleOnMap keeps, in their order, the first entries asked for.
LEMMA FirstOfPicks ==
    ASSUME NEW D, NEW q \in Seq(D), NEW ids, NEW limit \in Nat
    PROVE  /\ FirstOf(q, ids, limit) \in Seq(D)
           /\ \E k : IsPick(FirstOf(q, ids, limit), k, q, ids, limit, Len(q))
<1>1. PICK g : IsLoop(g, q, ids, limit, Len(q)) /\ FirstOf(q, ids, limit) = g[Len(q)]
  BY LoopRuns
<1> DEFINE S == {n \in Nat : n <= Len(q) => g[n] \in Seq(D) /\ \E k : IsPick(g[n], k, q, ids, limit, n)}
<1>2. 0 \in S
  <2>1. g[0] = <<>>
    BY <1>1 DEF IsLoop
  <2>2. IsPick(<<>>, [i \in 1 .. 0 |-> 0], q, ids, limit, 0)
    BY DEF IsPick
  <2>3. g[0] \in Seq(D) /\ IsPick(g[0], [i \in 1 .. 0 |-> 0], q, ids, limit, 0)
    BY <2>1, <2>2
  <2>4. g[0] \in Seq(D) /\ \E k : IsPick(g[0], k, q, ids, limit, 0)
    BY <2>3, Zenon
  <2>. QED
    BY <2>4
<1>3. ASSUME NEW n \in Nat, n \in S PROVE n + 1 \in S
  <2>1. SUFFICES ASSUME n + 1 <= Len(q)
                 PROVE  g[n + 1] \in Seq(D) /\ \E k : IsPick(g[n + 1], k, q, ids, limit, n + 1)
    OBVIOUS
  <2>2. g[n] \in Seq(D) /\ \E k : IsPick(g[n], k, q, ids, limit, n)
    BY <1>3, <2>1
  <2>3. g[n + 1] = Taken(g[n], q, ids, limit, n + 1)
    <3>1. n + 1 \in 1 .. Len(q) /\ (n + 1) - 1 = n
      BY <2>1
    <3>2. g[n + 1] = Taken(g[(n + 1) - 1], q, ids, limit, n + 1)
      BY <1>1, <3>1 DEF IsLoop
    <3>. QED
      BY <3>1, <3>2
  <2>. QED
    <3>1. PICK k : IsPick(g[n], k, q, ids, limit, n)
      BY <2>2
    <3>2. /\ Taken(g[n], q, ids, limit, n + 1) \in Seq(D)
          /\ \E k2 : IsPick(Taken(g[n], q, ids, limit, n + 1), k2, q, ids, limit, n + 1)
      BY <2>1, <2>2, <3>1, PickStep
    <3>. QED
      BY <2>3, <3>2
<1>4. Nat \subseteq S
  <2> HIDE DEF S
  <2>. QED
    BY <1>2, <1>3, Induction
<1>5. Len(q) \in Nat /\ Len(q) <= Len(q)
  OBVIOUS
<1>. QED
  BY <1>1, <1>4, <1>5
-----------------------------------------------------------------------------
(* Steps. *)

LiveNow == {<<m, hash[m]>> : m \in {n \in Members : hash[n] # Nowhere}}

\* Who owns which variable: writes and Laravel change neither request, a
\* request leaves the database and the other request alone.
LEMMA OneActor ==
    ASSUME Next
    PROVE  /\ ClaimStep
           /\ \/ UNCHANGED <<search, read>>
              \/ UNCHANGED <<hash, read, dbVars>> /\ Search
              \/ UNCHANGED <<redis, search, dbVars>> /\ Read
<1>1. CASE Search
  <2>1. UNCHANGED <<hash, read, dbVars>>
    BY <1>1 DEF Search, SearchNearby, AnswerSearch, ReadHash, Heal, FilterVisible, AttachShippings, AttachTrips,
                redis, dbVars
  <2>. QED
    BY <1>1, <2>1, SMTT(30) DEF ClaimStep, dbVars, claims
<1>2. CASE Read
  <2>1. UNCHANGED <<redis, search, dbVars>>
    BY <1>2 DEF Read, Authorize, GetPresence, AnswerRead
  <2>. QED
    BY <1>2, <2>1 DEF ClaimStep, dbVars, claims
<1>3. CASE Redis
  <2>1. UNCHANGED <<search, read, dbVars>>
    BY <1>3 DEF Redis, GoOffline, UpdateLocation, UpdatePresence, HashExpires
  <2>. QED
    BY <2>1 DEF ClaimStep, dbVars, claims
<1>4. CASE Laravel
  BY <1>4 DEF Laravel, ClaimStep, ShowOnMap, claims
<1>. QED
  BY <1>1, <1>2, <1>3, <1>4 DEF Next

\* What was seen, after a step.
LEMMA PresenceSight ==
    ASSUME PresenceTypeOK, Next
    PROVE  /\ search'.step # "idle" => /\ seen.live \subseteq seen'.live /\ seen.shown \subseteq seen'.shown
                                       /\ seen'.quiet => seen.quiet /\ UNCHANGED <<hash, trips, shippings, onMap>>
           /\ search'.step \notin {"idle", "done"} => LiveNow' \subseteq seen'.live /\ onMap' \subseteq seen'.shown
           /\ search'.step # "idle" /\ search.step = "idle" => seen'.index = geo
           /\ search'.step # "idle" /\ search.step # "idle" => seen'.index = seen.index
           /\ read'.step # "idle" => /\ seen.positions \subseteq seen'.positions
                                     /\ hash'[read'.target] # Nowhere => hash'[read'.target] \in seen'.positions
<1> DEFINE busy == search'.step \notin {"idle", "done"}
           over == search'.step = "idle"
<1>1. seen' = [live  |-> IF over THEN {} ELSE IF busy THEN seen.live \cup LiveNow' ELSE seen.live,
               shown |-> IF over THEN {} ELSE IF busy THEN seen.shown \cup onMap' ELSE seen.shown,
               index |-> IF over THEN NoIndex ELSE IF search.step = "idle" THEN geo ELSE seen.index,
               quiet |-> over \/ (seen.quiet /\ UNCHANGED <<hash, trips, shippings, onMap>>),
               positions |-> IF read'.step = "idle" THEN {}
                             ELSE seen.positions \cup ({hash'[read'.target]} \ {Nowhere})]
  BY DEF Next, Observe, LiveNow
<1>2. /\ seen'.live = IF over THEN {} ELSE IF busy THEN seen.live \cup LiveNow' ELSE seen.live
      /\ seen'.shown = IF over THEN {} ELSE IF busy THEN seen.shown \cup onMap' ELSE seen.shown
      /\ seen'.index = IF over THEN NoIndex ELSE IF search.step = "idle" THEN geo ELSE seen.index
      /\ seen'.quiet = (over \/ (seen.quiet /\ UNCHANGED <<hash, trips, shippings, onMap>>))
      /\ seen'.positions = IF read'.step = "idle" THEN {}
                           ELSE seen.positions \cup ({hash'[read'.target]} \ {Nowhere})
  BY <1>1
<1>3. ASSUME search'.step # "idle", seen'.quiet
      PROVE  seen.quiet /\ UNCHANGED <<hash, trips, shippings, onMap>>
  BY <1>2, <1>3, Zenon
<1> HIDE DEF LiveNow
<1>. QED
  BY <1>2, <1>3

\* What is seen are members, users and positions.
LEMMA SeenTypeStep ==
    ASSUME PresenceTypeOK, hash' \in Index, onMap' \in SUBSET Users,
           read' = NoRead \/ read' \in ReadSet, Observe
    PROVE  seen' \in SeenSet
<1> DEFINE busy == search'.step \notin {"idle", "done"}
           over == search'.step = "idle"
<1>1. seen \in SeenSet /\ geo \in Index
  BY DEF PresenceTypeOK
<1>2. LiveNow' \subseteq Members \X Positions
  BY DEF LiveNow, Index
<1>3. NoIndex \in Index
  BY DEF NoIndex, Index
<1>4. read'.step # "idle" => hash'[read'.target] \in Positions \cup {Nowhere}
  BY DEF NoRead, ReadSet, Index, Members
<1> HIDE DEF LiveNow
<1>5. /\ (IF over THEN {} ELSE IF busy THEN seen.live \cup LiveNow' ELSE seen.live) \in SUBSET (Members \X Positions)
      /\ (IF over THEN {} ELSE IF busy THEN seen.shown \cup onMap' ELSE seen.shown) \in SUBSET Users
      /\ (IF over THEN NoIndex ELSE IF search.step = "idle" THEN geo ELSE seen.index) \in Index
      /\ (IF read'.step = "idle" THEN {} ELSE seen.positions \cup ({hash'[read'.target]} \ {Nowhere}))
           \in SUBSET Positions
  BY <1>1, <1>2, <1>3, <1>4 DEF SeenSet
<1>6. (over \/ (seen.quiet /\ UNCHANGED <<hash, trips, shippings, onMap>>)) \in BOOLEAN
  OBVIOUS
<1>7. seen' = [live  |-> IF over THEN {} ELSE IF busy THEN seen.live \cup LiveNow' ELSE seen.live,
               shown |-> IF over THEN {} ELSE IF busy THEN seen.shown \cup onMap' ELSE seen.shown,
               index |-> IF over THEN NoIndex ELSE IF search.step = "idle" THEN geo ELSE seen.index,
               quiet |-> over \/ (seen.quiet /\ UNCHANGED <<hash, trips, shippings, onMap>>),
               positions |-> IF read'.step = "idle" THEN {}
                             ELSE seen.positions \cup ({hash'[read'.target]} \ {Nowhere})]
  BY DEF Observe, LiveNow
<1> HIDE DEF over, busy
<1>. QED
  BY <1>5, <1>6, <1>7 DEF SeenSet

\* The right to a position stays: a shipping is never taken from the tables,
\* nor changes its package or its trip.
LEMMA EntitledStays ==
    ASSUME ClaimsOK, ClaimStep, NEW c, NEW u, Entitled(c, u)
    PROVE  Entitled(c, u)'
<1>1. CASE c \in {ApiKey, u}
  BY <1>1 DEF Entitled
<1>2. CASE c \notin {ApiKey, u}
  <2>1. PICK i \in DOMAIN shippings : /\ {c, u} \cap Parties(i) # {}
                                      /\ Carrier(i) \in {c, u}
                                      /\ {c, u} \subseteq Parties(i) \cup {Carrier(i)}
    BY <1>2 DEF Entitled
  <2>2. i \in DOMAIN shippings' /\ Carrier(i)' = Carrier(i) /\ Parties(i)' = Parties(i)
    BY ClaimsGrow DEF Parties
  <2>. QED
    BY <2>1, <2>2 DEF Entitled
<1>. QED
  BY <1>1, <1>2

\* GetUserLocation: the check lets counterparts through, what it allowed stays
\* allowed, and the position read is the one of that moment.
LEMMA ReadStep ==
    ASSUME PresenceTypeOK, ReadIsEntitled, Next
    PROVE  /\ read' = NoRead \/ read' \in ReadSet
           /\ ReadIsEntitled'
<1>1. ClaimStep /\ ClaimsOK
  BY OneActor DEF PresenceTypeOK
<1>2. CASE read' = read
  <2>1. PICK c, u : c = read.caller /\ u = read.target
    OBVIOUS
  <2>2. read.step \in {"allowed", "done"} => Entitled(c, u)'
    BY <1>1, <2>1, EntitledStays DEF ReadIsEntitled
  <2>3. read'.step # "idle" => seen.positions \subseteq seen'.positions
    BY PresenceSight
  <2>. QED
    BY <1>2, <2>1, <2>2, <2>3 DEF ReadIsEntitled, PresenceTypeOK, Entitled
<1>3. CASE Read
  <2>1. UNCHANGED <<redis, dbVars>>
    BY <1>3 DEF Read, Authorize, GetPresence, AnswerRead
  <2>2. ASSUME NEW c \in Callers, NEW u \in Users, NEW ok \in BOOLEAN, Authorize(c, u, ok)
        PROVE  read' \in ReadSet /\ ReadIsEntitled'
    <3>1. /\ read'.step = IF c \in {ApiKey, u} \/ (ok /\ UsersShareActiveShipping(c, u)) THEN "allowed" ELSE "refused"
          /\ read'.caller = c /\ read'.target = u /\ read'.pos = Nowhere /\ read' \in ReadSet
      BY <2>2 DEF Authorize, ReadSet
    <3>2. UsersShareActiveShipping(c, u) => Entitled(c, u)
      BY DEF UsersShareActiveShipping, Entitled
    <3>3. c \in {ApiKey, u} => Entitled(c, u)
      BY DEF Entitled
    <3>4. read'.step = "allowed" => Entitled(c, u)'
      BY <1>1, <3>1, <3>2, <3>3, EntitledStays
    <3>. QED
      BY <3>1, <3>4 DEF ReadIsEntitled, Entitled
  <2>3. ASSUME NEW ok \in BOOLEAN, GetPresence(ok)
        PROVE  read' \in ReadSet /\ ReadIsEntitled'
    <3>1. read.step = "allowed" /\ read \in ReadSet /\ hash \in Index /\ hash' = hash
      BY <2>1, <2>3 DEF GetPresence, PresenceTypeOK, NoRead, redis
    <3>2. /\ read'.step = "done" /\ read'.caller = read.caller /\ read'.target = read.target
          /\ read'.pos = IF ok THEN hash[read.target] ELSE Nowhere
      BY <2>3, <3>1 DEF GetPresence, ReadSet
    <3>3. hash[read.target] \in Positions \cup {Nowhere}
      BY <3>1 DEF ReadSet, Index, Members
    <3>4. read' \in ReadSet
      BY <2>3, <3>1, <3>3 DEF GetPresence, ReadSet
    <3>5. PICK c, u : c = read.caller /\ u = read.target
      OBVIOUS
    <3>6. Entitled(c, u)'
      BY <1>1, <3>1, <3>5, EntitledStays DEF ReadIsEntitled
    <3>7. hash'[read'.target] # Nowhere => hash'[read'.target] \in seen'.positions
      BY <3>2, PresenceSight
    <3>. QED
      BY <3>1, <3>2, <3>4, <3>5, <3>6, <3>7 DEF ReadIsEntitled, Entitled
  <2>4. CASE AnswerRead
    BY <2>4 DEF AnswerRead, NoRead, ReadIsEntitled
  <2>. QED
    BY <1>3, <2>2, <2>3, <2>4 DEF Read
<1>. QED
  BY <1>2, <1>3, OneActor
-----------------------------------------------------------------------------
(* Lists. *)

\* Taking the first entry off a sorted list.
LEMMA PopList ==
    ASSUME NEW t \in Seq(Near), t # <<>>
    PROVE  /\ Head(t) \in Near /\ Tail(t) \in Seq(Near)
           /\ Ids(t) = Ids(Tail(t)) \cup {Head(t).id}
           /\ SortedByDist(t) => /\ SortedByDist(Tail(t))
                                 /\ \A j \in DOMAIN Tail(t) : Head(t).dist <= Tail(t)[j].dist
           /\ NoTwice(t) => NoTwice(Tail(t)) /\ Head(t).id \notin Ids(Tail(t))
           /\ \A index : AtTheirDist(t, index) =>
                AtTheirDist(Tail(t), index) /\ InRange(index, Head(t).id) /\ Head(t).dist = index[Head(t).id]
<1>1. /\ Len(t) \in Nat \ {0} /\ DOMAIN t = 1 .. Len(t) /\ Head(t) = t[1] /\ t[1] \in Near /\ Tail(t) \in Seq(Near)
      /\ DOMAIN Tail(t) = 1 .. Len(t) - 1
      /\ \A j \in 1 .. Len(t) - 1 : Tail(t)[j] = t[j + 1] /\ j + 1 \in 1 .. Len(t)
  OBVIOUS
<1>2. \A i \in 1 .. Len(t) : i = 1 \/ (i - 1 \in 1 .. Len(t) - 1 /\ Tail(t)[i - 1] = t[i])
  BY <1>1
<1>3. 1 \in DOMAIN t
  BY <1>1
<1>4. Ids(t) = Ids(Tail(t)) \cup {Head(t).id}
  <2>1. ASSUME NEW x \in Ids(t) PROVE x \in Ids(Tail(t)) \cup {Head(t).id}
    <3>1. PICK i \in 1 .. Len(t) : x = t[i].id
      BY <1>1 DEF Ids
    <3>2. CASE i = 1
      BY <1>1, <3>1, <3>2
    <3>3. CASE i # 1
      <4>1. i - 1 \in DOMAIN Tail(t) /\ x = Tail(t)[i - 1].id
        BY <1>1, <1>2, <3>1, <3>3
      <4>. QED
        BY <4>1 DEF Ids
    <3>. QED
      BY <3>2, <3>3
  <2>2. ASSUME NEW x \in Ids(Tail(t)) PROVE x \in Ids(t)
    BY <1>1 DEF Ids
  <2>3. Head(t).id \in Ids(t)
    BY <1>1, <1>3 DEF Ids
  <2>. QED
    BY <2>1, <2>2, <2>3
<1>5. ASSUME SortedByDist(t)
      PROVE  SortedByDist(Tail(t)) /\ \A j \in DOMAIN Tail(t) : Head(t).dist <= Tail(t)[j].dist
  <2>1. ASSUME NEW i \in DOMAIN Tail(t), NEW j \in DOMAIN Tail(t), i < j PROVE Tail(t)[i].dist <= Tail(t)[j].dist
    <3>1. i + 1 \in DOMAIN t /\ j + 1 \in DOMAIN t /\ i + 1 < j + 1 /\ Tail(t)[i] = t[i + 1] /\ Tail(t)[j] = t[j + 1]
      BY <1>1, <2>1
    <3>. QED
      BY <1>5, <3>1 DEF SortedByDist
  <2>2. ASSUME NEW j \in DOMAIN Tail(t) PROVE Head(t).dist <= Tail(t)[j].dist
    <3>1. j + 1 \in DOMAIN t /\ 1 < j + 1 /\ Tail(t)[j] = t[j + 1]
      BY <1>1
    <3>. QED
      BY <1>1, <1>3, <1>5, <3>1 DEF SortedByDist
  <2>. QED
    BY <2>1, <2>2 DEF SortedByDist
<1>6. ASSUME NoTwice(t) PROVE NoTwice(Tail(t)) /\ Head(t).id \notin Ids(Tail(t))
  <2>1. ASSUME NEW i \in DOMAIN Tail(t), NEW j \in DOMAIN Tail(t), Tail(t)[i].id = Tail(t)[j].id PROVE i = j
    <3>1. i + 1 \in DOMAIN t /\ j + 1 \in DOMAIN t /\ Tail(t)[i] = t[i + 1] /\ Tail(t)[j] = t[j + 1]
      BY <1>1
    <3>2. i + 1 = j + 1
      BY <1>6, <2>1, <3>1 DEF NoTwice
    <3>. QED
      BY <1>1, <3>2
  <2>2. ASSUME NEW j \in DOMAIN Tail(t) PROVE Tail(t)[j].id # Head(t).id
    <3>1. j + 1 \in DOMAIN t /\ 1 # j + 1 /\ Tail(t)[j] = t[j + 1]
      BY <1>1
    <3>. QED
      BY <1>1, <1>3, <1>6, <3>1 DEF NoTwice
  <2>. QED
    BY <2>1, <2>2 DEF NoTwice, Ids
<1>7. ASSUME NEW index, AtTheirDist(t, index)
      PROVE  AtTheirDist(Tail(t), index) /\ InRange(index, Head(t).id) /\ Head(t).dist = index[Head(t).id]
  BY <1>1, <1>3, <1>7 DEF AtTheirDist
<1>. QED
  BY <1>1, <1>4, <1>5, <1>6, <1>7

\* Adding an entry that is no nearer to the end of a sorted list.
LEMMA PushList ==
    ASSUME NEW f \in Seq(Found), NEW d \in Found
    PROVE  /\ Append(f, d) \in Seq(Found)
           /\ Ids(Append(f, d)) = Ids(f) \cup {d.id}
           /\ SortedByDist(f) /\ (\A i \in DOMAIN f : f[i].dist <= d.dist) => SortedByDist(Append(f, d))
           /\ NoTwice(f) /\ d.id \notin Ids(f) => NoTwice(Append(f, d))
           /\ \A i \in DOMAIN Append(f, d) : Append(f, d)[i] = d \/ (i \in DOMAIN f /\ Append(f, d)[i] = f[i])
<1> DEFINE g == Append(f, d)
<1>1. /\ Len(f) \in Nat /\ DOMAIN f = 1 .. Len(f) /\ g \in Seq(Found) /\ DOMAIN g = 1 .. Len(f) + 1
      /\ g[Len(f) + 1] = d /\ \A i \in 1 .. Len(f) : g[i] = f[i]
  OBVIOUS
<1> HIDE DEF g
<1>2. \A i \in DOMAIN g : i = Len(f) + 1 \/ i \in DOMAIN f
  BY <1>1
<1>3. Ids(g) = Ids(f) \cup {d.id}
  <2>1. ASSUME NEW x \in Ids(g) PROVE x \in Ids(f) \cup {d.id}
    BY <1>1, <1>2 DEF Ids
  <2>2. ASSUME NEW i \in DOMAIN f PROVE i \in DOMAIN g /\ g[i] = f[i]
    BY <1>1
  <2>3. Len(f) + 1 \in DOMAIN g
    BY <1>1
  <2>. QED
    BY <1>1, <2>1, <2>2, <2>3 DEF Ids
<1>4. ASSUME SortedByDist(f), \A i \in DOMAIN f : f[i].dist <= d.dist PROVE SortedByDist(g)
  <2>1. ASSUME NEW i \in DOMAIN g, NEW j \in DOMAIN g, i < j PROVE g[i].dist <= g[j].dist
    <3>1. i \in DOMAIN f
      BY <1>1, <2>1
    <3>2. CASE j \in DOMAIN f
      BY <1>1, <1>4, <2>1, <3>1, <3>2 DEF SortedByDist
    <3>3. CASE j = Len(f) + 1
      BY <1>1, <1>4, <3>1, <3>3
    <3>. QED
      BY <1>2, <3>2, <3>3
  <2>. QED
    BY <2>1 DEF SortedByDist
<1>5. ASSUME NoTwice(f), d.id \notin Ids(f) PROVE NoTwice(g)
  <2>1. \A i \in DOMAIN f : f[i].id # d.id
    BY <1>5 DEF Ids
  <2>2. ASSUME NEW i \in DOMAIN g, NEW j \in DOMAIN g, g[i].id = g[j].id PROVE i = j
    <3>1. CASE i \in DOMAIN f /\ j \in DOMAIN f
      BY <1>1, <1>5, <2>2, <3>1 DEF NoTwice
    <3>2. CASE i = Len(f) + 1 /\ j \in DOMAIN f
      BY <1>1, <2>1, <2>2, <3>2
    <3>3. CASE i \in DOMAIN f /\ j = Len(f) + 1
      BY <1>1, <2>1, <2>2, <3>3
    <3>. QED
      BY <1>2, <3>1, <3>2, <3>3
  <2>. QED
    BY <2>2 DEF NoTwice
<1>. QED
  BY <1>1, <1>2, <1>3, <1>4, <1>5 DEF g

\* A hash that was read moves its member from what is to be read to what was
\* found.
LEMMA ReadingGoesOn ==
    ASSUME NEW f \in Seq(Found), NEW t \in Seq(Near), t # <<>>, NEW index, NEW h,
           Reading(f, t, index, h), NEW d \in Found, d.id = Head(t).id, d.dist = Head(t).dist, d.job = NoJob,
           h[d.id] # Nowhere
    PROVE  Reading(Append(f, d), Tail(t), index, h)
<1> DEFINE g == Append(f, d)
<1>1. /\ SortedByDist(f) /\ SortedByDist(t) /\ \A i \in DOMAIN f, j \in DOMAIN t : f[i].dist <= t[j].dist
      /\ NoTwice(f) /\ NoTwice(t) /\ Ids(f) \cap Ids(t) = {}
      /\ AtTheirDist(f, index) /\ AtTheirDist(t, index)
      /\ \A i \in DOMAIN f : h[f[i].id] # Nowhere /\ f[i].job = NoJob
      /\ \A m \in Members : InRange(index, m) /\ h[m] # Nowhere => m \in Ids(f) \cup Ids(t)
  BY DEF Reading
<1>2. \A i \in DOMAIN f : f[i].dist <= d.dist
  <2>1. 1 \in DOMAIN t /\ Head(t) = t[1]
    OBVIOUS
  <2>. QED
    BY <1>1, <2>1
<1>3. Ids(t) = Ids(Tail(t)) \cup {d.id} /\ d.id \notin Ids(Tail(t)) /\ d.id \notin Ids(f)
  BY <1>1, PopList
<1>4. /\ SortedByDist(Tail(t)) /\ \A j \in DOMAIN Tail(t) : d.dist <= Tail(t)[j].dist
      /\ NoTwice(Tail(t)) /\ AtTheirDist(Tail(t), index)
      /\ InRange(index, d.id) /\ d.dist = index[d.id]
  BY <1>1, PopList
<1>5. /\ g \in Seq(Found) /\ Ids(g) = Ids(f) \cup {d.id} /\ SortedByDist(g) /\ NoTwice(g)
      /\ \A i \in DOMAIN g : g[i] = d \/ (i \in DOMAIN f /\ g[i] = f[i])
  BY <1>1, <1>2, <1>3, PushList
<1> HIDE DEF g
<1>6. \A j \in DOMAIN Tail(t) : j + 1 \in DOMAIN t /\ Tail(t)[j] = t[j + 1]
  OBVIOUS
<1>7. \A i \in DOMAIN g, j \in DOMAIN Tail(t) : g[i].dist <= Tail(t)[j].dist
  BY <1>1, <1>4, <1>5, <1>6
<1>8. AtTheirDist(g, index)
  BY <1>1, <1>4, <1>5 DEF AtTheirDist
<1>9. \A i \in DOMAIN g : h[g[i].id] # Nowhere /\ g[i].job = NoJob
  BY <1>1, <1>5
<1>10. Ids(g) \cap Ids(Tail(t)) = {} /\ Ids(g) \cup Ids(Tail(t)) = Ids(f) \cup Ids(t)
  BY <1>1, <1>3, <1>5
<1>11. Reading(g, Tail(t), index, h)
  BY <1>1, <1>4, <1>5, <1>7, <1>8, <1>9, <1>10 DEF Reading
<1>. QED
  BY <1>11 DEF g

\* A member without a hash is not to be found.
LEMMA ReadingSkips ==
    ASSUME NEW f \in Seq(Found), NEW t \in Seq(Near), t # <<>>, NEW index, NEW h,
           Reading(f, t, index, h), h[Head(t).id] = Nowhere
    PROVE  Reading(f, Tail(t), index, h)
<1>1. /\ SortedByDist(f) /\ SortedByDist(t) /\ \A i \in DOMAIN f, j \in DOMAIN t : f[i].dist <= t[j].dist
      /\ NoTwice(f) /\ NoTwice(t) /\ Ids(f) \cap Ids(t) = {}
      /\ AtTheirDist(f, index) /\ AtTheirDist(t, index)
      /\ \A i \in DOMAIN f : h[f[i].id] # Nowhere /\ f[i].job = NoJob
      /\ \A m \in Members : InRange(index, m) /\ h[m] # Nowhere => m \in Ids(f) \cup Ids(t)
  BY DEF Reading
<1>2. /\ Ids(t) = Ids(Tail(t)) \cup {Head(t).id}
      /\ SortedByDist(Tail(t)) /\ NoTwice(Tail(t)) /\ AtTheirDist(Tail(t), index)
  BY <1>1, PopList
<1>3. \A j \in DOMAIN Tail(t) : j + 1 \in DOMAIN t /\ Tail(t)[j] = t[j + 1]
  OBVIOUS
<1>4. \A i \in DOMAIN f, j \in DOMAIN Tail(t) : f[i].dist <= Tail(t)[j].dist
  BY <1>1, <1>3
<1>5. \A m \in Members : InRange(index, m) /\ h[m] # Nowhere => m \in Ids(f) \cup Ids(Tail(t))
  BY <1>1, <1>2
<1>6. Ids(f) \cap Ids(Tail(t)) = {}
  BY <1>1, <1>2
<1>. QED
  BY <1>1, <1>2, <1>4, <1>5, <1>6 DEF Reading

\* The filter keeps the nearest of the eligible ones.
LEMMA FilterLists ==
    ASSUME NEW f \in Seq(Found), NEW index, NEW h, Reading(f, <<>>, index, h),
           NEW ids \in SUBSET Members, NEW limit \in Nat,
           NEW eligible, eligible = {u \in ids : h[u] # Nowhere /\ InRange(index, u)}
    PROVE  /\ Listed(FirstOf(f, ids, limit), limit, eligible, index)
           /\ \A i \in DOMAIN FirstOf(f, ids, limit) : FirstOf(f, ids, limit)[i].job = NoJob
<1> DEFINE r == FirstOf(f, ids, limit)
<1>1. r \in Seq(Found) /\ \E k : IsPick(r, k, f, ids, limit, Len(f))
  BY FirstOfPicks
<1> HIDE DEF r
<1>2. PICK k : IsPick(r, k, f, ids, limit, Len(f))
  BY <1>1
<1>3. /\ SortedByDist(f) /\ NoTwice(f) /\ AtTheirDist(f, index)
      /\ \A i \in DOMAIN f : h[f[i].id] # Nowhere /\ f[i].job = NoJob
      /\ \A m \in Members : InRange(index, m) /\ h[m] # Nowhere => m \in Ids(f)
  BY DEF Reading, Ids
<1>4. /\ DOMAIN f = 1 .. Len(f) /\ DOMAIN r = 1 .. Len(r) /\ Len(f) \in Nat /\ Len(r) \in Nat
  BY <1>1, SMTT(30)
<1>5. /\ \A i \in DOMAIN r : k[i] \in DOMAIN f /\ r[i] = f[k[i]] /\ f[k[i]].id \in ids
      /\ \A i, j \in DOMAIN r : i < j => k[i] < k[j]
      /\ \A j \in DOMAIN f : f[j].id \in ids => \/ \E i \in DOMAIN r : k[i] = j
                                                \/ Len(r) = limit /\ \A i \in DOMAIN r : k[i] < j
  BY <1>2, <1>4 DEF IsPick
<1>6. SortedByDist(r)
  BY <1>3, <1>5 DEF SortedByDist
<1>7. NoTwice(r)
  <2>1. ASSUME NEW i \in DOMAIN r, NEW j \in DOMAIN r, r[i].id = r[j].id PROVE i = j
    <3>1. k[i] = k[j]
      BY <1>3, <1>5, <2>1 DEF NoTwice
    <3>2. ~(i < j) /\ ~(j < i)
      BY <1>4, <1>5, <3>1
    <3>. QED
      BY <1>4, <3>2
  <2>. QED
    BY <2>1 DEF NoTwice
<1>8. Ids(r) \subseteq eligible
  <2>1. ASSUME NEW i \in DOMAIN r PROVE r[i].id \in eligible
    BY <1>3, <1>5 DEF AtTheirDist
  <2>. QED
    BY <2>1 DEF Ids
<1>9. ASSUME NEW u \in eligible, u \notin Ids(r)
      PROVE  Len(r) = limit /\ \A i \in DOMAIN r : r[i].dist <= index[u]
  <2>1. u \in Members /\ u \in ids /\ InRange(index, u) /\ h[u] # Nowhere
    OBVIOUS
  <2>2. PICK j \in DOMAIN f : f[j].id = u
    BY <1>3, <2>1 DEF Ids
  <2>3. \A i \in DOMAIN r : k[i] # j
    BY <1>5, <1>9, <2>2 DEF Ids
  <2>4. Len(r) = limit /\ \A i \in DOMAIN r : k[i] < j
    BY <1>5, <2>1, <2>2, <2>3
  <2>5. \A i \in DOMAIN r : f[k[i]].dist <= f[j].dist
    BY <1>3, <1>5, <2>4 DEF SortedByDist
  <2>6. f[j].dist = index[u]
    BY <1>3, <2>2 DEF AtTheirDist
  <2>. QED
    BY <1>5, <2>4, <2>5, <2>6
<1>10. Listed(r, limit, eligible, index)
  BY <1>6, <1>7, <1>8, <1>9 DEF Listed
<1>11. \A i \in DOMAIN r : r[i].job = NoJob
  BY <1>3, <1>5
<1>. QED
  BY <1>10, <1>11 DEF r
-----------------------------------------------------------------------------
(* The steps of a search. *)

\* GEOSEARCH: members in range, nearest first, each once; all of them, when
\* there are no more than asked for.
LEMMA GeoFound ==
    ASSUME geo \in Index, NEW count \in Nat, NEW q \in GeoSearch(count)
    PROVE  /\ q \in Seq(Members)
           /\ \A i \in DOMAIN q : InRange(geo, q[i]) /\ geo[q[i]] \in Positions
           /\ \A i, j \in DOMAIN q : i < j => geo[q[i]] <= geo[q[j]]
           /\ \A i, j \in DOMAIN q : q[i] = q[j] => i = j
           /\ Cardinality({m \in Members : geo[m] # Nowhere /\ geo[m] <= Radius}) <= count =>
                \A m \in Members : InRange(geo, m) => \E i \in DOMAIN q : q[i] = m
<1> DEFINE hits == {m \in Members : geo[m] # Nowhere /\ geo[m] <= Radius}
           n == Cardinality(hits)
<1>1. IsFiniteSet(hits) /\ n \in Nat
  BY PresenceConstants, FS_Subset, FS_CardinalityType
<1>2. PICK p \in SetToSeqs(hits) : /\ \A i, j \in DOMAIN p : i < j => geo[p[i]] <= geo[p[j]]
                                   /\ q = First(p, count)
  BY DEF GeoSearch
<1>3. p \in [1 .. n -> hits] /\ \A i, j \in 1 .. n : i # j => p[i] # p[j]
  BY <1>2 DEF SetToSeqs
<1>4. \A m \in Members : m \in hits <=> InRange(geo, m)
  BY DEF InRange
<1>5. hits \subseteq Members /\ \A m \in hits : geo[m] \in Positions
  BY DEF Index
<1> HIDE DEF hits
<1>6. p \in Seq(Members) /\ Len(p) = n /\ DOMAIN p = 1 .. n
  BY <1>1, <1>3, <1>5
<1> DEFINE k == IF Len(p) < count THEN Len(p) ELSE count
<1>7. q = SubSeq(p, 1, k) /\ k \in Nat /\ k <= n
  BY <1>1, <1>2, <1>6 DEF First
<1> HIDE DEF k
<1>8. q \in Seq(Members) /\ Len(q) = k /\ DOMAIN q = 1 .. k /\ \A i \in 1 .. k : q[i] = p[i] /\ i \in 1 .. n
  BY <1>1, <1>6, <1>7
<1>9. n <= count => k = n
  BY <1>1, <1>6 DEF k
<1>10. \A m \in hits : \E i \in 1 .. n : p[i] = m
  <2>1. p \in Injection(1 .. n, hits)
    BY <1>3 DEF Injection, IsInjective
  <2>2. Cardinality(1 .. n) = n
    BY <1>1, FS_Interval
  <2>3. p \in Surjection(1 .. n, hits)
    BY <1>1, <2>1, <2>2, FS_Injection
  <2>. QED
    BY <2>3 DEF Surjection
<1>11. \A i \in DOMAIN q : q[i] \in hits
  BY <1>3, <1>8
<1>12. \A i, j \in DOMAIN q : q[i] = q[j] => i = j
  BY <1>3, <1>8
<1>13. \A i, j \in DOMAIN q : i < j => geo[q[i]] <= geo[q[j]]
  BY <1>2, <1>6, <1>8
<1>14. n <= count => \A m \in Members : InRange(geo, m) => \E i \in DOMAIN q : q[i] = m
  BY <1>4, <1>8, <1>9, <1>10
<1>. QED
  BY <1>4, <1>5, <1>8, <1>11, <1>12, <1>13, <1>14 DEF hits

\* A search that is undisturbed after a step was so before, and the step
\* changed nothing it depends on.
LEMMA StillUndisturbed ==
    ASSUME PresenceTypeOK, Next, search'.step # "idle", search.step # "idle",
           search'.limit = search.limit, search'.viewer = search.viewer, search'.intact => search.intact, Undisturbed'
    PROVE  /\ Undisturbed /\ UNCHANGED <<hash, trips, shippings, onMap>> /\ seen'.index = seen.index
           /\ Eligible' = Eligible
<1>1. seen'.index = seen.index /\ UNCHANGED <<hash, trips, shippings, onMap>> /\ seen.quiet
  BY PresenceSight, Zenon DEF Undisturbed
<1>2. Crowded' = Crowded
  BY <1>1 DEF Crowded, Capped
<1>3. Eligible' = Eligible
  BY <1>1 DEF Eligible
<1>4. Undisturbed
  BY <1>1, <1>2, Zenon DEF Undisturbed
<1>. QED
  BY <1>1, <1>3, <1>4

\* The jobs of a driver depend on trips and shippings only.
LEMMA JobsStay ==
    ASSUME UNCHANGED <<trips, shippings>>, NEW u
    PROVE  /\ LatestActiveShipping(u)' = LatestActiveShipping(u) /\ LatestTrip(u)' = LatestTrip(u)
           /\ ShippingJob(u)' = ShippingJob(u) /\ Job(u)' = Job(u)
<1>1. LatestActiveShipping(u)' = LatestActiveShipping(u)
  BY DEF LatestActiveShipping, ActiveBy, Carrier, Greatest
<1>2. LatestTrip(u)' = LatestTrip(u)
  BY DEF LatestTrip, Greatest
<1>3. NoJob' = NoJob
  BY DEF NoJob
<1>. QED
  BY <1>1, <1>2, <1>3 DEF ShippingJob, Job

SearchOK == /\ search \in SearchSet
            /\ search.step = "heal" => search.todo # <<>>
            /\ FoundWasLive /\ FoundWasShown /\ QuietSearch

\* Nobody but the search itself disturbs what it has found.
LEMMA OthersStep ==
    ASSUME PresenceTypeOK, SearchOK, Next, UNCHANGED search
    PROVE  SearchOK'
<1>1. FoundWasLive'
  BY PresenceSight DEF SearchOK, FoundWasLive
<1>2. FoundWasShown'
  BY PresenceSight DEF SearchOK, FoundWasShown
<1>3. QuietSearch'
  <2>1. CASE search.step = "idle"
    BY <2>1 DEF QuietSearch
  <2>2. ASSUME search.step # "idle", Undisturbed'
        PROVE  /\ search'.step \in {"hashes", "heal"} => Reading(search'.found, search'.todo, seen'.index, hash')
               /\ search'.step = "heal" => hash'[Head(search'.todo).id] = Nowhere
               /\ search'.step \in {"shippings", "trips", "done"} =>
                    Listed(search'.found, search'.limit, Eligible', seen'.index) /\ JobsSoFar'
    <3>1. /\ Undisturbed /\ UNCHANGED <<hash, trips, shippings, onMap>> /\ seen'.index = seen.index
          /\ Eligible' = Eligible
      BY <2>2, StillUndisturbed
    <3>2. JobsSoFar => JobsSoFar'
      BY <3>1, JobsStay DEF JobsSoFar, NoJob
    <3>. QED
      BY <3>1, <3>2 DEF SearchOK, QuietSearch
  <2>. QED
    BY <2>1, <2>2 DEF QuietSearch
<1>. QED
  BY <1>1, <1>2, <1>3 DEF SearchOK
\* SearchNearby starts with what GEOSEARCH returns.
LEMMA SearchNearbyStep ==
    ASSUME PresenceTypeOK, Next, NEW v \in Viewers, NEW asked \in Limits, SearchNearby(v, asked)
    PROVE  SearchOK'
<1>1. geo \in Index /\ search.step = "idle"
  BY DEF PresenceTypeOK, SearchNearby
<1>2. Limit(asked) \in Nat \ {0} /\ Capped(Limit(asked) * 3) \in Nat
  BY PresenceConstants DEF Limit, Capped
<1>3. PICK q \in GeoSearch(Capped(Limit(asked) * 3)) :
         search' = [step |-> "hashes", viewer |-> v, limit |-> Limit(asked),
                    todo |-> [i \in DOMAIN q |-> [id |-> q[i], dist |-> geo[q[i]]]],
                    found |-> <<>>, intact |-> TRUE]
  BY DEF SearchNearby
<1> DEFINE t == [i \in DOMAIN q |-> [id |-> q[i], dist |-> geo[q[i]]]]
<1>4. /\ q \in Seq(Members)
      /\ \A i \in DOMAIN q : InRange(geo, q[i]) /\ geo[q[i]] \in Positions
      /\ \A i, j \in DOMAIN q : i < j => geo[q[i]] <= geo[q[j]]
      /\ \A i, j \in DOMAIN q : q[i] = q[j] => i = j
  BY <1>1, <1>2, GeoFound
<1>5. /\ t \in Seq(Near) /\ DOMAIN t = DOMAIN q
      /\ \A i \in DOMAIN q : t[i].id = q[i] /\ t[i].dist = geo[q[i]]
  <2>1. Len(q) \in Nat /\ DOMAIN q = 1 .. Len(q)
    BY <1>4
  <2>2. \A i \in DOMAIN q : [id |-> q[i], dist |-> geo[q[i]]] \in Near
    BY <1>4 DEF Near
  <2>. QED
    BY <2>1, <2>2
<1>6. /\ search'.step = "hashes" /\ search'.limit = Limit(asked) /\ search'.todo = t /\ search'.found = <<>>
      /\ search'.viewer = v
  BY <1>3
<1> HIDE DEF t
<1>7. search' \in SearchSet
  BY <1>2, <1>3, <1>5, PresenceConstants DEF SearchSet, t
<1>8. FoundWasLive' /\ FoundWasShown'
  BY <1>6 DEF FoundWasLive, FoundWasShown
<1>9. QuietSearch'
  <2>1. SUFFICES ASSUME Undisturbed' PROVE Reading(<<>>, t, seen'.index, hash')
    BY <1>6 DEF QuietSearch
  <2>2. seen'.index = geo
    BY <1>1, <1>6, PresenceSight
  <2>3. Cardinality({m \in Members : geo[m] # Nowhere /\ geo[m] <= Radius}) <= Capped(Limit(asked) * 3)
    <3>1. ~(Cardinality({m \in Members : geo[m] # Nowhere /\ geo[m] <= Radius}) > Capped(Limit(asked) * 3))
      BY <1>6, <2>1, <2>2 DEF Undisturbed, Crowded, Capped
    <3>2. Cardinality({m \in Members : geo[m] # Nowhere /\ geo[m] <= Radius}) \in Nat
      BY PresenceConstants, FS_Subset, FS_CardinalityType
    <3>. QED
      BY <1>2, <3>1, <3>2
  <2>4. \A m \in Members : InRange(geo, m) => \E i \in DOMAIN q : q[i] = m
    BY <1>1, <1>2, <2>3, GeoFound
  <2>5. SortedByDist(t) /\ NoTwice(t) /\ AtTheirDist(t, geo)
    BY <1>4, <1>5 DEF SortedByDist, NoTwice, AtTheirDist
  <2>6. \A m \in Members : InRange(geo, m) => m \in Ids(t)
    BY <1>5, <2>4 DEF Ids
  <2>7. SortedByDist(<<>>) /\ NoTwice(<<>>) /\ AtTheirDist(<<>>, geo) /\ Ids(<<>>) = {}
    BY DEF SortedByDist, NoTwice, AtTheirDist, Ids
  <2>. QED
    BY <2>2, <2>5, <2>6, <2>7 DEF Reading
<1>. QED
  BY <1>6, <1>7, <1>8, <1>9 DEF SearchOK

\* A hash that is read was live at that moment; one that is not there sends
\* the member to be healed.
LEMMA ReadHashStep ==
    ASSUME PresenceTypeOK, SearchOK, Next, NEW ok \in BOOLEAN, ReadHash(ok)
    PROVE  SearchOK'
<1> DEFINE m == Head(search.todo)
           d == [id |-> m.id, pos |-> hash[m.id], dist |-> m.dist, job |-> NoJob]
<1>1. /\ search \in SearchSet /\ search.step = "hashes" /\ search.todo # <<>>
      /\ search.todo \in Seq(Near) /\ search.found \in Seq(Found)
      /\ hash \in Index /\ hash' = hash
  BY DEF SearchOK, SearchSet, ReadHash, PresenceTypeOK, redis
<1>2. m \in Near /\ Tail(search.todo) \in Seq(Near)
  BY <1>1
<1>3. CASE ok /\ hash[m.id] # Nowhere
  <2>1. search' = [search EXCEPT !.todo = Tail(@), !.found = Append(@, d)]
    BY <1>3 DEF ReadHash
  <2>2. d \in Found /\ d.id = m.id /\ d.dist = m.dist /\ d.job = NoJob /\ d.pos = hash[m.id]
    BY <1>1, <1>2, <1>3 DEF Found, Near, Index, JobSet, NoJob
  <2> HIDE DEF d, m
  <2>3. /\ search'.step = "hashes" /\ search'.todo = Tail(search.todo) /\ search'.found = Append(search.found, d)
        /\ search'.limit = search.limit /\ search'.viewer = search.viewer /\ search'.intact = search.intact
    BY <1>1, <2>1 DEF SearchSet
  <2>4. Append(search.found, d) \in Seq(Found)
    BY <1>1, <2>2
  <2>5. search' \in SearchSet
    BY <1>1, <1>2, <2>1, <2>4 DEF SearchSet
  <2>6. FoundWasLive'
    <3>1. <<d.id, d.pos>> \in LiveNow'
      <4>1. m.id \in Members
        BY <1>2 DEF Near
      <4>. QED
        BY <1>1, <1>3, <2>2, <4>1 DEF LiveNow
    <3>2. <<d.id, d.pos>> \in seen'.live /\ seen.live \subseteq seen'.live
      BY <2>3, <3>1, PresenceSight
    <3>3. \A i \in DOMAIN search.found : <<search.found[i].id, search.found[i].pos>> \in seen.live
      BY <1>1 DEF SearchOK, FoundWasLive
    <3>4. \A i \in DOMAIN search'.found : search'.found[i] = d \/ (i \in DOMAIN search.found /\ search'.found[i] = search.found[i])
      BY <1>1, <2>2, <2>3, PushList
    <3>. QED
      BY <3>2, <3>3, <3>4 DEF FoundWasLive
  <2>7. FoundWasShown'
    BY <2>3 DEF FoundWasShown
  <2>8. QuietSearch'
    <3>1. SUFFICES ASSUME Undisturbed' PROVE Reading(search'.found, search'.todo, seen'.index, hash')
      BY <2>3 DEF QuietSearch
    <3>2. Undisturbed /\ seen'.index = seen.index
      BY <1>1, <2>3, <3>1, StillUndisturbed
    <3>3. Reading(search.found, search.todo, seen.index, hash)
      BY <1>1, <3>2 DEF SearchOK, QuietSearch
    <3>4. Reading(Append(search.found, d), Tail(search.todo), seen.index, hash)
      BY <1>1, <1>3, <2>2, <3>3, ReadingGoesOn DEF m
    <3>. QED
      BY <1>1, <2>3, <3>2, <3>4
  <2>. QED
    BY <2>3, <2>5, <2>6, <2>7, <2>8 DEF SearchOK
<1>4. CASE ~(ok /\ hash[m.id] # Nowhere)
  <2>1. search' = [search EXCEPT !.step = "heal", !.intact = @ /\ ok]
    BY <1>4 DEF ReadHash
  <2>2. /\ search'.step = "heal" /\ search'.todo = search.todo /\ search'.found = search.found
        /\ search'.limit = search.limit /\ search'.viewer = search.viewer /\ search' \in SearchSet
    BY <1>1, <2>1 DEF SearchSet
  <2>3. search'.intact => search.intact /\ ok
    <3>1. search'.intact = (search.intact /\ ok)
      BY <1>1, <2>1 DEF SearchSet
    <3>. QED
      BY <3>1, Zenon
  <2>4. FoundWasLive' /\ FoundWasShown'
    BY <1>1, <2>2, PresenceSight DEF SearchOK, FoundWasLive, FoundWasShown
  <2>5. QuietSearch'
    <3>1. SUFFICES ASSUME Undisturbed'
                   PROVE  /\ Reading(search'.found, search'.todo, seen'.index, hash')
                          /\ hash'[Head(search'.todo).id] = Nowhere
      BY <2>2 DEF QuietSearch
    <3>2. Undisturbed /\ seen'.index = seen.index
      BY <1>1, <2>2, <2>3, <3>1, StillUndisturbed
    <3>3. ok
      BY <2>3, <3>1 DEF Undisturbed
    <3>. QED
      BY <1>1, <1>4, <2>2, <3>2, <3>3 DEF SearchOK, QuietSearch
  <2>. QED
    BY <1>1, <2>2, <2>4, <2>5 DEF SearchOK
<1>. QED
  BY <1>3, <1>4

\* ZREM takes a member out of the index that an undisturbed search need not find.
LEMMA HealStep ==
    ASSUME PresenceTypeOK, SearchOK, Next, NEW ok \in BOOLEAN, Heal(ok)
    PROVE  SearchOK'
<1>1. /\ search \in SearchSet /\ search.step = "heal" /\ search.todo # <<>>
      /\ search.todo \in Seq(Near) /\ search.found \in Seq(Found) /\ hash' = hash
      /\ search' = [search EXCEPT !.step = "hashes", !.todo = Tail(@)]
  BY DEF SearchOK, SearchSet, Heal
<1>2. /\ search'.step = "hashes" /\ search'.todo = Tail(search.todo) /\ search'.found = search.found
      /\ search'.limit = search.limit /\ search'.viewer = search.viewer /\ search'.intact = search.intact
      /\ search' \in SearchSet
  <2>1. Tail(search.todo) \in Seq(Near)
    BY <1>1
  <2>. QED
    BY <1>1, <2>1 DEF SearchSet
<1>3. FoundWasLive' /\ FoundWasShown'
  BY <1>1, <1>2, PresenceSight DEF SearchOK, FoundWasLive, FoundWasShown
<1>4. QuietSearch'
  <2>1. SUFFICES ASSUME Undisturbed' PROVE Reading(search'.found, search'.todo, seen'.index, hash')
    BY <1>2 DEF QuietSearch
  <2>2. Undisturbed /\ seen'.index = seen.index
    BY <1>1, <1>2, <2>1, StillUndisturbed
  <2>3. Reading(search.found, search.todo, seen.index, hash) /\ hash[Head(search.todo).id] = Nowhere
    BY <1>1, <2>2 DEF SearchOK, QuietSearch
  <2>4. Reading(search.found, Tail(search.todo), seen.index, hash)
    BY <1>1, <2>3, ReadingSkips
  <2>. QED
    BY <1>1, <1>2, <2>2, <2>4
<1>. QED
  BY <1>2, <1>3, <1>4 DEF SearchOK
\* The profile filter keeps entries of the list whose users are visible now.
LEMMA FilterVisibleStep ==
    ASSUME PresenceTypeOK, SearchOK, Next, NEW ok \in BOOLEAN, FilterVisible(ok)
    PROVE  SearchOK'
<1> DEFINE ids == IF ok THEN FindVisibleOnMapUserIDs(Users \ {search.viewer}) ELSE {}
           kept == FirstOf(search.found, ids, search.limit)
<1>1. /\ search \in SearchSet /\ search.step = "hashes" /\ search.todo = <<>>
      /\ search.found \in Seq(Found) /\ search.limit \in Nat \ {0} /\ UNCHANGED <<hash, onMap>>
      /\ search' = [search EXCEPT !.found = kept, !.intact = @ /\ ok,
                                  !.step = IF kept = <<>> THEN "done" ELSE "shippings"]
  BY DEF SearchOK, SearchSet, FilterVisible, ShownTo, redis, dbVars
<1>2. kept \in Seq(Found) /\ \E k : IsPick(kept, k, search.found, ids, search.limit, Len(search.found))
  BY <1>1, FirstOfPicks
<1>3. ids \subseteq Users \ {search.viewer} /\ ids \subseteq onMap /\ ids \in SUBSET Members
  BY DEF FindVisibleOnMapUserIDs, Members
<1>4. ok => ids = (Users \ {search.viewer}) \cap onMap
  BY DEF FindVisibleOnMapUserIDs
<1> HIDE DEF ids, kept
<1>5. PICK k : IsPick(kept, k, search.found, ids, search.limit, Len(search.found))
  BY <1>2
<1>6. /\ Len(kept) <= search.limit
      /\ \A i \in DOMAIN kept : k[i] \in DOMAIN search.found /\ kept[i] = search.found[k[i]] /\ kept[i].id \in ids
  BY <1>1, <1>2, <1>5 DEF IsPick
<1>7. /\ search'.step = IF kept = <<>> THEN "done" ELSE "shippings"
      /\ search'.found = kept /\ search'.limit = search.limit /\ search'.viewer = search.viewer
      /\ search' \in SearchSet
  BY <1>1, <1>2 DEF SearchSet
<1>8. search'.intact => search.intact /\ ok
  <2>1. search'.intact = (search.intact /\ ok)
    BY <1>1 DEF SearchSet
  <2>. QED
    BY <2>1, Zenon
<1>9. FoundWasLive'
  <2>1. seen.live \subseteq seen'.live
    BY <1>7, PresenceSight
  <2>2. \A i \in DOMAIN search.found : <<search.found[i].id, search.found[i].pos>> \in seen.live
    BY <1>1 DEF SearchOK, FoundWasLive
  <2>. QED
    BY <1>6, <1>7, <2>1, <2>2 DEF FoundWasLive
<1>10. FoundWasShown'
  <2>1. CASE kept = <<>>
    BY <1>1, <1>7, <2>1 DEF FoundWasShown
  <2>2. CASE kept # <<>>
    <3>1. onMap' \subseteq seen'.shown
      BY <1>7, <2>2, PresenceSight
    <3>. QED
      BY <1>1, <1>3, <1>6, <1>7, <3>1 DEF FoundWasShown
  <2>. QED
    BY <2>1, <2>2
<1>11. QuietSearch'
  <2>1. SUFFICES ASSUME Undisturbed'
                 PROVE  Listed(search'.found, search'.limit, Eligible', seen'.index) /\ JobsSoFar'
    BY <1>7 DEF QuietSearch
  <2>2. Undisturbed /\ seen'.index = seen.index /\ Eligible' = Eligible
    BY <1>1, <1>7, <1>8, <2>1, StillUndisturbed
  <2>3. ok
    BY <1>8, <2>1 DEF Undisturbed
  <2>4. Reading(search.found, <<>>, seen.index, hash)
    BY <1>1, <2>2 DEF SearchOK, QuietSearch
  <2>5. Eligible = {u \in ids : hash[u] # Nowhere /\ InRange(seen.index, u)}
    BY <1>4, <2>3 DEF Eligible, InRange
  <2>6. /\ Listed(kept, search.limit, Eligible, seen.index)
        /\ \A i \in DOMAIN kept : kept[i].job = NoJob
    <3>1. PICK f, n, e : f = search.found /\ n = search.limit /\ e = Eligible
      OBVIOUS
    <3>2. f \in Seq(Found) /\ n \in Nat /\ Reading(f, <<>>, seen.index, hash)
      BY <1>1, <2>4, <3>1
    <3>3. e = {u \in ids : hash[u] # Nowhere /\ InRange(seen.index, u)}
      BY <2>5, <3>1
    <3>4. /\ Listed(FirstOf(f, ids, n), n, e, seen.index)
          /\ \A i \in DOMAIN FirstOf(f, ids, n) : FirstOf(f, ids, n)[i].job = NoJob
      BY <1>3, <3>2, <3>3, FilterLists
    <3>. QED
      BY <3>1, <3>4 DEF kept
  <2>7. JobsSoFar'
    BY <1>7, <2>6 DEF JobsSoFar, NoJob
  <2>. QED
    BY <1>7, <2>2, <2>6, <2>7
<1>. QED
  BY <1>7, <1>9, <1>10, <1>11 DEF SearchOK

\* Whoever is on a list is a member.
LEMMA FoundAreMembers ==
    ASSUME NEW f \in Seq(Found)
    PROVE  \A i \in DOMAIN f : f[i].id \in Members
<1>1. \A i \in DOMAIN f : f[i] \in Found
  OBVIOUS
<1>2. \A d \in Found : d.id \in Members
  BY DEF Found
<1>. QED
  BY <1>1, <1>2

\* Giving the drivers of a list their jobs changes nothing else of it.
LEMMA OnlyJobs ==
    ASSUME NEW f \in Seq(Found), NEW g \in Seq(Found), DOMAIN g = DOMAIN f,
           \A i \in DOMAIN f : g[i].id = f[i].id /\ g[i].pos = f[i].pos /\ g[i].dist = f[i].dist
    PROVE  /\ Len(g) = Len(f)
           /\ \A limit, eligible, index : Listed(f, limit, eligible, index) => Listed(g, limit, eligible, index)
<1>1. Len(g) = Len(f)
  <2>1. PICK m \in Nat, n \in Nat : m = Len(f) /\ n = Len(g) /\ DOMAIN f = 1 .. m /\ DOMAIN g = 1 .. n
    OBVIOUS
  <2>2. 1 .. m = 1 .. n => m = n
    <3>1. ASSUME 1 .. m = 1 .. n PROVE ~(m < n) /\ ~(n < m)
      <4>1. m < n => n \in 1 .. n /\ n \notin 1 .. m
        OBVIOUS
      <4>2. n < m => m \in 1 .. m /\ m \notin 1 .. n
        OBVIOUS
      <4>. QED
        BY <3>1, <4>1, <4>2
    <3>. QED
      BY <3>1
  <2>. QED
    BY <2>1, <2>2
<1>2. Ids(g) = Ids(f)
  BY DEF Ids
<1>3. SortedByDist(f) => SortedByDist(g)
  BY DEF SortedByDist
<1>4. NoTwice(f) => NoTwice(g)
  BY DEF NoTwice
<1>. QED
  BY <1>1, <1>2, <1>3, <1>4 DEF Listed

\* A step that only gives jobs keeps everything but, perhaps, the jobs.
LEMMA JobsStep ==
    ASSUME PresenceTypeOK, SearchOK, Next,
           search.step \in {"shippings", "trips"}, NEW found \in Seq(Found), DOMAIN found = DOMAIN search.found,
           \A i \in DOMAIN found : /\ found[i].id = search.found[i].id /\ found[i].pos = search.found[i].pos
                                   /\ found[i].dist = search.found[i].dist,
           NEW ok \in BOOLEAN, NEW step \in {"trips", "done"},
           search' = [search EXCEPT !.found = found, !.intact = @ /\ ok, !.step = step],
           Undisturbed /\ ok => JobsSoFar',
           UNCHANGED <<hash, trips, shippings, onMap>>
    PROVE  SearchOK'
<1>1. search \in SearchSet /\ search.found \in Seq(Found)
  BY DEF SearchOK, SearchSet
<1>2. /\ search'.step = step /\ search'.found = found /\ search'.limit = search.limit
      /\ search'.viewer = search.viewer /\ search' \in SearchSet
  BY <1>1 DEF SearchSet
<1>3. search'.intact => search.intact /\ ok
  <2>1. search'.intact = (search.intact /\ ok)
    BY <1>1 DEF SearchSet
  <2>. QED
    BY <2>1, Zenon
<1>4. /\ Len(found) = Len(search.found)
      /\ \A limit, eligible, index : Listed(search.found, limit, eligible, index) => Listed(found, limit, eligible, index)
  BY <1>1, OnlyJobs
<1>5. FoundWasLive' /\ FoundWasShown'
  <2>1. seen.live \subseteq seen'.live /\ seen.shown \subseteq seen'.shown
    BY <1>2, PresenceSight
  <2>2. \A i \in DOMAIN search.found : <<search.found[i].id, search.found[i].pos>> \in seen.live
    BY DEF SearchOK, FoundWasLive
  <2>3. /\ Len(search.found) <= search.limit
        /\ \A i \in DOMAIN search.found : /\ search.found[i].id # search.viewer
                                          /\ search.found[i].id \in seen.shown
    BY DEF SearchOK, FoundWasShown
  <2>4. \A i \in DOMAIN search'.found : /\ i \in DOMAIN search.found
                                         /\ search'.found[i].id = search.found[i].id
                                         /\ search'.found[i].pos = search.found[i].pos
    BY <1>2
  <2>5. FoundWasLive'
    BY <2>1, <2>2, <2>4 DEF FoundWasLive
  <2>6. \A i \in DOMAIN search'.found : search'.found[i].id # search'.viewer /\ search'.found[i].id \in seen'.shown
    BY <1>2, <2>1, <2>3, <2>4
  <2>7. Len(search'.found) <= search'.limit
    BY <1>2, <1>4, <2>3
  <2>8. FoundWasShown'
    BY <2>6, <2>7 DEF FoundWasShown
  <2>. QED
    BY <2>5, <2>8
<1>6. QuietSearch'
  <2>1. SUFFICES ASSUME Undisturbed'
                 PROVE  Listed(search'.found, search'.limit, Eligible', seen'.index) /\ JobsSoFar'
    BY <1>2 DEF QuietSearch
  <2>2. Undisturbed /\ seen'.index = seen.index /\ Eligible' = Eligible
    BY <1>2, <1>3, <2>1, StillUndisturbed
  <2>3. ok
    BY <1>3, <2>1 DEF Undisturbed
  <2>4. Listed(search.found, search.limit, Eligible, seen.index)
    BY <2>2 DEF SearchOK, QuietSearch
  <2>. QED
    BY <1>2, <1>4, <2>2, <2>3, <2>4
<1>. QED
  BY <1>2, <1>5, <1>6 DEF SearchOK

\* The first query of attachActiveShippings.
LEMMA AttachShippingsStep ==
    ASSUME PresenceTypeOK, SearchOK, Next, NEW ok \in BOOLEAN, AttachShippings(ok)
    PROVE  SearchOK'
<1> DEFINE found == [i \in DOMAIN search.found |->
                        IF ok /\ LatestActiveShipping(search.found[i].id) # 0
                        THEN [search.found[i] EXCEPT !.job = [kind |-> "shipping",
                                                              id |-> LatestActiveShipping(search.found[i].id)]]
                        ELSE search.found[i]]
           step == IF ok /\ \E i \in DOMAIN found : found[i].job = NoJob THEN "trips" ELSE "done"
<1>1. /\ search \in SearchSet /\ search.found \in Seq(Found) /\ search.step = "shippings" /\ ClaimsOK
  BY DEF SearchOK, SearchSet, AttachShippings, PresenceTypeOK
<1>2. /\ search' = [search EXCEPT !.found = found, !.intact = @ /\ ok, !.step = step]
      /\ UNCHANGED <<hash, trips, shippings, onMap>>
  BY DEF AttachShippings, redis, dbVars, claims
<1>3. ASSUME NEW i \in DOMAIN search.found
      PROVE  /\ found[i] \in Found
             /\ found[i].id = search.found[i].id /\ found[i].pos = search.found[i].pos
             /\ found[i].dist = search.found[i].dist
             /\ ok /\ search.found[i].job = NoJob => found[i].job = ShippingJob(search.found[i].id)
  <2>1. search.found[i] \in Found /\ LatestActiveShipping(search.found[i].id) \in Nat
    BY <1>1, LatestIsAnId
  <2>2. CASE ok /\ LatestActiveShipping(search.found[i].id) # 0
    <3>1. found[i] = [search.found[i] EXCEPT !.job = [kind |-> "shipping",
                                                      id |-> LatestActiveShipping(search.found[i].id)]]
      BY <2>2
    <3> HIDE DEF found
    <3>2. [kind |-> "shipping", id |-> LatestActiveShipping(search.found[i].id)] \in JobSet
      BY <2>1 DEF JobSet
    <3>. QED
      BY <2>1, <2>2, <3>1, <3>2 DEF Found, ShippingJob
  <2>3. CASE ~(ok /\ LatestActiveShipping(search.found[i].id) # 0)
    <3>1. found[i] = search.found[i]
      BY <2>3
    <3> HIDE DEF found
    <3>. QED
      BY <2>1, <2>3, <3>1 DEF ShippingJob
  <2>. QED
    BY <2>2, <2>3
<1>4. DOMAIN found = DOMAIN search.found
  OBVIOUS
<1>5. found \in Seq(Found)
  <2>1. PICK n \in Nat : DOMAIN search.found = 1 .. n
    BY <1>1
  <2>2. found = [i \in 1 .. n |-> found[i]] /\ \A i \in 1 .. n : found[i] \in Found
    BY <1>3, <2>1
  <2> HIDE DEF found
  <2>3. found \in [1 .. n -> Found]
    BY <2>2
  <2>. QED
    BY <2>3
<1>6. step \in {"trips", "done"} /\ (ok /\ step = "done" => \A i \in DOMAIN found : found[i].job # NoJob)
  OBVIOUS
<1> HIDE DEF found, step
<1>7. search'.step = step /\ search'.found = found
  BY <1>1, <1>2 DEF SearchSet
<1>8. ASSUME Undisturbed, ok PROVE JobsSoFar'
  <2>1. \A i \in DOMAIN search.found : search.found[i].job = NoJob
    <3>1. JobsSoFar
      BY <1>1, <1>8 DEF SearchOK, QuietSearch
    <3>2. \A i \in DOMAIN search.found : search.found[i].id \in Members
      BY <1>1, FoundAreMembers
    <3>. QED
      BY <1>1, <3>1, <3>2 DEF JobsSoFar
  <2>2. \A i \in DOMAIN found : found[i].job = ShippingJob(found[i].id)
    BY <1>3, <1>4, <1>8, <2>1
  <2>3. \A u : ShippingJob(u) # NoJob => ShippingJob(u) = Job(u)
    BY DEF ShippingJob, Job
  <2>4. \A u : ShippingJob(u)' = ShippingJob(u) /\ Job(u)' = Job(u)
    BY <1>2, JobsStay
  <2>5. ASSUME NEW i \in DOMAIN found, NEW u \in Members, found[i].id = u
        PROVE  /\ step = "trips" => found[i].job = ShippingJob(u)'
               /\ step = "done" => found[i].job = Job(u)'
    <3>1. found[i].job = ShippingJob(u) /\ (step = "done" => found[i].job # NoJob)
      BY <1>6, <1>8, <2>2, <2>5
    <3>. QED
      BY <2>3, <2>4, <3>1
  <2>. QED
    BY <1>6, <1>7, <2>5 DEF JobsSoFar
<1>. QED
  BY <1>1, <1>2, <1>3, <1>4, <1>5, <1>6, <1>8, JobsStep

\* The second query of attachActiveShippings.
LEMMA AttachTripsStep ==
    ASSUME PresenceTypeOK, SearchOK, Next, NEW ok \in BOOLEAN, AttachTrips(ok)
    PROVE  SearchOK'
<1> DEFINE found == [i \in DOMAIN search.found |->
                        IF ok /\ search.found[i].job = NoJob /\ LatestTrip(search.found[i].id) # 0
                        THEN [search.found[i] EXCEPT !.job = [kind |-> "trip",
                                                              id |-> LatestTrip(search.found[i].id)]]
                        ELSE search.found[i]]
<1>1. /\ search \in SearchSet /\ search.found \in Seq(Found) /\ search.step = "trips" /\ ClaimsOK
  BY DEF SearchOK, SearchSet, AttachTrips, PresenceTypeOK
<1>2. /\ search' = [search EXCEPT !.found = found, !.intact = @ /\ ok, !.step = "done"]
      /\ UNCHANGED <<hash, trips, shippings, onMap>>
  BY <1>1 DEF AttachTrips, SearchSet, redis, dbVars, claims
<1>3. ASSUME NEW i \in DOMAIN search.found
      PROVE  /\ found[i] \in Found
             /\ found[i].id = search.found[i].id /\ found[i].pos = search.found[i].pos
             /\ found[i].dist = search.found[i].dist
             /\ ok /\ search.found[i].job = ShippingJob(search.found[i].id) => found[i].job = Job(search.found[i].id)
  <2>1. search.found[i] \in Found /\ LatestTrip(search.found[i].id) \in Nat
    BY <1>1, LatestIsAnId
  <2>2. CASE ok /\ search.found[i].job = NoJob /\ LatestTrip(search.found[i].id) # 0
    <3>1. found[i] = [search.found[i] EXCEPT !.job = [kind |-> "trip", id |-> LatestTrip(search.found[i].id)]]
      BY <2>2
    <3> HIDE DEF found
    <3>2. [kind |-> "trip", id |-> LatestTrip(search.found[i].id)] \in JobSet
      BY <2>1 DEF JobSet
    <3>3. \A n : [kind |-> "shipping", id |-> n] # NoJob
      BY DEF NoJob
    <3>. QED
      BY <2>1, <2>2, <3>1, <3>2, <3>3 DEF Found, ShippingJob, Job
  <2>3. CASE ~(ok /\ search.found[i].job = NoJob /\ LatestTrip(search.found[i].id) # 0)
    <3>1. found[i] = search.found[i]
      BY <2>3
    <3> HIDE DEF found
    <3>. QED
      BY <2>1, <2>3, <3>1 DEF ShippingJob, Job
  <2>. QED
    BY <2>2, <2>3
<1>4. DOMAIN found = DOMAIN search.found
  OBVIOUS
<1>5. found \in Seq(Found)
  <2>1. PICK n \in Nat : DOMAIN search.found = 1 .. n
    BY <1>1
  <2>2. found = [i \in 1 .. n |-> found[i]] /\ \A i \in 1 .. n : found[i] \in Found
    BY <1>3, <2>1
  <2> HIDE DEF found
  <2>3. found \in [1 .. n -> Found]
    BY <2>2
  <2>. QED
    BY <2>3
<1> HIDE DEF found
<1>6. search'.step = "done" /\ search'.found = found
  BY <1>1, <1>2 DEF SearchSet
<1>7. ASSUME Undisturbed, ok PROVE JobsSoFar'
  <2>1. JobsSoFar
    BY <1>1, <1>7 DEF SearchOK, QuietSearch
  <2>2. \A i \in DOMAIN search.found : search.found[i].id \in Members
    BY <1>1, FoundAreMembers
  <2>3. \A i \in DOMAIN search.found : search.found[i].job = ShippingJob(search.found[i].id)
    BY <1>1, <2>1, <2>2 DEF JobsSoFar
  <2>4. \A i \in DOMAIN found : found[i].job = Job(found[i].id)
    BY <1>3, <1>4, <1>7, <2>3
  <2>5. \A u : Job(u)' = Job(u)
    BY <1>2, JobsStay
  <2>6. ASSUME NEW i \in DOMAIN found, NEW u \in Members, found[i].id = u PROVE found[i].job = Job(u)'
    BY <2>4, <2>5, <2>6
  <2>. QED
    BY <1>6, <2>6 DEF JobsSoFar
<1>. QED
  BY <1>1, <1>2, <1>3, <1>4, <1>5, <1>7, JobsStep

\* Every step keeps what is known of the search.
LEMMA SearchStep ==
    ASSUME PresenceTypeOK, SearchOK, Next
    PROVE  SearchOK'
<1>1. CASE UNCHANGED search
  BY <1>1, OthersStep
<1>2. CASE Search
  <2>1. ASSUME AnswerSearch PROVE SearchOK'
    <3>1. search' = NoSearch
      BY <2>1 DEF AnswerSearch
    <3>2. search'.step = "idle" /\ search' \in SearchSet
      BY <3>1, PresenceConstants DEF NoSearch, SearchSet
    <3>. QED
      BY <3>2 DEF SearchOK, FoundWasLive, FoundWasShown, QuietSearch
  <2>. QED
    BY <1>2, <2>1, SearchNearbyStep, ReadHashStep, HealStep, FilterVisibleStep, AttachShippingsStep, AttachTripsStep
    DEF Search
<1>. QED
  BY <1>1, <1>2, OneActor

-----------------------------------------------------------------------------
(* Types. *)

\* Every step writes members, positions and users only.
LEMMA StoreTypeStep ==
    ASSUME PresenceTypeOK, Next
    PROVE  ClaimsOK' /\ onMap' \in SUBSET Users /\ geo' \in Index /\ hash' \in Index
<1>1. geo \in Index /\ hash \in Index /\ onMap \in SUBSET Users /\ ClaimsOK
  BY DEF PresenceTypeOK
<1>2. ClaimsOK'
  BY <1>1, OneActor, ClaimsGrow
<1>3. onMap' \in SUBSET Users
  <2>1. CASE UNCHANGED dbVars
    BY <1>1, <2>1 DEF dbVars
  <2>2. CASE Laravel
    BY <1>1, <2>2 DEF Laravel, ShowOnMap, RegisterTrip, Claim, EndShipping
  <2>3. CASE Redis
    BY <1>1, <2>3 DEF Redis, GoOffline, UpdateLocation, UpdatePresence, HashExpires, dbVars
  <2>4. CASE Search \/ Read
    BY <1>1, <2>1, <2>4 DEF Search, Read, SearchNearby, AnswerSearch, ReadHash, Heal, FilterVisible, AttachShippings,
                            AttachTrips, Authorize, GetPresence, AnswerRead
  <2>. QED
    BY <2>2, <2>3, <2>4 DEF Next
<1>4. geo' \in Index /\ hash' \in Index
  <2>1. ASSUME NEW m \in Members, NEW p \in Positions \cup {Nowhere}, NEW h \in Index
        PROVE  [h EXCEPT ![m] = p] \in Index
    BY DEF Index
  <2>2. CASE Redis
    <3>1. ASSUME NEW c \in Callers, NEW m \in Members, GoOffline(c, m) PROVE geo' \in Index /\ hash' \in Index
      <4>1. ResolveDriverID(c, m) \in Members
        BY DEF ResolveDriverID, Callers, Members
      <4>. QED
        BY <1>1, <2>1, <3>1, <4>1 DEF GoOffline, RemoveDriverLocation
    <3>2. ASSUME NEW c \in Callers, NEW m \in Members, NEW p \in Positions, UpdateLocation(c, m, p)
          PROVE  geo' \in Index /\ hash' \in Index
      <4>1. ResolveDriverID(c, m) \in Members
        BY DEF ResolveDriverID, Callers, Members
      <4>. QED
        BY <1>1, <2>1, <3>2, <4>1 DEF UpdateLocation, SetDriverLocation
    <3>3. ASSUME NEW c \in Callers, NEW p \in Positions, UpdatePresence(c, p)
          PROVE  geo' \in Index /\ hash' \in Index
      <4>1. c \in Members
        BY <3>3 DEF UpdatePresence, Callers, Members
      <4>. QED
        BY <1>1, <2>1, <3>3, <4>1 DEF UpdatePresence, SetDriverLocation
    <3>4. ASSUME NEW m \in Members, HashExpires(m) PROVE geo' \in Index /\ hash' \in Index
      BY <1>1, <2>1, <3>4 DEF HashExpires
    <3>. QED
      BY <2>2, <3>1, <3>2, <3>3, <3>4 DEF Redis
  <2>3. CASE UNCHANGED redis
    BY <1>1, <2>3 DEF redis
  <2>4. CASE Laravel \/ Read
    BY <2>3, <2>4, ZenonT(60) DEF Laravel, Read, Authorize, GetPresence, AnswerRead
  <2>5. CASE Search
    <3>1. ASSUME NEW ok \in BOOLEAN, Heal(ok) PROVE geo' \in Index /\ hash' \in Index
      <4>1. search.todo \in Seq(Near) /\ search.todo # <<>>
        BY <3>1 DEF Heal, PresenceTypeOK, SearchSet
      <4>2. Head(search.todo).id \in Members
        <5>1. Head(search.todo) \in Near
          BY <4>1
        <5>. QED
          BY <5>1 DEF Near
      <4>. QED
        BY <1>1, <2>1, <3>1, <4>2 DEF Heal
    <3>. QED
      BY <2>3, <2>5, <3>1 DEF Search, SearchNearby, AnswerSearch, ReadHash, FilterVisible, AttachShippings, AttachTrips
  <2>. QED
    BY <2>2, <2>4, <2>5 DEF Next
<1>. QED
  BY <1>2, <1>3, <1>4

\* A step of somebody else.
LEMMA PresenceStutter ==
    ASSUME PresenceInv, UNCHANGED vars
    PROVE  PresenceInv'
<1>1. UNCHANGED <<geo, hash, search, read, seen, onMap, trips, shippings>>
  BY DEF vars, presenceVars, redis, dbVars, claims
<1>2. PresenceTypeOK' /\ FoundWasLive' /\ FoundWasShown'
  BY <1>1 DEF PresenceInv, PresenceTypeOK, ClaimsOK, NoRead, FoundWasLive, FoundWasShown
<1>3. ReadIsEntitled'
  BY <1>1 DEF PresenceInv, ReadIsEntitled, Entitled, Parties, Carrier
<1>4. Undisturbed' = Undisturbed /\ Eligible' = Eligible
  BY <1>1 DEF Undisturbed, Crowded, Capped, Eligible
<1>5. JobsSoFar => JobsSoFar'
  BY <1>1, JobsStay DEF JobsSoFar, NoJob
<1>6. QuietSearch'
  BY <1>1, <1>4, <1>5 DEF PresenceInv, QuietSearch
<1>. QED
  BY <1>2, <1>3, <1>6 DEF PresenceInv

-----------------------------------------------------------------------------
(* Theorems. *)

\* The invariant is inductive: it holds of every reachable state, whatever the
\* interleaving of a search or a read with updates, expiry and Laravel.
THEOREM PresenceInvariant == Spec => []PresenceInv
<1>1. Init => PresenceInv
  <2>1. SUFFICES ASSUME Init PROVE PresenceInv
    OBVIOUS
  <2>2. ClaimsOK /\ onMap \in SUBSET Users /\ geo \in Index /\ hash \in Index
    BY <2>1, DbConstants DEF Init, Index, ClaimsOK
  <2>3. search = NoSearch /\ read = NoRead
    BY <2>1 DEF Init
  <2>4. search.step = "idle" /\ search \in SearchSet /\ read.step = "idle"
    BY <2>3, PresenceConstants DEF NoSearch, NoRead, SearchSet
  <2>5. seen \in SeenSet
    BY <2>1 DEF Init, SeenSet, NoIndex, Index
  <2>. QED
    BY <2>2, <2>3, <2>4, <2>5
    DEF PresenceInv, PresenceTypeOK, ReadIsEntitled, FoundWasLive, FoundWasShown, QuietSearch
<1>2. PresenceInv /\ [Next]_vars => PresenceInv'
  <2>1. ASSUME PresenceInv, Next PROVE PresenceInv'
    <3>1. PresenceTypeOK /\ ReadIsEntitled /\ SearchOK
      BY <2>1 DEF PresenceInv, PresenceTypeOK, SearchOK
    <3>2. SearchOK'
      BY <2>1, <3>1, SearchStep
    <3>3. ReadIsEntitled' /\ (read' = NoRead \/ read' \in ReadSet)
      BY <2>1, <3>1, ReadStep
    <3>4. ClaimsOK' /\ onMap' \in SUBSET Users /\ geo' \in Index /\ hash' \in Index
      BY <2>1, <3>1, StoreTypeStep
    <3>5. seen' \in SeenSet
      BY <2>1, <3>1, <3>3, <3>4, SeenTypeStep DEF Next
    <3>6. (read = NoRead)' <=> read' = NoRead
      BY DEF NoRead
    <3>. QED
      BY <3>2, <3>3, <3>4, <3>5, <3>6 DEF PresenceInv, PresenceTypeOK, SearchOK
  <2>. QED
    BY <2>1, PresenceStutter
<1>. QED
  BY <1>1, <1>2, PTL DEF Spec

\* SearchNearby: whoever is shown had, during the search, the position shown
\* and a visible profile, is not the viewer, and the limit is kept.
THEOREM ShownWereThere == Spec => []ShownDriversWereThere
<1>1. PresenceInv => ShownDriversWereThere
  BY DEF PresenceInv, FoundWasLive, FoundWasShown, ShownDriversWereThere, Answered
<1>. QED
  BY <1>1, PresenceInvariant, PTL

\* GetUserLocation: positions go to the user, the API-key client and the
\* counterparts of his shippings only, and are of the time of the request.
THEOREM PositionsGoToCounterparts == Spec => []ReadersAreCounterparts
<1>1. PresenceInv => ReadersAreCounterparts
  BY DEF PresenceInv, ReadIsEntitled, Entitled, ReadersAreCounterparts
<1>. QED
  BY <1>1, PresenceInvariant, PTL

\* A list in which nobody is twice has as many entries as people.
LEMMA AsManyAsListed ==
    ASSUME NEW f \in Seq(Found), NoTwice(f)
    PROVE  Len(f) = Cardinality(Ids(f))
<1> DEFINE n == Len(f)
           g == [i \in 1 .. n |-> f[i].id]
<1>1. n \in Nat /\ DOMAIN f = 1 .. n
  OBVIOUS
<1>2. g \in Bijection(1 .. n, Ids(f))
  <2>1. g \in [1 .. n -> Ids(f)]
    BY <1>1 DEF Ids
  <2>2. \A i, j \in 1 .. n : g[i] = g[j] => i = j
    BY <1>1 DEF NoTwice
  <2>3. \A x \in Ids(f) : \E i \in 1 .. n : g[i] = x
    BY <1>1 DEF Ids
  <2> HIDE DEF g, n
  <2>. QED
    BY <2>1, <2>2, <2>3 DEF Bijection, Injection, Surjection, IsInjective
<1>3. ExistsBijection(1 .. n, Ids(f))
  BY <1>2 DEF ExistsBijection
<1>4. IsFiniteSet(1 .. n) /\ Cardinality(1 .. n) = n
  BY <1>1, FS_Interval
<1> HIDE DEF n, g
<1>5. Cardinality(Ids(f)) = Cardinality(1 .. n)
  BY <1>3, <1>4, FS_Bijection
<1>. QED
  BY <1>4, <1>5 DEF n

\* An undisturbed search, whose over-fetch covers the members in range, answers
\* with exactly the nearest eligible drivers and their jobs.
THEOREM QuietSearchesAreExact == Spec => []QuietSearchIsExact
<1>1. ASSUME PresenceInv PROVE QuietSearchIsExact
  <2>1. SUFFICES ASSUME Answered, search.intact, seen.quiet, ~Crowded
                 PROVE  LET f == search.found
                        IN  /\ Ids(f) \subseteq Eligible
                            /\ Len(f) = Cardinality(Ids(f))
                            /\ Ids(f) = Eligible \/ Len(f) = search.limit
                            /\ \A i, j \in DOMAIN f : i < j => f[i].dist <= f[j].dist
                            /\ \A i \in DOMAIN f, u \in Eligible \ Ids(f) : f[i].dist <= seen.index[u]
                            /\ \A i \in DOMAIN f : f[i].job = Job(f[i].id)
    BY Zenon DEF QuietSearchIsExact
  <2>2. Undisturbed /\ search.step = "done" /\ search.found \in Seq(Found)
    BY <1>1, <2>1 DEF Undisturbed, Answered, PresenceInv, PresenceTypeOK, SearchSet
  <2>3. Listed(search.found, search.limit, Eligible, seen.index) /\ JobsSoFar
    BY <1>1, <2>2 DEF PresenceInv, QuietSearch
  <2>4. Len(search.found) = Cardinality(Ids(search.found))
    BY <2>2, <2>3, AsManyAsListed DEF Listed
  <2>5. \A i \in DOMAIN search.found : search.found[i].id \in Members
    BY <2>2, FoundAreMembers
  <2>6. \A i \in DOMAIN search.found : search.found[i].job = Job(search.found[i].id)
    BY <2>2, <2>3, <2>5 DEF JobsSoFar
  <2>. QED
    BY <2>3, <2>4, <2>6 DEF Listed, SortedByDist
<1>. QED
  BY <1>1, PresenceInvariant, PTL
=============================================================================
