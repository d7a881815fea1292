----------------------------- MODULE GraphSearch -----------------------------
(***************************************************************************)
(* The route searches of internal/routing: biAStar (bidir.go), the one     *)
(* directional aStar (astar.go) and Yen's alternatives around biAStar      *)
(* (yen.go, KFastestPaths).  Who calls them: graphRoutesCtx for a request  *)
(* on the road graph, ComputeTrainRoute on the rail graph,                 *)
(* ComputeTransitRoute on the overlay of bus and metro lines, and          *)
(* computeUnderlyingPolyline for the geometry of a line between two stops. *)
(* Each snaps two places to nodes first.  One action per iteration of a    *)
(* loop.  A heap is the set of its items; the item at its front is any one *)
(* of least f-cost, because the heap's layout decides between equal ones.  *)
(* A deadline may pass at any time; the code looks at it when a search     *)
(* begins and at every 4096th iteration, which here is any iteration.      *)
(***************************************************************************)
EXTENDS RoadGraph

CONSTANTS SpurCap,         \* yenSpurCap, 0 for no cap
          LongRoute        \* longRouteAltsThresholdKm

ASSUME SearchConstants == SpurCap \in Nat /\ LongRoute \in Nat

VARIABLES graph,      \* the loaded graphs
          query,      \* the request being answered
          phase,      \* where KFastestPaths is
          fwd, bwd,   \* the two sides of the running search
          best,       \* mu, muDist and meetingNode
          from,       \* startID of the running search
          blocked,    \* its blocked edges and nodes
          expired,    \* ctx.Err() # nil
          accepted, candidates, seen, spur

searchVars == <<fwd, bwd, best, from, blocked>>
yenVars == <<accepted, candidates, seen, spur>>
vars == <<graph, query, phase, searchVars, yenVars, expired>>

Algorithms == {"yen", "astar"}

Nets == {"road", "rail", "transit"}

NoQuery == [net |-> "road", mode |-> "car", heuristic |-> FALSE, places |-> <<>>,
            start |-> NoNode, goal |-> NoNode, k |-> 0, algorithm |-> "yen"]

\* The graph the running search uses.
G == graph[query.net]

-----------------------------------------------------------------------------
(* One side of a search: cost and length of the best way found to each     *)
(* node, the hop it was found by, the settled nodes and the heap.          *)

NoSide == [g |-> <<>>, d |-> <<>>, hop |-> <<>>, closed |-> {}, pq |-> {}]

StartSide(n) ==
    [g |-> [x \in {n} |-> 0], d |-> [x \in {n} |-> 0], hop |-> <<>>, closed |-> {}, pq |-> {<<n, 0>>}]

Set(f, n, v) == [x \in DOMAIN f \cup {n} |-> IF x = n THEN v ELSE f[x]]

\* A better way to n, by edge e next to node at.
Reach(side, n, time, km, at, e) ==
    [g      |-> Set(side.g, n, time),
     d      |-> Set(side.d, n, km),
     hop    |-> Set(side.hop, n, [at |-> at, edge |-> e]),
     closed |-> side.closed,
     pq     |-> side.pq \cup {<<n, time>>}]

FCost(item, target) == item[2] + Estimate(query.mode, query.heuristic, item[1], target)

\* The items the front of the heap may be.
FrontItems(side, target) ==
    {x \in side.pq : \A y \in side.pq : FCost(x, target) <= FCost(y, target)}

\* A popped item that is settled already or no longer the best is skipped.
Stale(side, item) == item[1] \in side.closed \/ item[2] > side.g[item[1]]

Pop(side, item) == [side EXCEPT !.pq = @ \ {item}]

Settle(side, item) == [side EXCEPT !.pq = @ \ {item}, !.closed = @ \cup {item[1]}]

\* mu = math.MaxFloat64 and meetingNode = -1: the searches have not met.
NotMet == [time |-> 0, km |-> 0, node |-> NoNode]

\* tryMeet
TryMeet(b, n, time, km, other) ==
    IF n \in DOMAIN other.g /\ (b.node = NoNode \/ time + other.g[n] < b.time)
    THEN [time |-> time + other.g[n], km |-> km + other.d[n], node |-> n]
    ELSE b

Open(at, e) ==
    /\ <<at, e.to>> \notin blocked.edges
    /\ EdgeAllowed(query.mode, e)

\* Variant of Better.
BetterWhenNew(side, n, time) == n \notin DOMAIN side.g

Better(side, n, time) == n \notin DOMAIN side.g \/ time < side.g[n]

\* The end of both loops: x has been found from cur by edge e.
Relax(cur, acc, x, e, other) ==
    LET time == acc.side.g[cur] + TravelTime(query.mode, e)
        km   == acc.side.d[cur] + e.km
    IN  IF /\ x \notin acc.side.closed \cup blocked.nodes
           /\ x \in G.nodes
           /\ Better(acc.side, x, time)
        THEN [side |-> Reach(acc.side, x, time, km, cur, e),
              best |-> TryMeet(acc.best, x, time, km, other)]
        ELSE acc

\* The body of the loop over g.Edges[cur], shared by both searches.
RelaxEdge(cur, acc, e) == IF Open(cur, e) THEN Relax(cur, acc, e.to, e, bwd) ELSE acc

RelaxEdges(cur, acc) ==
    LET es == G.edges[cur]
        relaxed[i \in 0 .. Len(es)] ==
          IF i = 0 THEN acc ELSE RelaxEdge(cur, relaxed[i - 1], es[i])
    IN  relaxed[Len(es)]

\* The fastest open edge at -> to, the first of equal ones.
OpenEdges(at, to) ==
    {i \in DOMAIN G.edges[at] : G.edges[at][i].to = to /\ Open(at, G.edges[at][i])}

FastestEdge(at, to) ==
    LET time(i) == TravelTime(query.mode, G.edges[at][i])
        i == CHOOSE i \in OpenEdges(at, to) :
               \A j \in OpenEdges(at, to) : time(i) < time(j) \/ (time(i) = time(j) /\ i <= j)
    IN  G.edges[at][i]

\* The body of the loop over g.RevAdj[cur].
RelaxReverse(cur, acc, at) ==
    IF OpenEdges(at, cur) = {} THEN acc ELSE Relax(cur, acc, at, FastestEdge(at, cur), fwd)

RelaxReverses(cur, acc) ==
    LET ns == G.rev[cur]
        relaxed[i \in 0 .. Len(ns)] ==
          IF i = 0 THEN acc ELSE RelaxReverse(cur, relaxed[i - 1], ns[i])
    IN  relaxed[Len(ns)]

NextHop(hop, walk) ==
    IF Last(walk) \in DOMAIN hop THEN Append(walk, hop[Last(walk)].at) ELSE walk

\* The nodes visited following the hops from n until there is none, which no
\* node can be twice.
Trail(hop, n) ==
    LET walk[i \in 0 .. Cardinality(DOMAIN hop)] ==
          IF i = 0 THEN <<n>> ELSE NextHop(hop, walk[i - 1])
    IN  walk[Cardinality(DOMAIN hop)]

\* buildPath and buildBidirPath: the forward trail reversed, then the
\* backward one; the reported length and time are those given.
PathThrough(there, back, n, time, km) ==
    LET a == Reverse(Trail(there.hop, n))
        b == Trail(back.hop, n)
    IN  [nodes |-> a \o Tail(b),
         edges |-> [i \in 1 .. Len(a)-1 |-> there.hop[a[i+1]].edge]
                   \o [i \in 1 .. Len(b)-1 |-> back.hop[b[i]].edge],
         time |-> time, km |-> km]

-----------------------------------------------------------------------------
(* The first search, and the alternatives. *)

NotFound == [nodes |-> <<>>, edges |-> <<>>, time |-> 0, km |-> 0]

\* The state a call of a search begins in.
StartSearch(s, edges, nodes) ==
    /\ from' = s
    /\ blocked' = [edges |-> edges, nodes |-> nodes]
    /\ fwd' = StartSide(s)
    /\ bwd' = IF query'.algorithm = "yen" THEN StartSide(query'.goal) ELSE NoSide
    /\ best' = NotMet

SpurEnd ==
    LET n == Len(Last(accepted).nodes) - 1
    IN  IF SpurCap > 0 /\ n > SpurCap THEN SpurCap ELSE n

Root == SubSeq(Last(accepted).nodes, 1, spur)

\* edgeBetween: of parallel edges the shortest, whatever is blocked.
EdgeBetween(a, b) ==
    LET es == G.edges[a]
        ok == {i \in DOMAIN es : es[i].to = b /\ EdgeAllowed(query.mode, es[i])}
    IN  es[CHOOSE i \in ok : \A j \in ok : es[i].km < es[j].km \/ (es[i].km = es[j].km /\ i <= j)]

\* combineRootAndSpur
Combine(root, path) ==
    LET nodes == root \o Tail(path.nodes)
        edges == [i \in 1 .. Len(nodes)-1 |-> EdgeBetween(nodes[i], nodes[i+1])]
    IN  [nodes |-> nodes, edges |-> edges,
         time |-> TotalTime(query.mode, edges), km |-> TotalKm(edges)]

\* What the caller does with the result of a search: KFastestPaths keeps the
\* first one or turns it into a candidate, AStar returns it.
Return(path) ==
    /\ UNCHANGED <<graph, query, searchVars, expired>>
    /\ \/ /\ phase = "first"
          /\ accepted' = IF path = NotFound THEN <<>> ELSE <<path>>
          /\ seen' = {path.nodes}
          /\ spur' = 1
          /\ phase' = IF \/ query.algorithm = "astar" \/ path = NotFound
                         \/ query.k = 1 \/ Len(path.nodes) < 3
                      THEN "done" ELSE "spurs"
          /\ UNCHANGED candidates
       \/ /\ phase = "spur"
          /\ LET total == Combine(Root, path)
             IN  IF path = NotFound \/ total.nodes \in seen
                 THEN UNCHANGED <<candidates, seen>>
                 ELSE candidates' = candidates \cup {total} /\ seen' = seen \cup {total.nodes}
          /\ spur' = spur + 1
          /\ phase' = "spurs"
          /\ UNCHANGED accepted

Searching == phase \in {"first", "spur"}

-----------------------------------------------------------------------------
(* Actions. *)

\* A search begins between two nodes the request was snapped to.
Begin(net, mode, places, starts, goals, k, heuristic, algorithm) ==
    /\ phase = "idle"
    /\ \E s \in starts, t \in goals :
         query' = [net |-> net, mode |-> mode, heuristic |-> heuristic, places |-> places,
                   start |-> s, goal |-> t, k |-> k, algorithm |-> algorithm]
    /\ StartSearch(query'.start, {}, {})
    /\ phase' = "first"
    /\ UNCHANGED <<graph, yenVars, expired>>

\* No route, no search.
Refuse ==
    /\ phase = "idle"
    /\ phase' = "refused"
    /\ UNCHANGED <<graph, query, searchVars, yenVars, expired>>

\* graphRoutesCtx with a graph loaded: both ends need a node to snap to.
RoadRequest(mode, a, b, k) ==
    LET starts == Snap(graph["road"], mode, a)
        goals  == Snap(graph["road"], mode, b)
    IN  \/ Begin("road", mode, <<a, b>>, starts, goals,
                 IF k > 1 /\ Haversine(a, b) > LongRoute THEN 1 ELSE k, TRUE, "yen")
        \/ Refuse /\ (starts = {} \/ goals = {})

\* A search between the nodes nearest to two places, which must differ.
BetweenStops(net, mode, radius, a, b, heuristic, algorithm) ==
    LET starts == NearestWithin(graph[net], mode, a, radius)
        goals  == NearestWithin(graph[net], mode, b, radius)
    IN  \/ /\ Begin(net, mode, <<a, b>>, starts, goals, 1, heuristic, algorithm)
           /\ query'.start # query'.goal
        \/ Refuse /\ (starts = {} \/ goals = {} \/ starts \cap goals # {})

\* ComputeTrainRoute and computeRailLeg.
TrainRequest(a, b) == BetweenStops("rail", "train", RailSnap, a, b, TRUE, "yen")

\* ComputeTransitRoute: AStar runs without a heuristic.
TransitRequest(a, b) ==
    BetweenStops("transit", "public_transport", TransitSnap, a, b, FALSE, "astar")

\* computeUnderlyingPolyline for a line from stop a to stop b.
PolylineRequest(net, a, b) ==
    /\ net \in {"road", "rail"}
    /\ BetweenStops(net, IF net = "road" THEN "bus" ELSE "train", GeomSnap, a, b, TRUE, "astar")

DeadlinePasses ==
    /\ Searching
    /\ ~expired
    /\ expired' = TRUE
    /\ UNCHANGED <<graph, query, phase, searchVars, yenVars>>

\* ctx.Err() at the beginning of a search or inside its loop.
SearchCancelled ==
    /\ Searching
    /\ expired
    /\ Return(NotFound)

SameNode ==
    /\ Searching
    /\ from = query.goal
    /\ Return([nodes |-> <<from>>, edges |-> <<>>, time |-> 0, km |-> 0])

Running == Searching /\ from # query.goal

\* Pohl's test for the items at the fronts of the heaps.
PohlStops(x, y) == best.node # NoNode /\ x[2] + y[2] >= best.time

\* The front of an empty heap costs math.MaxFloat64, no less than any mu.
BidirEnds ==
    /\ Running
    /\ query.algorithm = "yen"
    /\ \/ fwd.pq = {}
       \/ bwd.pq = {}
       \/ \E x \in FrontItems(fwd, query.goal), y \in FrontItems(bwd, from) : PohlStops(x, y)
    /\ Return(IF best.node = NoNode THEN NotFound
              ELSE PathThrough(fwd, bwd, best.node, best.time, best.km))

\* The side with the smaller g-cost at the front of its heap advances.
ExpandForward ==
    /\ Running
    /\ query.algorithm = "yen"
    /\ \E x \in FrontItems(fwd, query.goal), y \in FrontItems(bwd, from) :
         /\ ~PohlStops(x, y)
         /\ x[2] <= y[2]
         /\ IF Stale(fwd, x)
            THEN fwd' = Pop(fwd, x) /\ UNCHANGED best
            ELSE LET acc == RelaxEdges(x[1], [side |-> Settle(fwd, x),
                                              best |-> TryMeet(best, x[1], x[2], fwd.d[x[1]], bwd)])
                 IN  fwd' = acc.side /\ best' = acc.best
    /\ UNCHANGED <<graph, query, phase, bwd, from, blocked, yenVars, expired>>

ExpandBackward ==
    /\ Running
    /\ query.algorithm = "yen"
    /\ \E x \in FrontItems(fwd, query.goal), y \in FrontItems(bwd, from) :
         /\ ~PohlStops(x, y)
         /\ x[2] > y[2]
         /\ IF Stale(bwd, y)
            THEN bwd' = Pop(bwd, y) /\ UNCHANGED best
            ELSE LET acc == RelaxReverses(y[1], [side |-> Settle(bwd, y),
                                                 best |-> TryMeet(best, y[1], y[2], bwd.d[y[1]], fwd)])
                 IN  bwd' = acc.side /\ best' = acc.best
    /\ UNCHANGED <<graph, query, phase, fwd, from, blocked, yenVars, expired>>

\* One iteration of aStar that does not reach the goal.
AStarExpands ==
    /\ Running
    /\ query.algorithm = "astar"
    /\ \E x \in FrontItems(fwd, query.goal) :
         /\ Stale(fwd, x) \/ x[1] # query.goal
         /\ fwd' = IF Stale(fwd, x) THEN Pop(fwd, x)
                   ELSE RelaxEdges(x[1], [side |-> Settle(fwd, x), best |-> best]).side
    /\ UNCHANGED <<graph, query, phase, bwd, best, from, blocked, yenVars, expired>>

AStarArrives ==
    /\ Running
    /\ query.algorithm = "astar"
    /\ \E x \in FrontItems(fwd, query.goal) : ~Stale(fwd, x) /\ x[1] = query.goal
    /\ Return(PathThrough(fwd, NoSide, query.goal, fwd.g[query.goal], fwd.d[query.goal]))

AStarGivesUp ==
    /\ Running
    /\ query.algorithm = "astar"
    /\ fwd.pq = {}
    /\ Return(NotFound)

SamePrefix(nodes, root) ==
    Len(nodes) >= Len(root) /\ SubSeq(nodes, 1, Len(root)) = root

\* Variant of NextSpur.
NextSpurOverTheRoot ==
    /\ phase = "spurs"
    /\ spur <= SpurEnd
    /\ query' = query
    /\ StartSearch(Root[spur],
                   {<<p.nodes[spur], p.nodes[spur + 1]>> :
                       p \in {q \in Range(accepted) : Len(q.nodes) > spur
                                                      /\ SamePrefix(q.nodes, Root)}},
                   {})
    /\ phase' = "spur"
    /\ UNCHANGED <<graph, yenVars, expired>>

\* The next spur position of the path accepted last: edges the accepted
\* paths take after the same root, and the nodes of the root, are blocked.
NextSpur ==
    /\ phase = "spurs"
    /\ spur <= SpurEnd
    /\ query' = query
    /\ StartSearch(Root[spur],
                   {<<p.nodes[spur], p.nodes[spur + 1]>> :
                       p \in {q \in Range(accepted) : Len(q.nodes) > spur
                                                      /\ SamePrefix(q.nodes, Root)}},
                   {Root[i] : i \in 1 .. spur - 1})
    /\ phase' = "spur"
    /\ UNCHANGED <<graph, yenVars, expired>>

\* After the last spur position: accept the best candidate, or stop.
Accept ==
    /\ phase = "spurs"
    /\ spur > SpurEnd
    /\ candidates # {}
    /\ \E c \in candidates :
         /\ \A o \in candidates : c.time < o.time \/ (c.time = o.time /\ c.km <= o.km)
         /\ accepted' = Append(accepted, c)
         /\ candidates' = candidates \ {c}
    /\ spur' = 1
    /\ phase' = IF Len(accepted') < query.k THEN "spurs" ELSE "done"
    /\ UNCHANGED <<graph, query, searchVars, seen, expired>>

NoMoreCandidates ==
    /\ phase = "spurs"
    /\ spur > SpurEnd
    /\ candidates = {}
    /\ phase' = "done"
    /\ UNCHANGED <<graph, query, searchVars, yenVars, expired>>

SearchInit(g) ==
    /\ graph = g
    /\ query = NoQuery
    /\ phase = "idle"
    /\ fwd = NoSide /\ bwd = NoSide
    /\ best = NotMet
    /\ from = NoNode
    /\ blocked = [edges |-> {}, nodes |-> {}]
    /\ expired = FALSE
    /\ accepted = <<>> /\ candidates = {} /\ seen = {} /\ spur = 1

SearchStep ==
    \/ DeadlinePasses \/ SearchCancelled \/ SameNode
    \/ BidirEnds \/ ExpandForward \/ ExpandBackward
    \/ AStarExpands \/ AStarArrives \/ AStarGivesUp
    \/ NextSpur \/ Accept \/ NoMoreCandidates

-----------------------------------------------------------------------------
(* What a finished search promises. *)

\* A path leads from the start of the request to its goal over edges of the
\* graph its profile allows and passes no node twice, and the time and length
\* reported are the sums over its edges.
SoundPath(p) ==
    LET n == Len(p.nodes)
    IN  /\ p.nodes[1] = query.start /\ p.nodes[n] = query.goal
        /\ Len(p.edges) = n - 1
        /\ \A j \in 1 .. n - 1 :
             /\ p.edges[j].to = p.nodes[j + 1]
             /\ p.edges[j] \in Range(G.edges[p.nodes[j]])
             /\ EdgeAllowed(query.mode, p.edges[j])
        /\ \A i, j \in 1 .. n : p.nodes[i] = p.nodes[j] => i = j
        /\ p.time = TotalTime(query.mode, p.edges)
        /\ p.km = TotalKm(p.edges)

\* The paths answered are usable, and no two visit the same nodes.  biAStar
\* reports mu and follows hops that may have been replaced since mu was
\* recorded, so the two could disagree (bidir.go:123).
PathsAreSound ==
    phase = "done" =>
      \A i \in DOMAIN accepted :
        /\ SoundPath(accepted[i])
        /\ \A j \in DOMAIN accepted : i # j => accepted[j].nodes # accepted[i].nodes

\* The times at which n can be reached by at most one more edge of the mode.
Arrivals(times, n) ==
    LET into(m) == {i \in DOMAIN G.edges[m] : /\ G.edges[m][i].to = n
                                              /\ EdgeAllowed(query.mode, G.edges[m][i])}
    IN  {times[m] : m \in {n} \cap DOMAIN times}
        \cup UNION {{times[m] + TravelTime(query.mode, G.edges[m][i]) : i \in into(m)}
                     : m \in DOMAIN times}

Relaxed(times) ==
    [n \in {n \in G.nodes : Arrivals(times, n) # {}} |-> Min(Arrivals(times, n))]

\* The reference: the nodes that can be reached from s and the shortest times,
\* by relaxing every edge as often as there are nodes (Bellman-Ford).
FastestTimes(s) ==
    LET times[i \in 0 .. Cardinality(G.nodes)] ==
          IF i = 0 THEN [n \in {s} |-> 0] ELSE Relaxed(times[i - 1])
    IN  times[Cardinality(G.nodes)]

IsFastest(p) ==
    LET times == FastestTimes(query.start)
    IN  query.goal \in DOMAIN times /\ p.time = times[query.goal]

\* "No path" is only answered when the goal cannot be reached, unless the
\* deadline passed.  The search gives up as soon as one heap is empty, since
\* MaxFloat64 plus anything is at least mu (bidir.go:150).
NotFoundMeansUnreachable ==
    phase = "done" /\ accepted = <<>> /\ ~expired =>
      query.goal \notin DOMAIN FastestTimes(query.start)

\* No edge of the mode is faster than the speed the heuristic assumes.
NoEdgeTooFast ==
    \A n \in G.nodes : \A i \in DOMAIN G.edges[n] :
      EdgeAllowed(query.mode, G.edges[n][i]) =>
        ProfileSpeed(query.mode, G.edges[n][i]) <= HeuristicSpeed[query.mode]

\* The estimate is consistent on the searched graph: no edge of the mode
\* brings it down by more than the edge takes.  Nothing in the code ensures
\* it: maxspeed tags are not capped, and the flat distance stretches what lies
\* north of the target.  Without a heuristic it holds always.
Consistent ==
    \A n \in G.nodes : \A i \in DOMAIN G.edges[n] :
      LET e == G.edges[n][i]
          estimate(m) == Estimate(query.mode, query.heuristic, m, query.goal)
      IN  EdgeAllowed(query.mode, e) => estimate(n) <= TravelTime(query.mode, e) + estimate(e.to)

\* The one-directional search returns a fastest path, always without its
\* heuristic and with it as long as the estimate is consistent (astar.go:111,
\* "settled (popped at optimal cost)").
AStarIsFastest ==
    phase = "done" /\ accepted # <<>> /\ query.algorithm = "astar" /\ Consistent =>
      IsFastest(accepted[1])

\* astar.go:211 "h = flatDistKm / heuristicSpeed where heuristicSpeed >= any
\* real road speed, so h never overestimates actual travel time".
EstimateNeverOverestimates ==
    Searching /\ query.heuristic /\ NoEdgeTooFast =>
      LET times == FastestTimes(query.start)
      IN  query.goal \in DOMAIN times =>
            Estimate(query.mode, TRUE, query.start, query.goal) <= times[query.goal]

\* bidir.go:28 "stopping at mu returns the optimal result" and yen.go:12 "The
\* first item is always the primary fastest path for the selected profile".
FirstIsFastest ==
    phase = "done" /\ accepted # <<>> =>
      IsFastest(accepted[1])
=============================================================================
