------------------------------ MODULE RoadGraph ------------------------------
(***************************************************************************)
(* The in-memory road network of internal/routing: nodes, directed edges   *)
(* with access flags, the reverse adjacency list, the transport profiles   *)
(* that decide which edges a mode may use and how fast, and the snapping   *)
(* of a coordinate to a node.  Everything here is a pure operator; the     *)
(* searches that run on a graph are in GraphSearch and the tables a graph  *)
(* is loaded from are filled by RoadImport.                                *)
(*                                                                         *)
(* Units.  A speed is a number of tenths of km/h.  Dist and Flat give the  *)
(* great-circle and the flat-earth distance of two places as whole numbers *)
(* of length units, and Hours turns a length and a speed into time units   *)
(* chosen so that every speed of the profiles divides evenly; any other    *)
(* speed's time is rounded up to a unit.  Times add up exactly, as the     *)
(* float64 sums of the code do up to rounding.                             *)
(***************************************************************************)
EXTENDS Integers, Sequences, FiniteSets, SequencesExt, TLC

CONSTANTS Nodes,           \* OSM node ids
          Points,          \* coordinates a request may name
          Dist,            \* distance of two places: utils.Haversine
          Flat,            \* of a node and the target of a search: flatDistKm
          Cell,            \* the grid cell of a place: its latitude and longitude
          CellKm,          \* 111 * gridCellSizeDeg: a cell from south to north
          SnapThreshold,   \* snapThresholdKm
          SnapFallback,    \* snapFallbackKm
          RailSnap,        \* railSnapKm
          TransitSnap,     \* transitSnapKm
          GeomSnap,        \* transitSnapKmForGeom
          TransferMax,     \* transitTransferMaxKm
          NoNode           \* no node: a nil pointer or the id -1

Places == Nodes \cup Points

Haversine(a, b) == Dist[<<a, b>>]

ASSUME NodesAreFinite == IsFiniteSet(Nodes) /\ NoNode \notin Nodes

\* Haversine is a metric.
ASSUME DistIsAMetric ==
    /\ Nodes \cap Points = {}
    /\ Dist \in [Places \X Places -> Nat]
    /\ \A a, b \in Places : Haversine(a, b) = Haversine(b, a) /\ Haversine(a, a) = 0
    /\ \A a, b, c \in Places : Haversine(a, c) <= Haversine(a, b) + Haversine(b, c)

ASSUME SnapRadii == {SnapThreshold, SnapFallback, RailSnap, TransitSnap, GeomSnap, TransferMax} \subseteq Nat

\* The distance the heuristic uses takes every degree of longitude to be as
\* long as at the target, so it is not a metric and may exceed the distance
\* (between places north of the target) or fall short of it.
FlatDistKm(a, target) == Flat[<<a, target>>]

ASSUME FlatIsADistance ==
    /\ Flat \in [Nodes \X Nodes -> Nat]
    /\ \A n \in Nodes : FlatDistKm(n, n) = 0

ASSUME GridOfCells ==
    /\ Cell \in [Places -> Int \X Int]
    /\ CellKm \in Nat \ {0}

-----------------------------------------------------------------------------
(* Highway kinds, access flags and the transport profiles. *)

Flags == {"car", "motorcycle", "bus", "foot", "train", "transit"}

\* Kinds and names come from the map; these are the loader's own.
TransitKinds == {"subway", "bus_route", "transfer"}

Label == STRING \cup TransitKinds

\* An edge leads away from the node it is listed under.
Edge == [to : Nodes, km : Nat \ {0}, kind : Label, flags : SUBSET Flags, speed : Nat, name : Label]

\* The modes of the road graph; train and public_transport have their own.
RoadModes == {"car", "motorcycle", "bus", "walking"}

Pedestrian == {"footway", "pedestrian", "path", "steps", "corridor",
               "crossing", "sidewalk", "platform"}

BlocksWalking == {"motorway", "motorway_link", "trunk", "trunk_link"}

AllowsPedestriansAgainstFlow(kind) == kind \notin Pedestrian

\* An edge passes a profile when it carries one of these flags.
ProfileFlags ==
    [car |-> {"car"}, motorcycle |-> {"motorcycle"},
     bus |-> {"bus", "car"}, walking |-> {"foot"},
     train |-> {"train"}, public_transport |-> {"transit"}]

EdgeAllowed(mode, e) ==
    /\ e.flags \cap ProfileFlags[mode] # {}
    /\ mode = "walking" => e.kind \notin BlocksWalking

HeuristicSpeed ==
    [car |-> 1300, motorcycle |-> 1500, bus |-> 1000, walking |-> 60,
     train |-> 2000, public_transport |-> 400]

MotorcycleSpeed ==
    [motorway |-> 1200, motorway_link |-> 900, trunk |-> 1000, trunk_link |-> 800,
     primary |-> 900, primary_link |-> 750, secondary |-> 700, secondary_link |-> 600,
     tertiary |-> 600, tertiary_link |-> 500, unclassified |-> 500,
     residential |-> 400, living_street |-> 250, service |-> 250, track |-> 250]

BusSpeed ==
    [motorway |-> 900, motorway_link |-> 700, trunk |-> 800, trunk_link |-> 700,
     primary |-> 700, primary_link |-> 600, secondary |-> 550, secondary_link |-> 500,
     tertiary |-> 450, tertiary_link |-> 400, unclassified |-> 350,
     residential |-> 250, living_street |-> 150, service |-> 150, track |-> 150]

WalkingSpeed ==
    [footway |-> 50, pedestrian |-> 50, path |-> 50, corridor |-> 50, crossing |-> 50,
     sidewalk |-> 50, platform |-> 50, steps |-> 30, living_street |-> 40,
     residential |-> 22, service |-> 22, track |-> 20, unclassified |-> 18,
     tertiary |-> 15, tertiary_link |-> 15, secondary |-> 12, secondary_link |-> 12,
     primary |-> 12, primary_link |-> 12]

TrainSpeed == [subway |-> 600, light_rail |-> 500, narrow_gauge |-> 400, tram |-> 300]

\* minSpeed: a speed that is not positive does not count.
Slower(a, b) == IF b <= 0 THEN a ELSE IF a <= b THEN a ELSE b

ProfileSpeed(mode, e) ==
    CASE mode = "car" -> e.speed
      [] mode = "motorcycle" ->
            IF e.kind \in DOMAIN MotorcycleSpeed THEN MotorcycleSpeed[e.kind]
            ELSE (e.speed * 11) \div 10
      [] mode = "bus" ->
            IF e.kind \in DOMAIN BusSpeed THEN Slower(BusSpeed[e.kind], e.speed)
            ELSE (e.speed * 8) \div 10
      [] mode = "walking" ->
            IF e.kind \in DOMAIN WalkingSpeed THEN WalkingSpeed[e.kind] ELSE 20
      [] mode = "train" ->
            IF e.kind \in DOMAIN TrainSpeed THEN TrainSpeed[e.kind] ELSE e.speed
      [] mode = "public_transport" -> e.speed

\* Time units of an hour: 2^5 * 3^2 * 5^3 * 7 * 11 * 13, a multiple of every
\* speed above.
HourUnits == 36036000

Hours(km, speed) == (km * HourUnits + speed - 1) \div speed

TravelTime(mode, e) ==
    LET speed == ProfileSpeed(mode, e)
    IN  Hours(e.km, IF speed <= 0 THEN 400 ELSE speed)

\* heuristicHours: zero when the heuristic is off (exact Dijkstra search).
Estimate(mode, heuristic, a, b) ==
    IF heuristic THEN Hours(FlatDistKm(a, b), HeuristicSpeed[mode]) ELSE 0

\* The sum of a list of numbers.
Total(s) ==
    LET sum[i \in 0 .. Len(s)] == IF i = 0 THEN 0 ELSE sum[i - 1] + s[i]
    IN  sum[Len(s)]

TotalTime(mode, edges) == Total([i \in DOMAIN edges |-> TravelTime(mode, edges[i])])

TotalKm(edges) == Total([i \in DOMAIN edges |-> edges[i].km])

-----------------------------------------------------------------------------
(* Building a graph. *)

\* NewGraph, and the nodes it is given at once.
GraphOf(nodes) == [nodes |-> nodes,
                   edges |-> [n \in Nodes |-> <<>>],
                   rev   |-> [n \in Nodes |-> <<>>],
                   flags |-> [n \in Nodes |-> {}]]

EmptyGraph == GraphOf({})

AddNode(g, n) == [g EXCEPT !.nodes = @ \cup {n}]

\* The flags of the ends of an edge, as far as they are nodes of the graph.
FlagEnds(g, from, e) ==
    [n \in Nodes |-> IF n \in {from, e.to} \cap g.nodes THEN g.flags[n] \cup e.flags ELSE g.flags[n]]

\* Variant of AddEdge.
AddEdgeWithoutReverse(g, from, e) ==
    [nodes |-> g.nodes,
     edges |-> [g.edges EXCEPT ![from] = Append(@, e)],
     rev   |-> g.rev,
     flags |-> FlagEnds(g, from, e)]

\* AddEdge: the adjacency list, the reverse list and the flags of both ends.
AddEdge(g, from, e) ==
    [nodes |-> g.nodes,
     edges |-> [g.edges EXCEPT ![from] = Append(@, e)],
     rev   |-> [g.rev EXCEPT ![e.to] = Append(@, from)],
     flags |-> FlagEnds(g, from, e)]

\* addRoadGraphEdges: a one-way street open to pedestrians gets a reverse
\* edge for them alone, unless it is pedestrian infrastructure.
AddRoadGraphEdges(g, from, e, bidirectional) ==
    LET there == AddEdge(g, from, e)
        back  == [e EXCEPT !.to = from]
    IN  CASE bidirectional -> AddEdge(there, e.to, back)
          [] ~bidirectional /\ "foot" \in e.flags /\ AllowsPedestriansAgainstFlow(e.kind)
               -> AddEdge(there, e.to, [back EXCEPT !.flags = {"foot"}])
          [] OTHER -> there

\* One row of a road_segments or rail_segments table.
AddRow(g, row, defaultSpeed, flags) ==
    LET e == [to |-> row.to, km |-> row.km, kind |-> row.kind, flags |-> flags,
              speed |-> IF row.speed <= 0 THEN defaultSpeed ELSE row.speed, name |-> row.name]
    IN  AddRoadGraphEdges(AddNode(AddNode(g, row.from), row.to), row.from, e, row.bidirectional)

\* The rows of a query one after the other, each with its flags; the query
\* leaves out rows of length zero.
LoadRows(g, rows, flags, defaultSpeed) ==
    LET loaded[i \in 0 .. Len(rows)] ==
          IF i = 0 THEN g
          ELSE IF rows[i].km > 0 THEN AddRow(loaded[i - 1], rows[i], defaultSpeed, flags[i])
          ELSE loaded[i - 1]
    IN  loaded[Len(rows)]

\* loadRoadGraphTable
LoadTable(g, rows) == LoadRows(g, rows, [i \in DOMAIN rows |-> rows[i].flags], 400)

\* LoadRailGraph
LoadRail(rows) == LoadRows(EmptyGraph, rows, [i \in DOMAIN rows |-> {"train"}], 800)

\* addTransitEdge: the straight distance of two stops, lengthened by a fifth.
AddTransitEdge(g, a, b, kind, speed, line) ==
    LET km == (Haversine(a, b) * 6) \div 5
    IN  IF km = 0 THEN g
        ELSE AddEdge(g, a, [to |-> b, km |-> km, kind |-> kind, flags |-> {"transit"},
                            speed |-> speed, name |-> line])

\* The next stop of a line, joined to the known stop before it.
NextStop(acc, line, stop) ==
    IF stop \notin acc.graph.nodes THEN acc
    ELSE [prev  |-> stop,
          graph |-> IF acc.prev = NoNode THEN acc.graph
                    ELSE AddTransitEdge(acc.graph, acc.prev, stop,
                                        IF line.metro THEN "subway" ELSE "bus_route",
                                        IF line.metro THEN 400 ELSE 200, line.name)]

\* loadBusLineEdges and loadMetroLineEdges: consecutive known stops of a line.
AddLine(g, line) ==
    LET added[i \in 0 .. Len(line.stops)] ==
          IF i = 0 THEN [graph |-> g, prev |-> NoNode]
          ELSE NextStop(added[i - 1], line, line.stops[i])
    IN  added[Len(line.stops)].graph

AddLines(g, lines) ==
    LET added[i \in 0 .. Len(lines)] == IF i = 0 THEN g ELSE AddLine(added[i - 1], lines[i])
    IN  added[Len(lines)]

Transfer(g, a, b) ==
    AddEdge(g, a, [to |-> b, km |-> Haversine(a, b), kind |-> "transfer", flags |-> {"transit"},
                   speed |-> 50, name |-> "transfer"])

\* buildTransferEdges: any two stops of a city within walking distance.
AddTransfers(g, city) ==
    LET near  == {ab \in g.nodes \X g.nodes : /\ ab[1] # ab[2]
                                              /\ city[ab[1]] = city[ab[2]]
                                              /\ Haversine(ab[1], ab[2]) \in 1 .. TransferMax}
        pairs == SetToSeq(near)
        added[i \in 0 .. Len(pairs)] ==
          IF i = 0 THEN g ELSE Transfer(added[i - 1], pairs[i][1], pairs[i][2])
    IN  added[Len(pairs)]

\* LoadTransitGraph
LoadTransit(stops, lines, city) ==
    AddTransfers(AddLines(GraphOf(stops), lines), city)

-----------------------------------------------------------------------------
(* Snapping. *)

\* nodeRoutable: some outgoing edge passes the profile, or there is none and
\* the flags of the incoming ones do.
NodeRoutable(g, mode, n) ==
    /\ n \in g.nodes
    /\ g.flags[n] # {}
    /\ IF g.edges[n] = <<>>
       THEN EdgeAllowed(mode, [flags |-> g.flags[n], kind |-> "unknown"])
       ELSE \E i \in DOMAIN g.edges[n] : EdgeAllowed(mode, g.edges[n][i])

Apart(a, b) == IF a < b THEN b - a ELSE a - b

\* The cells looked at reach as many columns east and west as rows north and
\* south, although a column is narrower: nodes beyond them are not seen.
InWindow(p, n, radius) ==
    LET reach == (radius + CellKm - 1) \div CellKm + 1
    IN  \A axis \in 1 .. 2 : Apart(Cell[p][axis], Cell[n][axis]) <= reach

\* The nodes nearestNodeWithin may return: of several at the same distance
\* the order of the grid cells decides.
NearestWithin(g, mode, p, radius) ==
    LET near == {n \in g.nodes : InWindow(p, n, radius) /\ NodeRoutable(g, mode, n)}
    IN  {n \in near : /\ radius > 0 /\ Haversine(p, n) <= radius
                      /\ \A o \in near : Haversine(p, n) <= Haversine(p, o)}

Snap(g, mode, p) ==
    LET close == NearestWithin(g, mode, p, SnapThreshold)
    IN  IF close # {} THEN close ELSE NearestWithin(g, mode, p, SnapFallback)
=============================================================================
