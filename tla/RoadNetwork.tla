----------------------------- MODULE RoadNetwork -----------------------------
(***************************************************************************)
(* From the map to a route: the importer fills the tables (RoadImport), a  *)
(* server starting at any moment loads them into its graph, one query per  *)
(* region, and answers a request with the searches of GraphSearch.  The    *)
(* rail and transit tables are filled by other tools and are constants.    *)
(* Once the graph is loaded the tables are not read again, so the importer *)
(* is not followed any further.                                            *)
(***************************************************************************)
EXTENDS RoadImport, GraphSearch, RouteInstructions

CONSTANTS LoadOrder,     \* the regions the server is configured with
          RailRows,      \* rail_segments
          Stops, Lines,  \* the stops of the transit overlay, its lines
          City,          \* and the city of each stop
          Journeys       \* pairs of places a request may name

VARIABLES server,        \* "down", "loading", "up", or "refused"
          toLoad         \* regions still to be loaded

netVars == <<server, toLoad, importVars, vars>>

ASSUME NetworkConstants ==
    /\ LoadOrder \in Seq(Regions)
    /\ Stops \subseteq Nodes
    /\ Lines \in Seq([name : STRING, metro : BOOLEAN, stops : Seq(Nodes)])
    /\ Journeys \subseteq Places \X Places

\* rail_segments is filled from outside.
ASSUME RailsAreTracks ==
    RailRows \in Seq([from : Nodes, to : Nodes, km : Nat, kind : STRING, speed : Nat,
                      bidirectional : BOOLEAN, name : STRING])

Init ==
    /\ ImportInit
    /\ SearchInit([road |-> EmptyGraph, rail |-> LoadRail(RailRows),
                   transit |-> LoadTransit(Stops, Lines, City)])
    /\ server = "down"
    /\ toLoad = <<>>

Import ==
    /\ server \in {"down", "loading"}
    /\ ImportStep
    /\ UNCHANGED <<server, toLoad, vars>>

StartServer ==
    /\ server = "down"
    /\ server' = "loading"
    /\ toLoad' = LoadOrder
    /\ UNCHANGED <<importVars, vars>>

\* loadRoadGraphTable: one query, which sees what is committed when it runs.
LoadRegion ==
    /\ server = "loading"
    /\ toLoad # <<>>
    /\ graph' = [graph EXCEPT !["road"] = LoadTable(@, table[Head(toLoad)])]
    /\ toLoad' = Tail(toLoad)
    /\ UNCHANGED <<server, importVars, query, phase, searchVars, yenVars, expired>>

\* LoadRoadGraphRegions fails when no table had an edge.
LoadEnds ==
    /\ server = "loading"
    /\ toLoad = <<>>
    /\ server' = IF \A n \in Nodes : graph["road"].edges[n] = <<>> THEN "refused" ELSE "up"
    /\ UNCHANGED <<toLoad, importVars, vars>>

Answer ==
    /\ server = "up"
    /\ \/ \E j \in Journeys :
            \/ \E mode \in RoadModes, k \in 1 .. 3 : RoadRequest(mode, j[1], j[2], k)
            \/ TrainRequest(j[1], j[2])
            \/ TransitRequest(j[1], j[2])
       \/ \E net \in {"road", "rail"}, a, b \in Stops : PolylineRequest(net, a, b)
       \/ SearchStep
    /\ UNCHANGED <<server, toLoad, importVars>>

Next == Import \/ StartServer \/ LoadRegion \/ LoadEnds \/ Answer

Spec == Init /\ [][Next]_netVars

-----------------------------------------------------------------------------
(* The map's own rules, read off the tags of a way and not off the code. *)

\* Keys that speak about a mode, the most specific first.
Keys ==
    [car |-> <<{"motorcar"}, {"motor_vehicle"}, {"vehicle"}, {"access"}>>,
     motorcycle |-> <<{"motorcycle"}, {"motor_vehicle"}, {"vehicle"}, {"access"}>>,
     bus |-> <<{"bus"}, {"motor_vehicle"}, {"vehicle"}, {"access"}>>,
     walking |-> <<{"foot", "sidewalk"}, {"access"}>>]

\* What the most specific keys with a value say; a yes beats a no.
Says(w, mode) ==
    LET values(i) == {Tag(w, key) : key \in Keys[mode][i]} \ {""}
        said == {i \in DOMAIN Keys[mode] : values(i) # {}}
    IN  IF said = {} THEN "" ELSE IF "yes" \in values(Min(said)) THEN "yes" ELSE "no"

\* A mode may use a way its tags open, or one of a class open to it that no
\* tag closes; buses may use what cars may.
Opens(w, mode) ==
    \/ Says(w, mode) = "yes"
    \/ /\ Says(w, mode) = ""
       /\ w.highway \notin (IF mode = "walking" THEN BlocksWalking ELSE Pedestrian)

MayUse(w, mode) == Opens(w, mode) \/ (mode = "bus" /\ Opens(w, "car"))

\* One-way streets bind all but those who walk along a road.
BothWays(w, mode) == w.oneway = "no" \/ (mode = "walking" /\ w.highway \notin Pedestrian)

MayPass(w, mode, a, b) ==
    /\ MayUse(w, mode)
    /\ \E i \in 1 .. Len(w.refs) - 1 :
         \/ /\ w.refs[i] = a /\ w.refs[i + 1] = b
            /\ BothWays(w, mode) \/ w.oneway = "yes"
         \/ /\ w.refs[i] = b /\ w.refs[i + 1] = a
            /\ BothWays(w, mode) \/ w.oneway = "-1"

\* Every leg of a road route follows a way of the map in a direction and by a
\* mode its tags allow, whatever state the import was in when the server
\* loaded the tables.  Importer, loader and search each turn edges round:
\* oneway=-1, the second edge of a two-way street, the pedestrians' reverse
\* edge and the backward search (storage/road_graph.go:231).
RoutesObeyTheMap ==
    phase = "done" /\ query.net = "road" =>
      \A i \in DOMAIN accepted :
        \A j \in 1 .. Len(accepted[i].nodes) - 1 :
          \E r \in Regions : \E w \in Range(Extract[r].ways) :
            MayPass(w, query.mode, accepted[i].nodes[j], accepted[i].nodes[j + 1])

-----------------------------------------------------------------------------
(* What the client is told about a path. *)

Guided == phase = "done" /\ query.algorithm = "yen"

\* The instructions of a route lead along all of it: from departure to
\* arrival, ever onward, with lengths and times that add up to those of the
\* path however many maneuvers were collapsed or left out at ramps; and where
\* the path turns into a street, that is, into anything but an unnamed ramp,
\* a turn is announced, also right behind a ramp (instructions.go:74, the
\* loop variable is moved inside the loop).
InstructionsFollowThePath ==
    Guided =>
      \A r \in DOMAIN accepted :
        LET path == accepted[r]
            n    == Len(path.nodes)
            ins  == BuildInstructions(path, query.mode)
        IN  /\ ins[1].node = 1 /\ ins[1].type = "depart"
            /\ Last(ins).node = n /\ Last(ins).type = "arrive"
            /\ n > 1 => \A k \in 1 .. Len(ins) - 1 : ins[k].node < ins[k + 1].node
            /\ Total([k \in DOMAIN ins |-> ins[k].km]) = path.km
            /\ Total([k \in DOMAIN ins |-> ins[k].time]) = path.time
            /\ \A i \in 2 .. n - 1 :
                  Degrees(Delta(path, i)) >= 25 /\ ~IsUnnamedLink(path.edges[i]) =>
                    \E k \in DOMAIN ins : ins[k].node = i /\ ins[k].type \in {"turn", "uturn"}

\* No route is shorter than the straight line between the places asked for,
\* wherever they were snapped to (engine.go:446), but for what the importer's
\* rounding takes: half a grain for every edge of the path.
NoRouteBeatsTheStraightLine ==
    Guided /\ query.net = "road" =>
      \A r \in DOMAIN accepted :
        LET km == RouteKm(accepted[r], query.places[1], query.places[2])
        IN  2 * km + Grain * Len(accepted[r].edges) >= 2 * Haversine(query.places[1], query.places[2])

\* A transit itinerary is the path cut into legs, nothing lost or twice: each
\* leg begins at the stop where the one before it ends and stays on one line,
\* and one gets off exactly where the line or the mode changes
\* (multimodal.go:205).
LegsAreTheItinerary ==
    phase = "done" /\ query.net = "transit" =>
      \A r \in DOMAIN accepted :
        LET path == accepted[r]
            legs == SplitTransitLegs(path)
            same(e, leg) == e.name = leg.line /\ EdgeMode(e.kind) = leg.mode
        IN  /\ FlattenSeq([l \in DOMAIN legs |-> legs[l].edges]) = path.edges
            /\ legs[1].from = query.start /\ Last(legs).to = query.goal
            /\ \A l \in DOMAIN legs : \A e \in Range(legs[l].edges) : same(e, legs[l])
            /\ \A l \in 1 .. Len(legs) - 1 : /\ legs[l].to = legs[l + 1].from
                                             /\ ~same(legs[l + 1].edges[1], legs[l])
            /\ TotalKm(legs) = path.km
=============================================================================
