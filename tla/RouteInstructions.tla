-------------------------- MODULE RouteInstructions --------------------------
(***************************************************************************)
(* What a path is turned into for the client: the route with its length,   *)
(* the turn-by-turn maneuvers of instructions.go, and the legs of a bus    *)
(* and metro itinerary.  Pure operators on a path, a record of its nodes   *)
(* and edges: edge i leads from node i to node i + 1.                      *)
(*                                                                         *)
(* Bearings are whole degrees.  Texts are left out.                        *)
(***************************************************************************)
EXTENDS RoadGraph

CONSTANTS Bearing,      \* bearingDegrees from one node to another
          ShortLink     \* 0.08 km: shorter ramps are not announced

BearingDegrees(a, b) == Bearing[<<a, b>>]

ASSUME BearingsAreDegrees ==
    /\ Bearing \in [Nodes \X Nodes -> 0 .. 359]
    /\ ShortLink \in Nat

-----------------------------------------------------------------------------
(* Turns. *)

TurnAngle(a, b) == ((b - a + 540) % 360) - 180

Degrees(delta) == IF delta < 0 THEN -delta ELSE delta

ManeuverType(delta) ==
    LET side == IF delta < 0 THEN "left" ELSE "right"
        d    == Degrees(delta)
    IN  CASE d >= 155            -> [type |-> "uturn", modifier |-> <<"uturn">>]
          [] d < 25              -> [type |-> "continue", modifier |-> <<"straight">>]
          [] d >= 25 /\ d < 55   -> [type |-> "turn", modifier |-> <<"slight", side>>]
          [] d >= 55 /\ d < 125  -> [type |-> "turn", modifier |-> <<side>>]
          [] d >= 125 /\ d < 155 -> [type |-> "turn", modifier |-> <<"sharp", side>>]

Heading(path, i) == BearingDegrees(path.nodes[i], path.nodes[i + 1])

\* The turn at node i.
Delta(path, i) == TurnAngle(Heading(path, i - 1), Heading(path, i))

StreetName(path, i) == IF i \in DOMAIN path.edges THEN path.edges[i].name ELSE ""

SameStreet(a, b) == a # "" /\ a = b

Links == {"motorway_link", "trunk_link", "primary_link", "secondary_link", "tertiary_link"}

IsUnnamedLink(e) == e.name = "" /\ e.kind \in Links

\* The node where the ramps that begin with edge i end; i when there is none.
UnnamedLinkChain(path, i) ==
    Min({j \in i .. Len(path.nodes) :
           j \in DOMAIN path.edges => ~IsUnnamedLink(path.edges[j])})

Length(path, i, j) == TotalKm(SubSeq(path.edges, i, j - 1))

\* From the street before the ramps to the one after them.
ChainDelta(path, i, j) ==
    TurnAngle(Heading(path, i - 1),
              IF j < Len(path.nodes) THEN Heading(path, j) ELSE BearingDegrees(path.nodes[i], path.nodes[j]))

-----------------------------------------------------------------------------
(* buildInstructions *)

Maneuver(i, m, street) == [node |-> i, type |-> m.type, modifier |-> m.modifier, street |-> street]

ChainManeuver(path, i, j) ==
    LET delta == ChainDelta(path, i, j)
        uturn == [type |-> "uturn", modifier |-> <<"uturn">>]
    IN  CASE Degrees(delta) >= 150 -> <<Maneuver(i, uturn, StreetName(path, j))>>
          [] Degrees(delta) \in 55 .. 149 /\ Length(path, i, j) >= ShortLink
                -> <<Maneuver(i, ManeuverType(delta), StreetName(path, j))>>
          [] OTHER -> <<>>

TurnManeuver(path, i) ==
    IF Degrees(Delta(path, i)) < 25 /\ SameStreet(StreetName(path, i - 1), StreetName(path, i))
    THEN <<>>
    ELSE <<Maneuver(i, ManeuverType(Delta(path, i)), StreetName(path, i))>>

\* Variant of AtNode.
AtNodeSkippingTheExit(path, acc, i) ==
    LET j == UnnamedLinkChain(path, i)
    IN  IF i < acc.next THEN acc
        ELSE IF j > i THEN [next |-> j + 1, out |-> acc.out \o ChainManeuver(path, i, j)]
        ELSE [next |-> i + 1, out |-> acc.out \o TurnManeuver(path, i)]

\* The body of the loop over the inner nodes; after ramps it goes on where
\* they end.
AtNode(path, acc, i) ==
    LET j == UnnamedLinkChain(path, i)
    IN  IF i < acc.next THEN acc
        ELSE IF j > i THEN [next |-> j, out |-> acc.out \o ChainManeuver(path, i, j)]
        ELSE [next |-> i + 1, out |-> acc.out \o TurnManeuver(path, i)]

\* The maneuvers of the inner nodes.
InnerManeuvers(path) ==
    LET acc[i \in 1 .. Len(path.nodes)] ==
          IF i = 1 THEN [next |-> 2, out |-> <<>>]
          ELSE IF i = Len(path.nodes) THEN acc[i - 1]
          ELSE AtNode(path, acc[i - 1], i)
    IN  acc[Len(path.nodes)].out

Collapse(out, m) ==
    IF m.type = "continue" /\ out # <<>> /\ Last(out).type = "continue" THEN out ELSE Append(out, m)

\* Of maneuvers "continue" in a row the first one stays.
CollapseContinues(ms) ==
    LET out[i \in 0 .. Len(ms)] == IF i = 0 THEN <<>> ELSE Collapse(out[i - 1], ms[i])
    IN  out[Len(ms)]

Straight(type) == [type |-> type, modifier |-> <<"straight">>]

\* Each maneuver with the length and the time of the way to the next one.
BuildInstructions(path, mode) ==
    LET n     == Len(path.nodes)
        ms    == CollapseContinues(<<Maneuver(1, Straight("depart"), StreetName(path, 1))>>
                                   \o InnerManeuvers(path) \o <<Maneuver(n, Straight("arrive"), "")>>)
        leg(k) == IF k = Len(ms) THEN <<>> ELSE SubSeq(path.edges, ms[k].node, ms[k + 1].node - 1)
    IN  [k \in DOMAIN ms |->
            [node |-> ms[k].node, type |-> ms[k].type, modifier |-> ms[k].modifier,
             km |-> TotalKm(leg(k)), time |-> TotalTime(mode, leg(k))]]

-----------------------------------------------------------------------------
(* Routes and legs. *)

\* Variant of RouteKm.
RouteKmFromTheNodes(path, a, b) == path.km

\* pathToRoute: the ways from the places asked for to the nodes they were
\* snapped to count as straight lines.
RouteKm(path, a, b) == path.km + Haversine(a, path.nodes[1]) + Haversine(b, Last(path.nodes))

\* The mode an edge of the overlay is shown as.
EdgeMode(kind) ==
    CASE kind \in {"subway", "light_rail", "tram"} -> "train"
      [] kind = "bus_route" -> "bus"
      [] kind = "transfer" -> "walking"
      [] OTHER -> "public_transport"

\* Variant of BreakHere.
BreakAtTransfers(path, start, i) ==
    \/ i = Len(path.edges) + 1
    \/ EdgeMode(path.edges[i].kind) # EdgeMode(path.edges[start].kind)

BreakHere(path, start, i) ==
    \/ i = Len(path.edges) + 1
    \/ path.edges[i].name # path.edges[start].name
    \/ EdgeMode(path.edges[i].kind) # EdgeMode(path.edges[start].kind)

\* buildTransitSegmentLeg, for the edges from start to i - 1.
TransitSegmentLeg(path, start, i) ==
    LET edges == SubSeq(path.edges, start, i - 1)
    IN  [mode |-> EdgeMode(edges[1].kind), line |-> edges[1].name, edges |-> edges,
         from |-> path.nodes[start], to |-> path.nodes[i], km |-> Length(path, start, i)]

\* The body of the loop over the edges: a leg ends before edge i.
CutLeg(path, acc, i) ==
    IF BreakHere(path, acc.start, i)
    THEN [start |-> i, legs |-> Append(acc.legs, TransitSegmentLeg(path, acc.start, i))]
    ELSE acc

\* splitTransitLegs: one leg for each run of edges of the same line.
SplitTransitLegs(path) ==
    LET acc[i \in 1 .. Len(path.edges) + 1] ==
          IF i = 1 THEN [start |-> 1, legs |-> <<>>] ELSE CutLeg(path, acc[i - 1], i)
    IN  acc[Len(path.edges) + 1].legs
=============================================================================
