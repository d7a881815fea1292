---------------------------- MODULE MCRoadNetwork ----------------------------
(* Three small maps: a town of two regions, a road on which the two        *)
(* directions of a search meet too early, and a motorway across a country. *)
EXTENDS RoadNetwork

Square(a, b) == (a[1] - b[1]) * (a[1] - b[1]) + (a[2] - b[2]) * (a[2] - b[2])

\* Distances as the crow flies, in whole units: the greater whole number for
\* Dist, which keeps it a metric, and the lesser one for Flat.
Crow(at) ==
    [ab \in (DOMAIN at) \X (DOMAIN at) |->
       CHOOSE k \in 0 .. 99 : /\ k * k >= Square(at[ab[1]], at[ab[2]])
                              /\ k = 0 \/ (k - 1) * (k - 1) < Square(at[ab[1]], at[ab[2]])]

FlatOn(nodes, at) ==
    [ab \in nodes \X nodes |->
       CHOOSE k \in 0 .. 99 : /\ k * k <= Square(at[ab[1]], at[ab[2]])
                              /\ (k + 1) * (k + 1) > Square(at[ab[1]], at[ab[2]])]

\* Rows of cells one unit high, columns four fifths of a unit wide.
Cells(at) == [a \in DOMAIN at |-> <<at[a][2], (at[a][1] * 5) \div 4>>]

\* Compass bearings of the streets, of which there are eight.
Toward(a, b) ==
    LET x == b[1] - a[1]
        y == b[2] - a[2]
    IN  CASE x = 0 /\ y >= 0 -> 0   [] x > 0 /\ y > 0 -> 45   [] x > 0 /\ y = 0 -> 90
          [] x > 0 /\ y < 0 -> 135 [] x = 0 /\ y < 0 -> 180  [] x < 0 /\ y < 0 -> 225
          [] x < 0 /\ y = 0 -> 270 [] x < 0 /\ y > 0 -> 315
Bearings(nodes, at) == [ab \in nodes \X nodes |-> Toward(at[ab[1]], at[ab[2]])]

NoTags == <<>>
Street(refs, highway, oneway, maxspeed, tags) ==
    [refs |-> refs, highway |-> highway, oneway |-> oneway, maxspeed |-> maxspeed,
     tags |-> tags, name |-> IF highway = "secondary_link" THEN "" ELSE highway]

-----------------------------------------------------------------------------
(* The town. *)

TownNodes == {"n1", "n2", "n3", "n4", "n5"}
TownPoints == {"o", "p", "q", "r", "far"}

TownPlan ==
    [n1 |-> <<0, 0>>, n2 |-> <<7, 0>>, n3 |-> <<14, 0>>, n4 |-> <<7, 7>>, n5 |-> <<21, 0>>,
     o |-> <<-3, 0>>, p |-> <<0, 1>>, q |-> <<14, 3>>, r |-> <<21, 1>>, far |-> <<28, 0>>]

TownDist == Crow(TownPlan)
TownFlat == FlatOn(TownNodes, TownPlan)
TownCells == Cells(TownPlan)
TownBearing == Bearings(TownNodes, TownPlan)

North ==
    [ways |-> << Street(<<"n1", "n2", "n2", "n3">>, "residential", "no", 0, NoTags),
                 Street(<<"n3", "n4", "n1">>, "secondary_link", "-1", 0, [motorcycle |-> "no"]),
                 Street(<<"n1", "n2">>, "footway", "no", 0, NoTags),
                 Street(<<"n2", "n4">>, "primary", "yes", 0, [access |-> "no", foot |-> "yes", bus |-> "yes"]) >>,
     nodes |-> TownNodes]

South ==
    [ways |-> << Street(<<"n3", "n5">>, "trunk", "no", 1200, NoTags),
                 Street(<<"n5", "n2">>, "steps", "yes", 0, NoTags),
                 Street(<<"n1", "n3">>, "service", "no", 0, [access |-> "no"]) >>,
     nodes |-> TownNodes \ {"n4"}]

TownExtract == [north |-> North, south |-> South]

TownOrder == <<"north", "south">>

TownRail == << [from |-> "n1", to |-> "n3", km |-> 14, kind |-> "rail", speed |-> 1200,
                bidirectional |-> TRUE, name |-> "line 1"],
               [from |-> "n3", to |-> "n5", km |-> 8, kind |-> "tram", speed |-> 0,
                bidirectional |-> FALSE, name |-> "tram"] >>

TownLines == << [name |-> "bus 1", metro |-> FALSE, stops |-> <<"n1", "n2">>],
                [name |-> "bus 2", metro |-> FALSE, stops |-> <<"n1", "n2", "n3">>],
                [name |-> "bus 3", metro |-> FALSE, stops |-> <<"n1", "n5">>],
                [name |-> "metro", metro |-> TRUE, stops |-> <<"n3", "n5">>] >>

TownStops == {"n1", "n2", "n3", "n5"}

TownCity == [n \in TownStops |-> "town"]

TownJourneys == {<<"p", "q">>, <<"r", "p">>, <<"p", "r">>, <<"o", "r">>, <<"p", "far">>}

-----------------------------------------------------------------------------
(* The road. *)

RoadNodes == {"s", "y", "m1", "m2", "x", "g"}

RoadPlan == [s |-> <<0, 0>>, y |-> <<1, 0>>, m1 |-> <<4, 0>>, m2 |-> <<6, 0>>,
             x |-> <<9, 0>>, g |-> <<10, 0>>, from |-> <<0, 0>>, to |-> <<10, 0>>]

RoadPoints == {"from", "to"}

RoadDist == Crow(RoadPlan)
RoadFlat == FlatOn(RoadNodes, RoadPlan)
RoadCells == Cells(RoadPlan)
RoadBearing == Bearings(RoadNodes, RoadPlan)

RoadExtract ==
    [north |-> [ways |-> << Street(<<"s", "g">>, "trunk", "yes", 800, NoTags),
                            Street(<<"s", "x">>, "trunk", "yes", 1200, NoTags),
                            Street(<<"y", "g">>, "trunk", "yes", 1200, NoTags),
                            Street(<<"s", "m1", "m2", "g">>, "trunk", "yes", 1000, NoTags) >>,
                nodes |-> RoadNodes]]

RoadOrder == <<"north">>

RoadJourneys == {<<"from", "to">>}

-----------------------------------------------------------------------------
(* The motorway from Tabriz (38.08 N, 46.29 E) to Zahedan (29.50 N,        *)
(* 60.86 E), in units of 33 km: 1646.9 km along the great circle, 1702.5   *)
(* km by flatDistKm toward Zahedan and 1592.6 km toward Tabriz.            *)

FarNodes == {"tabriz", "zahedan"}
FarPoints == {}

Between(there, back) ==
    [ab \in FarNodes \X FarNodes |->
       IF ab[1] = ab[2] THEN 0 ELSE IF ab[1] = "tabriz" THEN there ELSE back]

FarDist == Between(50, 50)
FarFlat == Between(51, 48)
FarBearing == Between(121, 309)
FarCells == [tabriz |-> <<1904, 2314>>, zahedan |-> <<1475, 3043>>]

FarExtract ==
    [north |-> [ways |-> << Street(<<"tabriz", "zahedan">>, "motorway", "no", 1300, NoTags) >>,
                nodes |-> FarNodes]]

FarJourneys == {<<"tabriz", "zahedan">>}

NoRows == <<>>
NoStops == {}
=============================================================================
