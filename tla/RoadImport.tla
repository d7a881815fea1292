----------------------------- MODULE RoadImport -----------------------------
(***************************************************************************)
(* cmd/osm2postgis: the import of an OpenStreetMap extract into the        *)
(* road_segments table of a region.  A run truncates the table if asked    *)
(* to, turns every way into segments and writes them in batches: COPY into *)
(* a temporary table, INSERT of all of it into the target, TRUNCATE of the *)
(* temporary table.  Each statement commits on its own, and the first one  *)
(* that fails ends the process, so what a failed run wrote stays behind.   *)
(*                                                                         *)
(* A way is a record of its node ids and of the tags the importer reads;   *)
(* a tag value is "yes", "no" (private, customers) or "" (anything else),  *)
(* oneway is "no", "yes" (also 1, true and junction=roundabout) or "-1",   *)
(* and maxspeed is the number in the tag, 0 without one.                   *)
(***************************************************************************)
EXTENDS RoadGraph

CONSTANTS Regions,     \* regions with a table of their own
          Extract,     \* the OSM file of each region: [ways, nodes inside the bbox]
          MinSegment,  \* 0.001 km: shorter segments are left out
          Grain,       \* 0.0001 km: lengths are rounded to a multiple of it
          BatchSize,
          MaxRuns      \* bound on the runs of the importer

ASSUME ImportBounds == BatchSize \in Nat \ {0} /\ MaxRuns \in Nat

ASSUME LengthBounds == Grain \in Nat \ {0} /\ MinSegment \in Nat

VARIABLES table,       \* the committed rows of each road_segments_<region>, in order of insertion
          before,      \* the rows the run found and kept (-truncate=false)
          target,      \* the region of the run
          step,        \* where the run is
          todo,        \* segments not yet added
          rows,        \* the importer's batch
          stage,       \* road_segment_import_stage, dropped with its connection
          total,       \* rows inserted
          runs

importVars == <<table, before, target, step, todo, rows, stage, total, runs>>

-----------------------------------------------------------------------------
(* From ways to segments. *)

HighwaySpeed ==
    [motorway |-> 1100, motorway_link |-> 800, trunk |-> 900, trunk_link |-> 700,
     primary |-> 800, primary_link |-> 600, secondary |-> 600, secondary_link |-> 500,
     tertiary |-> 500, tertiary_link |-> 400, unclassified |-> 400, residential |-> 300,
     living_street |-> 200, service |-> 200, track |-> 150, pedestrian |-> 50, footway |-> 50,
     path |-> 50, steps |-> 30, corridor |-> 50, platform |-> 50, sidewalk |-> 50, crossing |-> 50]

Routable(w) == w.highway \in DOMAIN HighwaySpeed

SpeedForWay(w) == IF w.maxspeed > 0 THEN w.maxspeed ELSE HighwaySpeed[w.highway]

Tag(w, key) == IF key \in DOMAIN w.tags THEN w.tags[key] ELSE ""
IsNo(w, key) == Tag(w, key) = "no"
IsYes(w, key) == Tag(w, key) = "yes"

NoBuses == Pedestrian \cup {"track"}

\* The flags a highway class has before its tags are read.
DefaultAccess(w) ==
    (IF w.highway \in Pedestrian THEN {} ELSE {"car", "motorcycle"})
    \cup (IF w.highway \in NoBuses THEN {} ELSE {"bus"})
    \cup (IF w.highway \in BlocksWalking THEN {} ELSE {"foot"})

\* accessForWay: each tag in turn takes flags away or gives them back.
AccessForWay(w) ==
    LET motor == {"car", "motorcycle", "bus"}
        a == IF IsNo(w, "access") THEN {} ELSE DefaultAccess(w)
        b == IF IsNo(w, "vehicle") \/ IsNo(w, "motor_vehicle") THEN a \ motor ELSE a
        c == IF IsYes(w, "motor_vehicle") THEN b \cup {"car", "motorcycle"} ELSE b
        d == c \ {f \in {"car", "motorcycle", "bus"} :
                    IsNo(w, IF f = "car" THEN "motorcar" ELSE f)}
        e == IF IsYes(w, "bus") THEN d \cup {"bus"} ELSE d
        f == IF IsNo(w, "foot") \/ IsNo(w, "sidewalk") THEN e \ {"foot"} ELSE e
    IN  IF IsYes(w, "foot") \/ IsYes(w, "sidewalk") THEN f \cup {"foot"} ELSE f

\* Variant of CandidateFromWay.
CandidateIgnoringReverse(w) ==
    [refs |-> w.refs, kind |-> w.highway, name |-> w.name, speed |-> SpeedForWay(w),
     bidirectional |-> w.oneway = "no", flags |-> AccessForWay(w)]

\* candidateFromWay: a way against the direction of its nodes is turned round.
CandidateFromWay(w) ==
    [refs |-> IF w.oneway = "-1" THEN Reverse(w.refs) ELSE w.refs,
     kind |-> w.highway, name |-> w.name, speed |-> SpeedForWay(w),
     bidirectional |-> w.oneway = "no", flags |-> AccessForWay(w)]

IsCandidate(w) == Routable(w) /\ Len(w.refs) >= 2 /\ AccessForWay(w) # {}

\* roundF: to the nearest multiple of Grain, the half up.
RoundF(x) == ((2 * x + Grain) \div (2 * Grain)) * Grain

RoadSegmentRow(c, a, b) ==
    [from |-> a, to |-> b, km |-> RoundF(Haversine(a, b)), kind |-> c.kind, name |-> c.name,
     speed |-> c.speed, bidirectional |-> c.bidirectional, flags |-> c.flags]

\* The segments of a candidate between nodes inside the bounding box; two
\* nodes at nearly the same place make none.
SegmentsOf(c, known) ==
    LET found[i \in 1 .. Len(c.refs)] ==
          IF i = 1 THEN <<>>
          ELSE IF /\ {c.refs[i - 1], c.refs[i]} \subseteq known
                  /\ Haversine(c.refs[i - 1], c.refs[i]) >= MinSegment
          THEN Append(found[i - 1], RoadSegmentRow(c, c.refs[i - 1], c.refs[i]))
          ELSE found[i - 1]
    IN  found[Len(c.refs)]

\* importSegmentsXML and importSegmentsPBF, which differ in how they read.
Segments(extract) ==
    LET found[i \in 0 .. Len(extract.ways)] ==
          IF i = 0 THEN <<>>
          ELSE IF IsCandidate(extract.ways[i])
          THEN found[i - 1] \o SegmentsOf(CandidateFromWay(extract.ways[i]), extract.nodes)
          ELSE found[i - 1]
    IN  found[Len(extract.ways)]

TagKeys == {"access", "vehicle", "motor_vehicle", "motorcar", "motorcycle", "bus", "foot", "sidewalk"}

Way == [refs : Seq(Nodes), highway : STRING, oneway : {"no", "yes", "-1"}, maxspeed : Nat,
        tags : UNION {[keys -> {"yes", "no", ""}] : keys \in SUBSET TagKeys}, name : STRING]

ASSUME ExtractsAreWays == Extract \in [Regions -> [ways : Seq(Way), nodes : SUBSET Nodes]]

\* A row of road_segments.
RoadSegment ==
    [from : Nodes, to : Nodes, km : Nat, kind : DOMAIN HighwaySpeed, name : STRING, speed : Nat,
     bidirectional : BOOLEAN, flags : SUBSET {"car", "motorcycle", "bus", "foot"}]

-----------------------------------------------------------------------------
(* A run. *)

\* The temporary table is created if need be, and emptied.
NewRoadSegmentImporter == rows' = <<>> /\ stage' = <<>> /\ total' = 0

\* main up to the import, with and without -truncate.
StartImport(region, truncate) ==
    /\ step \in {"idle", "done", "failed"}
    /\ runs < MaxRuns
    /\ runs' = runs + 1
    /\ target' = region
    /\ table' = IF truncate THEN [table EXCEPT ![region] = <<>>] ELSE table
    /\ before' = table'[region]
    /\ todo' = Segments(Extract[region])
    /\ NewRoadSegmentImporter
    /\ step' = "adding"

\* Add: a full batch is flushed.
AddSegment ==
    /\ step = "adding"
    /\ todo # <<>>
    /\ rows' = Append(rows, Head(todo))
    /\ todo' = Tail(todo)
    /\ step' = IF Len(rows') < BatchSize THEN "adding" ELSE "flushing"
    /\ UNCHANGED <<table, before, target, stage, total, runs>>

\* The last Flush; it does nothing with an empty batch.
LastFlush ==
    /\ step = "adding"
    /\ todo = <<>>
    /\ step' = IF rows = <<>> THEN "ending" ELSE "flushing"
    /\ UNCHANGED <<table, before, target, todo, rows, stage, total, runs>>

CopyToStage ==
    /\ step = "flushing"
    /\ stage' = stage \o rows
    /\ step' = "copied"
    /\ UNCHANGED <<table, before, target, todo, rows, total, runs>>

InsertFromStage ==
    /\ step = "copied"
    /\ table' = [table EXCEPT ![target] = @ \o stage]
    /\ step' = "inserted"
    /\ UNCHANGED <<before, target, todo, rows, stage, total, runs>>

\* Variant of TruncateStage.
TruncateKeepingStage ==
    /\ step = "inserted"
    /\ total' = total + Len(rows)
    /\ rows' = <<>>
    /\ step' = "adding"
    /\ UNCHANGED <<table, before, target, todo, stage, runs>>

TruncateStage ==
    /\ step = "inserted"
    /\ stage' = <<>>
    /\ total' = total + Len(rows)
    /\ rows' = <<>>
    /\ step' = "adding"
    /\ UNCHANGED <<table, before, target, todo, runs>>

\* An import without a segment is an error too.
EndImport ==
    /\ step = "ending"
    /\ step' = IF total = 0 THEN "failed" ELSE "done"
    /\ UNCHANGED <<table, before, target, todo, rows, stage, total, runs>>

\* A statement fails, the timeout expires or the process is killed.  Of a
\* statement under way the database keeps all or nothing, which is the state
\* before the step or the one after it.
ImportDies ==
    /\ step \in {"adding", "flushing", "copied", "inserted"}
    /\ step' = "failed"
    /\ stage' = <<>> /\ rows' = <<>> /\ todo' = <<>>
    /\ UNCHANGED <<table, before, target, total, runs>>

ImportInit ==
    /\ table = [r \in Regions |-> <<>>]
    /\ before = <<>> /\ todo = <<>> /\ rows = <<>> /\ stage = <<>>
    /\ total = 0 /\ runs = 0
    /\ target \in Regions
    /\ step = "idle"

ImportStep ==
    \/ \E r \in Regions, truncate \in BOOLEAN : StartImport(r, truncate)
    \/ AddSegment \/ LastFlush \/ CopyToStage \/ InsertFromStage \/ TruncateStage
    \/ EndImport \/ ImportDies

-----------------------------------------------------------------------------
\* A run that reports success has added every segment of its extract exactly
\* once to what the table held, whatever runs failed half way before it, and
\* counted them (osm2postgis/main.go:612, the batch and the stage are emptied
\* apart).
ImportedExactlyOnce ==
    step = "done" =>
      /\ table[target] = before \o Segments(Extract[target])
      /\ total = Len(Segments(Extract[target]))
=============================================================================
