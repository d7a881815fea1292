-------------------------- MODULE RoadNetworkProofs --------------------------
(***************************************************************************)
(* Theorems about the import of the road network, the graphs a server      *)
(* loads, and the searches on them, for every map, every graph and every   *)
(* order in which a heap gives out equal items.  The argument goes from    *)
(* the bottom up:                                                          *)
(*                                                                         *)
(*   - numbers: least elements, induction, sums, and the loops written as  *)
(*     recursive functions, each of which gets a lemma ...Runs that says   *)
(*     what it does in a turn;                                             *)
(*   - distances, speeds and the consistency of the heuristic;             *)
(*   - graphs: adding nodes, edges and rows keeps a graph well formed and  *)
(*     its edges in a given set A (GraphOver(A));                          *)
(*   - the labels of one side of a search, the best meeting of two, and    *)
(*     what relaxing edges, popping and settling do to them;               *)
(*   - trails of hops, the path through a node, root and spur combined;    *)
(*   - the invariant of the search (SearchInv) and its steps;              *)
(*   - the tags of the map, the rows the importer makes of them and the    *)
(*     graphs loaded from the rows (GraphOver(RoadArcs));                  *)
(*   - the invariant of the composition (NetInv) and the theorems;         *)
(*   - the reference times of Bellman and Ford, unreachable goals, and     *)
(*     the optimality of aStar (AStarInv);                                 *)
(*   - the legs of an itinerary and the instructions of a route.           *)
(***************************************************************************)
EXTENDS RoadNetwork, FiniteSetTheorems, WellFoundedInduction, TLAPS

-----------------------------------------------------------------------------
(* Numbers and sums. *)

\* A set of natural numbers has a least element.
LEMMA Smallest ==
    ASSUME NEW T \in SUBSET Nat, T # {}
    PROVE  \E x \in T : \A y \in T : x <= y
<1> DEFINE R == OpToRel(<, Nat)
<1>1. IsWellFoundedOn(R, Nat)
  BY NatLessThanWellFounded
<1>2. R = {ss \in Nat \X Nat : ss[1] < ss[2]}
  BY DEF OpToRel
<1> HIDE DEF R
<1>3. PICK x \in T : \A y \in T : ~ (<<y, x>> \in R)
  BY <1>1, WFMin
<1>4. \A a, b \in Nat : a < b => <<a, b>> \in R
  BY <1>2
<1>5. ASSUME NEW y \in T PROVE x <= y
  <2>1. y < x => <<y, x>> \in R
    BY <1>4
  <2>2. ~(<<y, x>> \in R)
    BY <1>3
  <2>3. ~(y < x)
    BY <2>1, <2>2
  <2>. QED
    BY <2>3
<1>. QED
  BY <1>5

\* Induction from m to n, for a set of numbers.
LEMMA UpTo ==
    ASSUME NEW S, NEW m \in Nat, NEW n \in Nat, m \in S, \A i \in m .. n : i > m /\ i - 1 \in S => i \in S
    PROVE  \A i \in m .. n : i \in S
<1> DEFINE T == {i \in m .. n : i \notin S}
<1>1. SUFFICES ASSUME T # {} PROVE FALSE
  OBVIOUS
<1>2. T \in SUBSET Nat
  OBVIOUS
<1>3. PICK x \in T : \A y \in T : x <= y
  BY <1>1, <1>2, Smallest
<1>4. x - 1 \in m .. n /\ x - 1 \notin T
  BY <1>3
<1>. QED
  BY <1>3, <1>4

SumStep(x, s, i) == x + s[i]

SumBody(f, s, n) == [i \in 0 .. n |-> IF i = 0 THEN 0 ELSE SumStep(f[i - 1], s, i)]

SumLoop(s, n) == CHOOSE f : f = SumBody(f, s, n)

\* The loop of Total.
LEMMA SumRuns ==
    ASSUME NEW s, NEW n \in Nat, 0 <= n
    PROVE  LET f == SumLoop(s, n)
           IN  /\ f[0] = 0
               /\ \A i \in 0 .. n : i > 0 => f[i] = SumStep(f[i - 1], s, i)
<1> DEFINE S == {k \in Nat : \E f : f = SumBody(f, s, k)}
<1>1. 0 \in S
  <2> DEFINE h == [i \in 0 .. 0 |-> 0]
  <2>1. h = SumBody(h, s, 0)
    BY DEF SumBody
  <2>. QED
    BY <2>1
<1>2. ASSUME NEW k \in 0 .. n, k > 0, k - 1 \in S PROVE k \in S
  <2>1. PICK was : was = SumBody(was, s, k - 1)
    BY <1>2
  <2> DEFINE h == [i \in 0 .. k |-> IF i = k THEN SumStep(was[k - 1], s, k) ELSE was[i]]
  <2>2. \A i \in 0 .. k - 1 : h[i] = was[i] /\ was[i] = IF i = 0 THEN 0 ELSE SumStep(was[i - 1], s, i)
    BY <2>1 DEF SumBody
  <2>3. h[k] = SumStep(was[k - 1], s, k) /\ h[k - 1] = was[k - 1]
    BY <1>2
  <2>4. ASSUME NEW i \in 0 .. k PROVE h[i] = IF i = 0 THEN 0 ELSE SumStep(h[i - 1], s, i)
    <3> HIDE DEF h
    <3>1. CASE i = k
      BY <3>1, <1>2, <2>3
    <3>2. CASE i = 0
      BY <3>2, <1>2, <2>2
    <3>3. CASE i # k /\ i # 0
      <4>1. i \in 0 .. k - 1 /\ i - 1 \in 0 .. k - 1
        BY <3>3, <1>2
      <4>. QED
        BY <3>3, <4>1, <2>2
    <3>. QED
      BY <3>1, <3>2, <3>3
  <2>5. h = SumBody(h, s, k)
    BY <2>4 DEF SumBody
  <2>6. k \in Nat
    OBVIOUS
  <2>. QED
    BY <2>5, <2>6
<1>3. n \in S
  <2> HIDE DEF S
  <2>. QED
    BY <1>1, <1>2, UpTo
<1> DEFINE f == SumLoop(s, n)
<1>4. f = SumBody(f, s, n)
  BY <1>3 DEF SumLoop
<1> HIDE DEF f
<1>5. f[0] = 0 /\ \A i \in 0 .. n : i > 0 => f[i] = SumStep(f[i - 1], s, i)
  BY <1>4 DEF SumBody
<1>. QED
  BY <1>5 DEF f

IsSum(f, s, n) ==
    /\ f[0] = 0
    /\ \A i \in 1 .. n : f[i] = f[i - 1] + s[i]
    /\ \A i \in 0 .. n : f[i] \in Nat

\* The sum of a list, turn by turn.
LEMMA TotalLoop ==
    ASSUME NEW s, NEW n \in Nat, Len(s) = n, \A i \in 1 .. n : s[i] \in Nat
    PROVE  \E f : IsSum(f, s, n) /\ Total(s) = f[n]
<1> DEFINE f == SumLoop(s, n)
<1>1. Total(s) = f[n]
  BY DEF Total, SumLoop, SumBody, SumStep
<1>2. f[0] = 0 /\ \A i \in 0 .. n : i > 0 => f[i] = SumStep(f[i - 1], s, i)
  BY SumRuns
<1> HIDE DEF f
<1>3. \A i \in 0 .. n : i > 0 => f[i] = f[i - 1] + s[i] /\ s[i] \in Nat
  BY <1>2 DEF SumStep
<1> DEFINE S == {i \in 0 .. n : f[i] \in Nat}
<1>4. 0 \in S
  BY <1>2
<1>5. \A i \in 0 .. n : i > 0 /\ i - 1 \in S => i \in S
  BY <1>3
<1>6. \A i \in 0 .. n : i \in S
  <2> HIDE DEF S
  <2>. QED
    BY <1>4, <1>5, UpTo
<1>7. IsSum(f, s, n)
  BY <1>2, <1>3, <1>6 DEF IsSum
<1>. QED
  BY <1>1, <1>7

\* The sum of a list of numbers is a number.
LEMMA TotalIsNat ==
    ASSUME NEW s, Len(s) \in Nat, \A i \in 1 .. Len(s) : s[i] \in Nat
    PROVE  Total(s) \in Nat
<1>1. PICK f : IsSum(f, s, Len(s)) /\ Total(s) = f[Len(s)]
  BY TotalLoop
<1>. QED
  BY <1>1 DEF IsSum

\* A potential that grows by each term of a list, or by no more.
Follows(P, s, n) ==
    /\ \A i \in 1 .. n : s[i] \in Nat
    /\ \A i \in 1 .. n + 1 : P[i] \in Int
    /\ \A i \in 1 .. n : P[i + 1] = P[i] + s[i]

\* A sum follows a potential that grows by each term.
LEMMA Telescope ==
    ASSUME NEW n \in Nat, NEW s, Len(s) = n, NEW P, Follows(P, s, n)
    PROVE  Total(s) = P[n + 1] - P[1]
<1> USE DEF Follows
<1>1. PICK f : IsSum(f, s, n) /\ Total(s) = f[n]
  BY TotalLoop
<1> DEFINE S == {i \in 0 .. n : f[i] = P[i + 1] - P[1]}
<1>2. \A i \in 0 .. n : i > 0 => f[i] = f[i - 1] + s[i] /\ f[i - 1] \in Nat /\ s[i] \in Nat
  BY <1>1 DEF IsSum
<1>3. \A i \in 0 .. n : i > 0 => P[i + 1] = P[i] + s[i] /\ P[i] \in Int /\ P[1] \in Int
  OBVIOUS
<1>4. 0 \in S
  <2>1. f[0] = 0 /\ P[1] \in Int
    BY <1>1 DEF IsSum
  <2>. QED
    BY <2>1
<1>5. ASSUME NEW i \in 0 .. n, i > 0, i - 1 \in S PROVE i \in S
  <2>1. f[i - 1] = P[(i - 1) + 1] - P[1] /\ (i - 1) + 1 = i
    BY <1>5
  <2>2. f[i] = P[i + 1] - P[1]
    BY <1>2, <1>3, <1>5, <2>1
  <2>. QED
    BY <2>2
<1>6. \A i \in 0 .. n : i \in S
  <2> HIDE DEF S
  <2>. QED
    BY <1>4, <1>5, UpTo
<1>. QED
  BY <1>1, <1>6

\* A potential that grows by at most twice each term and c stays below twice
\* the sum and n times c.
StaysNear(P, s, n, c) ==
    /\ \A i \in 1 .. n : s[i] \in Nat
    /\ \A i \in 1 .. n + 1 : P[i] \in Int
    /\ \A i \in 1 .. n : P[i + 1] <= P[i] + 2 * s[i] + c

LEMMA ClimbNear ==
    ASSUME NEW n \in Nat, NEW s, Len(s) = n, NEW c \in Nat, NEW P, StaysNear(P, s, n, c)
    PROVE  P[n + 1] - P[1] <= 2 * Total(s) + c * n
<1>1. PICK f : IsSum(f, s, n) /\ Total(s) = f[n]
  <2>1. \A i \in 1 .. n : s[i] \in Nat
    BY DEF StaysNear
  <2>. QED
    BY <2>1, TotalLoop
<1> DEFINE S == {i \in 0 .. n : P[i + 1] - P[1] <= 2 * f[i] + c * i}
<1>2. \A i \in 0 .. n : i > 0 => f[i] = f[i - 1] + s[i] /\ f[i - 1] \in Nat /\ i \in 1 .. n
  BY <1>1 DEF IsSum
<1>3. P[1] \in Int
  BY DEF StaysNear
<1>4. 0 \in S
  <2>1. f[0] = 0 /\ c * 0 = 0
    BY <1>1 DEF IsSum
  <2>. QED
    BY <1>3, <2>1
<1>5. ASSUME NEW i \in 0 .. n, i > 0, i - 1 \in S PROVE i \in S
  <2>1. PICK here, next, term, was, sum : /\ here = P[i] /\ next = P[i + 1] /\ term = s[i]
                                          /\ was = f[i - 1] /\ sum = f[i]
    OBVIOUS
  <2>2. i \in 1 .. n /\ i \in 1 .. n + 1 /\ i + 1 \in 1 .. n + 1 /\ (i - 1) + 1 = i
    BY <1>5
  <2>3. here \in Int /\ next \in Int /\ term \in Nat /\ next <= here + 2 * term + c
    BY <2>1, <2>2 DEF StaysNear
  <2>4. was \in Nat /\ sum = was + term
    BY <1>2, <1>5, <2>1
  <2>5. PICK less \in Nat : less = c * (i - 1) /\ c * i = less + c
    BY <1>5
  <2>6. here - P[1] <= 2 * was + less
    BY <1>5, <2>1, <2>2, <2>5
  <2>7. next - P[1] <= 2 * sum + (less + c)
    BY <1>3, <2>3, <2>4, <2>6
  <2>. QED
    BY <2>1, <2>5, <2>7
<1>6. \A i \in 0 .. n : i \in S
  <2> HIDE DEF S
  <2>. QED
    BY <1>4, <1>5, UpTo
<1>. QED
  BY <1>1, <1>6

-----------------------------------------------------------------------------
\* utils.Haversine is a metric on nodes and points.
LEMMA Metric ==
    /\ \A a, b \in Places : Haversine(a, b) \in Nat
    /\ \A a, b \in Places : Haversine(a, b) = Haversine(b, a) /\ Haversine(a, a) = 0
    /\ \A a, b, c \in Places : Haversine(a, c) <= Haversine(a, b) + Haversine(b, c)
BY DistIsAMetric DEF Haversine

Modes == DOMAIN ProfileFlags

\* The modes the profiles know.
LEMMA ModeNames ==
    Modes = {"car", "motorcycle", "bus", "walking", "train", "public_transport"}
BY DEF Modes, ProfileFlags

\* A length takes time, and no less than it would exactly.
LEMMA HoursArePositive ==
    ASSUME NEW km \in Nat \ {0}, NEW speed \in Nat \ {0}
    PROVE  Hours(km, speed) \in Nat \ {0} /\ Hours(km, speed) * speed >= km * HourUnits
<1>0. HourUnits \in Nat \ {0}
  BY SMT DEF HourUnits
<1> DEFINE x == km * HourUnits + speed - 1
<1>1. x \in Nat /\ x >= speed
  BY <1>0
<1>2. x \div speed \in Nat /\ (x \div speed) * speed <= x /\ x < (x \div speed) * speed + speed
  BY <1>1
<1> DEFINE q == x \div speed
<1>3. q \in Nat /\ q * speed <= x /\ x < q * speed + speed
  BY <1>2
<1> HIDE DEF q
<1>4. q # 0
  BY <1>1, <1>3
<1>5. q * speed >= km * HourUnits
  BY <1>0, <1>3
<1>. QED
  BY <1>3, <1>4, <1>5 DEF Hours, q

\* The speeds of the profiles' tables are positive.
LEMMA SpeedsAreNumbers ==
    /\ \A k \in DOMAIN MotorcycleSpeed : MotorcycleSpeed[k] \in Nat \ {0}
    /\ \A k \in DOMAIN BusSpeed : BusSpeed[k] \in Nat \ {0}
    /\ \A k \in DOMAIN WalkingSpeed : WalkingSpeed[k] \in Nat \ {0}
    /\ \A k \in DOMAIN TrainSpeed : TrainSpeed[k] \in Nat \ {0}
BY DEF MotorcycleSpeed, BusSpeed, WalkingSpeed, TrainSpeed

\* The speed of a profile on an edge; only walking is never zero.
LEMMA ProfileSpeedIsNat ==
    ASSUME NEW mode \in Modes, NEW e \in Edge
    PROVE  ProfileSpeed(mode, e) \in Nat /\ (mode = "walking" => ProfileSpeed(mode, e) > 0)
<1>1. e.speed \in Nat
  BY DEF Edge
<1>2. (e.speed * 11) \div 10 \in Nat /\ (e.speed * 8) \div 10 \in Nat
  BY <1>1
<1>3. \A a \in Nat \ {0} : Slower(a, e.speed) \in Nat
  BY <1>1 DEF Slower
<1>. QED
  BY <1>1, <1>2, <1>3, SpeedsAreNumbers, ModeNames DEF ProfileSpeed

\* Every edge takes time, whatever its speed.
LEMMA TravelTimeIsPositive ==
    ASSUME NEW mode \in Modes, NEW e \in Edge
    PROVE  TravelTime(mode, e) \in Nat \ {0}
<1>1. e.km \in Nat \ {0} /\ ProfileSpeed(mode, e) \in Nat
  BY ProfileSpeedIsNat DEF Edge
<1>2. (IF ProfileSpeed(mode, e) <= 0 THEN 400 ELSE ProfileSpeed(mode, e)) \in Nat \ {0}
  BY <1>1
<1>. QED
  BY <1>1, <1>2, HoursArePositive DEF TravelTime

\* Every speed of the heuristic divides the time unit.
LEMMA HeuristicIsExact ==
    ASSUME NEW mode \in Modes
    PROVE  /\ HeuristicSpeed[mode] \in Nat \ {0}
           /\ \E c \in Nat \ {0} : HeuristicSpeed[mode] * c = HourUnits
<1>1. /\ 1300 * 27720 = HourUnits /\ 1500 * 24024 = HourUnits /\ 1000 * 36036 = HourUnits
      /\ 60 * 600600 = HourUnits /\ 2000 * 18018 = HourUnits /\ 400 * 90090 = HourUnits
  BY SMT DEF HourUnits
<1>2. HeuristicSpeed[mode] \in {1300, 1500, 1000, 60, 2000, 400}
  BY ModeNames, SMT DEF HeuristicSpeed
<1>3. \E c \in {27720, 24024, 36036, 600600, 18018, 90090} : HeuristicSpeed[mode] * c = HourUnits
  BY <1>1, <1>2, SMT
<1>4. {27720, 24024, 36036, 600600, 18018, 90090} \subseteq Nat \ {0}
  BY SMT
<1>5. HeuristicSpeed[mode] \in Nat \ {0}
  BY <1>2, SMT
<1>. QED
  BY <1>3, <1>4, <1>5, SMT

\* flatDistKm gives a number, and zero for a node and itself.
LEMMA FlatIsNat ==
    ASSUME NEW a \in Nodes, NEW t \in Nodes
    PROVE  FlatDistKm(a, t) \in Nat /\ FlatDistKm(t, t) = 0
<1>1. <<a, t>> \in Nodes \X Nodes
  OBVIOUS
<1>. QED
  BY <1>1, FlatIsADistance DEF FlatDistKm

\* Where an edge is no faster than the heuristic assumes and no shorter than
\* what it takes off the flat distance, the estimate drops by no more than the
\* time of the edge.
LEMMA EstimateIsConsistent ==
    ASSUME NEW mode \in Modes, NEW heuristic \in BOOLEAN, NEW e \in Edge,
           NEW a \in Nodes, NEW t \in Nodes,
           heuristic => /\ ProfileSpeed(mode, e) <= HeuristicSpeed[mode]
                        /\ FlatDistKm(a, t) <= e.km + FlatDistKm(e.to, t)
    PROVE  Estimate(mode, heuristic, a, t) <= TravelTime(mode, e) + Estimate(mode, heuristic, e.to, t)
<1>1. TravelTime(mode, e) \in Nat
  BY TravelTimeIsPositive
<1>2. CASE ~heuristic
  BY <1>1, <1>2 DEF Estimate
<1>3. CASE heuristic
  <2> DEFINE H == HeuristicSpeed[mode]
  <2>1. H \in Nat \ {0}
    BY HeuristicIsExact
  <2>2. PICK c \in Nat \ {0} : H * c = HourUnits
    BY HeuristicIsExact
  <2>3. \A d \in Nat : Hours(d, H) = d * c
    <3>1. ASSUME NEW d \in Nat, NEW h \in Nat \ {0} PROVE (d * (h * c) + h - 1) \div h = d * c
      <4>1. d * (h * c) + h - 1 = (d * c) * h + (h - 1)
        BY SMT
      <4>2. ASSUME NEW q \in Nat PROVE (q * h + (h - 1)) \div h = q
        BY SMT
      <4>3. d * c \in Nat
        BY SMT
      <4>. QED
        BY <4>1, <4>2, <4>3
    <3>. QED
      BY <3>1, <2>1, <2>2 DEF Hours
  <2>4. PICK s \in Nat \ {0} : s <= H /\ TravelTime(mode, e) = Hours(e.km, s)
    <3>1. ProfileSpeed(mode, e) \in Nat /\ (mode = "walking" => ProfileSpeed(mode, e) > 0)
      BY ProfileSpeedIsNat
    <3>2. mode # "walking" => 400 <= H
      BY ModeNames, SMT DEF HeuristicSpeed
    <3>. QED
      BY <3>1, <3>2, <1>3 DEF TravelTime
  <2>5. TravelTime(mode, e) >= e.km * c
    <3>1. e.km \in Nat \ {0}
      BY DEF Edge
    <3>2. TravelTime(mode, e) * s >= e.km * HourUnits
      BY <2>4, <3>1, HoursArePositive
    <3>3. ASSUME NEW q \in Nat, NEW k \in Nat, NEW h \in Nat, s <= h, q * s >= k * (h * c) PROVE q >= k * c
      <4>1. k * c \in Nat
        BY SMT
      <4>2. ASSUME NEW y \in Nat, q < y PROVE q * s < y * s
        BY <4>2, SMT
      <4>3. ASSUME NEW y \in Nat PROVE y * h >= y * s
        BY <3>3, SMT
      <4>4. k * (h * c) = (k * c) * h
        BY SMT
      <4>5. (k * c) * h >= (k * c) * s
        BY <4>1, <4>3
      <4>6. q * s >= (k * c) * s
        <5>1. q * s \in Nat /\ (k * c) * h \in Nat /\ (k * c) * s \in Nat
          BY <4>1, SMT
        <5>. QED
          BY <5>1, <3>3, <4>4, <4>5
      <4>. QED
        BY <4>1, <4>2, <4>6
    <3>. QED
      BY <1>1, <2>1, <2>2, <2>4, <3>1, <3>2, <3>3
  <2>6. FlatDistKm(a, t) \in Nat /\ FlatDistKm(e.to, t) \in Nat
    BY FlatIsNat DEF Edge
  <2>7. FlatDistKm(a, t) * c <= e.km * c + FlatDistKm(e.to, t) * c
    <3>1. ASSUME NEW x \in Nat, NEW y \in Nat, NEW z \in Nat, x <= y + z PROVE x * c <= y * c + z * c
      <4>1. x * c <= (y + z) * c
        BY <3>1, SMT
      <4>. QED
        BY <4>1, SMT
    <3>2. e.km \in Nat /\ FlatDistKm(a, t) <= e.km + FlatDistKm(e.to, t)
      BY <1>3 DEF Edge
    <3>. QED
      BY <2>6, <3>1, <3>2
  <2>8. /\ Estimate(mode, heuristic, a, t) = FlatDistKm(a, t) * c
        /\ Estimate(mode, heuristic, e.to, t) = FlatDistKm(e.to, t) * c
    BY <1>3, <2>3, <2>6 DEF Estimate
  <2>9. FlatDistKm(a, t) * c \in Nat /\ e.km * c \in Nat /\ FlatDistKm(e.to, t) * c \in Nat
    <3>1. e.km \in Nat
      BY DEF Edge
    <3>. QED
      BY <2>6, <3>1
  <2>. QED
    BY <1>1, <2>5, <2>7, <2>8, <2>9
<1>. QED
  BY <1>2, <1>3

\* The heuristic is a number, and zero at the target.
LEMMA EstimateIsNat ==
    ASSUME NEW mode \in Modes, NEW heuristic \in BOOLEAN, NEW a \in Nodes, NEW t \in Nodes
    PROVE  /\ Estimate(mode, heuristic, a, t) \in Nat
           /\ Estimate(mode, heuristic, t, t) = 0
<1>1. CASE ~heuristic
  BY <1>1 DEF Estimate
<1>2. CASE heuristic
  <2>1. HeuristicSpeed[mode] \in Nat \ {0} /\ HourUnits \in Nat
    BY HeuristicIsExact, SMT DEF HourUnits
  <2>2. FlatDistKm(a, t) \in Nat /\ FlatDistKm(t, t) = 0
    BY FlatIsNat
  <2>3. ASSUME NEW h \in Nat \ {0}, NEW d \in Nat PROVE (d * HourUnits + h - 1) \div h \in Nat
    BY <2>1
  <2>4. ASSUME NEW h \in Nat \ {0} PROVE (0 * HourUnits + h - 1) \div h = 0
    BY <2>1
  <2>. QED
    BY <1>2, <2>1, <2>2, <2>3, <2>4 DEF Estimate, Hours
<1>. QED
  BY <1>1, <1>2

-----------------------------------------------------------------------------
(* Graphs. *)

Graph == [nodes : SUBSET Nodes, edges : [Nodes -> Seq(Edge)], rev : [Nodes -> Seq(Nodes)],
          flags : [Nodes -> SUBSET Flags]]

\* Edge e may be listed under n.
Listed(g, A, n, e) ==
    <<n, e>> \in A /\ n \in g.nodes /\ e.to \in g.nodes /\ n \in Range(g.rev[e.to])

\* A graph with edges of A between its nodes, each one in the reverse list.
GraphOver(A) ==
    {g \in Graph : \A n \in Nodes : \A i \in DOMAIN g.edges[n] : Listed(g, A, n, g.edges[n][i])}

\* What a list holds after an Append.
LEMMA AppendRange ==
    ASSUME NEW S, NEW s \in Seq(S), NEW x \in S
    PROVE  /\ Append(s, x) \in Seq(S)
           /\ x \in Range(Append(s, x))
           /\ \A y \in Range(s) : y \in Range(Append(s, x))
           /\ \A i \in DOMAIN Append(s, x) : (i \in DOMAIN s /\ Append(s, x)[i] = s[i]) \/ Append(s, x)[i] = x
<1>1. Append(s, x) \in Seq(S) /\ Len(Append(s, x)) = Len(s) + 1 /\ Len(s) \in Nat
  OBVIOUS
<1>2. DOMAIN s = 1 .. Len(s) /\ DOMAIN Append(s, x) = 1 .. Len(s) + 1
  BY <1>1
<1>3. Append(s, x)[Len(s) + 1] = x /\ \A i \in 1 .. Len(s) : Append(s, x)[i] = s[i]
  OBVIOUS
<1>4. \A i \in 1 .. Len(s) + 1 : i \in 1 .. Len(s) \/ i = Len(s) + 1
  BY <1>1
<1>5. Len(s) + 1 \in 1 .. Len(s) + 1 /\ \A i \in 1 .. Len(s) : i \in 1 .. Len(s) + 1
  BY <1>1
<1>. QED
  BY <1>1, <1>2, <1>3, <1>4, <1>5, Zenon DEF Range

\* The parts of a graph an edge is added to.
LEMMA AddEdgeParts ==
    ASSUME NEW g \in Graph, NEW src \in Nodes, NEW e \in Edge
    PROVE  /\ AddEdge(g, src, e) \in Graph
           /\ AddEdge(g, src, e).nodes = g.nodes
           /\ \A n \in Nodes : AddEdge(g, src, e).edges[n] = IF n = src THEN Append(g.edges[n], e) ELSE g.edges[n]
           /\ \A n \in Nodes : AddEdge(g, src, e).rev[n] = IF n = e.to THEN Append(g.rev[n], src) ELSE g.rev[n]
<1>1. e.to \in Nodes /\ e.flags \in SUBSET Flags
  BY DEF Edge
<1>2. /\ g.edges \in [Nodes -> Seq(Edge)] /\ g.rev \in [Nodes -> Seq(Nodes)]
      /\ g.flags \in [Nodes -> SUBSET Flags] /\ g.nodes \in SUBSET Nodes
  BY DEF Graph
<1>3. /\ [g.edges EXCEPT ![src] = Append(@, e)] \in [Nodes -> Seq(Edge)]
      /\ [g.rev EXCEPT ![e.to] = Append(@, src)] \in [Nodes -> Seq(Nodes)]
  BY <1>1, <1>2
<1>4. FlagEnds(g, src, e) \in [Nodes -> SUBSET Flags]
  BY <1>1, <1>2 DEF FlagEnds
<1>. QED
  BY <1>1, <1>2, <1>3, <1>4 DEF Graph, AddEdge

\* AddEdge keeps a graph well formed.
LEMMA AddEdgeKeeps ==
    ASSUME NEW A, NEW g \in GraphOver(A), NEW src \in Nodes, NEW e \in Edge, <<src, e>> \in A,
           src \in g.nodes, e.to \in g.nodes
    PROVE  AddEdge(g, src, e) \in GraphOver(A) /\ AddEdge(g, src, e).nodes = g.nodes
<1> DEFINE h == AddEdge(g, src, e)
<1>0. g \in Graph /\ e.to \in Nodes
  BY DEF GraphOver, Edge
<1>1. /\ h \in Graph /\ h.nodes = g.nodes
      /\ \A n \in Nodes : h.edges[n] = IF n = src THEN Append(g.edges[n], e) ELSE g.edges[n]
      /\ \A n \in Nodes : h.rev[n] = IF n = e.to THEN Append(g.rev[n], src) ELSE g.rev[n]
  BY <1>0, AddEdgeParts
<1>2. \A n \in Nodes : g.edges[n] \in Seq(Edge) /\ g.rev[n] \in Seq(Nodes)
  BY <1>0 DEF Graph
<1> HIDE DEF h
<1>3. ASSUME NEW n \in Nodes, NEW y \in Range(g.rev[n]) PROVE y \in Range(h.rev[n])
  BY <1>1, <1>2, AppendRange
<1>4. src \in Range(h.rev[e.to])
  BY <1>0, <1>1, <1>2, AppendRange
<1>5. ASSUME NEW n \in Nodes, NEW i \in DOMAIN h.edges[n] PROVE Listed(h, A, n, h.edges[n][i])
  <2>1. CASE i \in DOMAIN g.edges[n] /\ h.edges[n][i] = g.edges[n][i]
    <3>1. Listed(g, A, n, g.edges[n][i])
      BY <2>1 DEF GraphOver
    <3>2. g.edges[n][i].to \in Nodes
      BY <3>1, <1>0 DEF Listed, Graph
    <3>. QED
      BY <2>1, <3>1, <3>2, <1>1, <1>3 DEF Listed
  <2>2. CASE n = src /\ h.edges[n][i] = e
    BY <2>2, <1>1, <1>4 DEF Listed
  <2>3. CASE n = src
    <3>1. i \in DOMAIN Append(g.edges[n], e) /\ h.edges[n] = Append(g.edges[n], e)
      BY <2>3, <1>1, <1>5
    <3>2. (i \in DOMAIN g.edges[n] /\ Append(g.edges[n], e)[i] = g.edges[n][i]) \/ Append(g.edges[n], e)[i] = e
      <4>1. g.edges[n] \in Seq(Edge)
        BY <1>2
      <4>. QED
        BY <3>1, <4>1, AppendRange
    <3>. QED
      BY <2>1, <2>2, <2>3, <3>1, <3>2
  <2>4. CASE n # src
    BY <2>1, <2>4, <1>1, <1>5
  <2>. QED
    BY <2>3, <2>4
<1>. QED
  BY <1>1, <1>5 DEF GraphOver, h

\* AddNode keeps a graph well formed.
LEMMA AddNodeKeeps ==
    ASSUME NEW A, NEW g \in GraphOver(A), NEW n \in Nodes
    PROVE  AddNode(g, n) \in GraphOver(A) /\ AddNode(g, n).nodes = g.nodes \cup {n}
<1>1. g \in Graph
  BY DEF GraphOver
<1>2. /\ AddNode(g, n) \in Graph /\ AddNode(g, n).nodes = g.nodes \cup {n}
      /\ AddNode(g, n).edges = g.edges /\ AddNode(g, n).rev = g.rev
  BY <1>1 DEF AddNode, Graph
<1>. QED
  BY <1>1, <1>2 DEF GraphOver, Graph, Listed

\* A graph without edges is well formed.
LEMMA GraphOfKeeps ==
    ASSUME NEW A, NEW N \in SUBSET Nodes
    PROVE  GraphOf(N) \in GraphOver(A) /\ GraphOf(N).nodes = N
<1>1. GraphOf(N) \in Graph
  BY DEF Graph, GraphOf
<1>2. \A n \in Nodes : DOMAIN GraphOf(N).edges[n] = {}
  BY DEF GraphOf
<1>. QED
  BY <1>1, <1>2 DEF GraphOver, GraphOf

\* The edge of a row, and the rows whose edges are in A.
RowEdge(row, flags, speed) ==
    [to |-> row.to, km |-> row.km, kind |-> row.kind, flags |-> flags,
     speed |-> IF row.speed <= 0 THEN speed ELSE row.speed, name |-> row.name]

RowFits(A, row, flags, speed) ==
    LET e    == RowEdge(row, flags, speed)
        back == [e EXCEPT !.to = row.from]
        walk == [back EXCEPT !.flags = {"foot"}]
    IN  /\ row.from \in Nodes /\ row.to \in Nodes
        /\ e \in Edge /\ <<row.from, e>> \in A
        /\ row.bidirectional => <<row.to, back>> \in A
        /\ ~row.bidirectional /\ "foot" \in flags /\ AllowsPedestriansAgainstFlow(row.kind)
             => <<row.to, walk>> \in A

\* A row whose edges are in A keeps the edges in A, both ways and on foot.
LEMMA AddRowKeeps ==
    ASSUME NEW A, NEW g \in GraphOver(A), NEW row, NEW flags, NEW speed, RowFits(A, row, flags, speed),
           row.bidirectional \in BOOLEAN
    PROVE  AddRow(g, row, speed, flags) \in GraphOver(A)
<1> DEFINE e == RowEdge(row, flags, speed)
           back == [e EXCEPT !.to = row.from]
           walk == [back EXCEPT !.flags = {"foot"}]
           h == AddNode(AddNode(g, row.from), row.to)
           there == AddEdge(h, row.from, e)
<1>1. /\ row.from \in Nodes /\ row.to \in Nodes /\ e \in Edge /\ <<row.from, e>> \in A
      /\ row.bidirectional => <<row.to, back>> \in A
      /\ ~row.bidirectional /\ "foot" \in flags /\ AllowsPedestriansAgainstFlow(row.kind)
             => <<row.to, walk>> \in A
  BY DEF RowFits
<1>2. h \in GraphOver(A) /\ row.from \in h.nodes /\ row.to \in h.nodes
  BY <1>1, AddNodeKeeps
<1>3. e.to = row.to /\ e.flags = flags /\ e.kind = row.kind
  BY DEF RowEdge
<1>4. AddRow(g, row, speed, flags) = AddRoadGraphEdges(h, row.from, e, row.bidirectional)
  BY DEF AddRow, RowEdge
<1> HIDE DEF e, h
<1>5. back \in Edge /\ back.to = row.from /\ walk \in Edge /\ walk.to = row.from
  <2>1. "foot" \in Flags
    BY DEF Flags
  <2>. QED
    BY <1>1, <2>1 DEF Edge
<1> HIDE DEF back, walk
<1>6. there \in GraphOver(A) /\ there.nodes = h.nodes
  BY <1>1, <1>2, <1>3, AddEdgeKeeps
<1> HIDE DEF there
<1>7. AddRoadGraphEdges(h, row.from, e, row.bidirectional) =
        CASE row.bidirectional -> AddEdge(there, e.to, back)
          [] ~row.bidirectional /\ "foot" \in e.flags /\ AllowsPedestriansAgainstFlow(e.kind)
               -> AddEdge(there, e.to, walk)
          [] OTHER -> there
  BY DEF AddRoadGraphEdges, there, back, walk
<1>8. CASE row.bidirectional
  BY <1>1, <1>2, <1>3, <1>4, <1>5, <1>6, <1>7, <1>8, AddEdgeKeeps
<1>9. CASE ~row.bidirectional /\ "foot" \in flags /\ AllowsPedestriansAgainstFlow(row.kind)
  BY <1>1, <1>2, <1>3, <1>4, <1>5, <1>6, <1>7, <1>9, AddEdgeKeeps
<1>10. CASE ~row.bidirectional /\ ~("foot" \in flags /\ AllowsPedestriansAgainstFlow(row.kind))
  BY <1>3, <1>4, <1>6, <1>7, <1>10
<1>. QED
  BY <1>8, <1>9, <1>10

LoadStep(x, g, rs, flags, speed, i) == IF rs[i].km > 0 THEN AddRow(x, rs[i], speed, flags[i]) ELSE x

LoadBody(f, g, rs, flags, speed, n) == [i \in 0 .. n |-> IF i = 0 THEN g ELSE LoadStep(f[i - 1], g, rs, flags, speed, i)]

LoadLoop(g, rs, flags, speed, n) == CHOOSE f : f = LoadBody(f, g, rs, flags, speed, n)

\* The loop of LoadRows.
LEMMA LoadRuns ==
    ASSUME NEW g, NEW rs, NEW flags, NEW speed, NEW n \in Nat, 0 <= n
    PROVE  LET f == LoadLoop(g, rs, flags, speed, n)
           IN  /\ f[0] = g
               /\ \A i \in 0 .. n : i > 0 => f[i] = LoadStep(f[i - 1], g, rs, flags, speed, i)
<1> DEFINE S == {k \in Nat : \E f : f = LoadBody(f, g, rs, flags, speed, k)}
<1>1. 0 \in S
  <2> DEFINE h == [i \in 0 .. 0 |-> g]
  <2>1. h = LoadBody(h, g, rs, flags, speed, 0)
    BY DEF LoadBody
  <2>. QED
    BY <2>1
<1>2. ASSUME NEW k \in 0 .. n, k > 0, k - 1 \in S PROVE k \in S
  <2>1. PICK was : was = LoadBody(was, g, rs, flags, speed, k - 1)
    BY <1>2
  <2> DEFINE h == [i \in 0 .. k |-> IF i = k THEN LoadStep(was[k - 1], g, rs, flags, speed, k) ELSE was[i]]
  <2>2. \A i \in 0 .. k - 1 : h[i] = was[i] /\ was[i] = IF i = 0 THEN g ELSE LoadStep(was[i - 1], g, rs, flags, speed, i)
    BY <2>1 DEF LoadBody
  <2>3. h[k] = LoadStep(was[k - 1], g, rs, flags, speed, k) /\ h[k - 1] = was[k - 1]
    BY <1>2
  <2>4. ASSUME NEW i \in 0 .. k PROVE h[i] = IF i = 0 THEN g ELSE LoadStep(h[i - 1], g, rs, flags, speed, i)
    <3> HIDE DEF h
    <3>1. CASE i = k
      BY <3>1, <1>2, <2>3
    <3>2. CASE i = 0
      BY <3>2, <1>2, <2>2
    <3>3. CASE i # k /\ i # 0
      <4>1. i \in 0 .. k - 1 /\ i - 1 \in 0 .. k - 1
        BY <3>3, <1>2
      <4>. QED
        BY <3>3, <4>1, <2>2
    <3>. QED
      BY <3>1, <3>2, <3>3
  <2>5. h = LoadBody(h, g, rs, flags, speed, k)
    BY <2>4 DEF LoadBody
  <2>6. k \in Nat
    OBVIOUS
  <2>. QED
    BY <2>5, <2>6
<1>3. n \in S
  <2> HIDE DEF S
  <2>. QED
    BY <1>1, <1>2, UpTo
<1> DEFINE f == LoadLoop(g, rs, flags, speed, n)
<1>4. f = LoadBody(f, g, rs, flags, speed, n)
  BY <1>3 DEF LoadLoop
<1> HIDE DEF f
<1>5. f[0] = g /\ \A i \in 0 .. n : i > 0 => f[i] = LoadStep(f[i - 1], g, rs, flags, speed, i)
  BY <1>4 DEF LoadBody
<1>. QED
  BY <1>5 DEF f

\* So do all rows of a table.
LEMMA LoadRowsKeeps ==
    ASSUME NEW A, NEW g \in GraphOver(A), NEW rs, NEW flags, NEW speed, NEW n \in Nat, Len(rs) = n,
           \A i \in 1 .. n : /\ rs[i].km > 0 => RowFits(A, rs[i], flags[i], speed)
                             /\ rs[i].bidirectional \in BOOLEAN
    PROVE  LoadRows(g, rs, flags, speed) \in GraphOver(A)
<1> DEFINE f == LoadLoop(g, rs, flags, speed, n)
<1>1. LoadRows(g, rs, flags, speed) = f[n]
  BY DEF LoadRows, LoadLoop, LoadBody, LoadStep
<1>2. f[0] = g /\ \A i \in 0 .. n : i > 0 => f[i] = LoadStep(f[i - 1], g, rs, flags, speed, i)
  BY LoadRuns
<1> HIDE DEF f
<1> DEFINE S == {i \in 0 .. n : f[i] \in GraphOver(A)}
<1>3. 0 \in S
  BY <1>2
<1>4. ASSUME NEW i \in 0 .. n, i > 0, i - 1 \in S PROVE i \in S
  <2>1. f[i - 1] \in GraphOver(A) /\ i \in 1 .. n
    BY <1>4
  <2>2. rs[i].km > 0 => AddRow(f[i - 1], rs[i], speed, flags[i]) \in GraphOver(A)
    BY <2>1, AddRowKeeps
  <2>. QED
    BY <1>2, <1>4, <2>1, <2>2 DEF LoadStep
<1>5. \A i \in 0 .. n : i \in S
  <2> HIDE DEF S
  <2>1. 0 \in Nat
    OBVIOUS
  <2>. QED
    BY <1>3, <1>4, <2>1, UpTo, Zenon
<1>. QED
  BY <1>1, <1>5

-----------------------------------------------------------------------------
(* The labels of one side of a search. *)

\* The parts of one side of a search over the nodes N with the links L, of
\* which <<x, at, e>> reaches x from at by edge e.
IsSide(side) ==
    side = [g |-> side.g, d |-> side.d, hop |-> side.hop, closed |-> side.closed, pq |-> side.pq]

Labelled(side, root, N) ==
    /\ DOMAIN side.g \subseteq N /\ DOMAIN side.d = DOMAIN side.g
    /\ \A x \in DOMAIN side.g : side.g[x] \in Nat /\ side.d[x] \in Nat
    /\ root \in DOMAIN side.g /\ side.g[root] = 0 /\ side.d[root] = 0
    /\ DOMAIN side.hop = DOMAIN side.g \ {root}
    /\ side.closed \subseteq DOMAIN side.g

HopTo(side, L, mode, x) ==
    LET at == side.hop[x].at
        e  == side.hop[x].edge
    IN  /\ at \in side.closed /\ <<x, at, e>> \in L
        /\ side.g[x] = side.g[at] + TravelTime(mode, e)
        /\ side.d[x] = side.d[at] + e.km

Hops(side, L, mode) == \A x \in DOMAIN side.hop : HopTo(side, L, mode, x)

Queue(side) ==
    /\ \A x \in DOMAIN side.g \ side.closed : <<x, side.g[x]>> \in side.pq
    /\ \A y \in side.pq : /\ y[1] \in DOMAIN side.g /\ y[2] \in Nat /\ side.g[y[1]] <= y[2]
                          /\ y = <<y[1], y[2]>>

Labels(side, root, N, L, mode) ==
    IsSide(side) /\ Labelled(side, root, N) /\ Hops(side, L, mode) /\ Queue(side)

\* Link <<x, at, e>> has been followed.
Covered(side, x, at, e, mode) ==
    /\ x \in DOMAIN side.g
    /\ x \in side.closed \/ side.g[x] <= side.g[at] + TravelTime(mode, e)

\* Later labels are no worse, and those of settled nodes the same.
Grows(s, t) ==
    /\ t.closed = s.closed
    /\ DOMAIN s.g \subseteq DOMAIN t.g
    /\ \A x \in DOMAIN s.g : t.g[x] <= s.g[x] /\ (x \in s.closed => t.g[x] = s.g[x])

AreLinks(L, N, mode) ==
    \A x, at, e : <<x, at, e>> \in L => /\ x \in N /\ e \in Edge /\ e.km \in Nat
                                        /\ TravelTime(mode, e) \in Nat \ {0}

\* A better label keeps one side well formed.
LEMMA ReachKeeps ==
    ASSUME NEW side, NEW root, NEW N, NEW L, NEW mode, Labels(side, root, N, L, mode), AreLinks(L, N, mode),
           NEW x, NEW at, NEW e, <<x, at, e>> \in L, at \in side.closed, x \notin side.closed,
           x \notin DOMAIN side.g \/ side.g[at] + TravelTime(mode, e) < side.g[x],
           NEW t, t = Reach(side, x, side.g[at] + TravelTime(mode, e), side.d[at] + e.km, at, e)
    PROVE  /\ Labels(t, root, N, L, mode) /\ Grows(side, t)
           /\ t.closed = side.closed
           /\ DOMAIN t.g = DOMAIN side.g \cup {x}
           /\ t.g[x] = side.g[at] + TravelTime(mode, e) /\ t.d[x] = side.d[at] + e.km
           /\ \A y \in DOMAIN side.g : y # x => t.g[y] = side.g[y] /\ t.d[y] = side.d[y]
<1> DEFINE time == side.g[at] + TravelTime(mode, e)
           km   == side.d[at] + e.km
<1>1. Labelled(side, root, N) /\ Hops(side, L, mode) /\ Queue(side)
  BY DEF Labels
<1>2. x \in N /\ e.km \in Nat /\ TravelTime(mode, e) \in Nat \ {0}
  BY DEF AreLinks
<1>3. at \in DOMAIN side.g /\ time \in Nat /\ km \in Nat /\ x # at
  BY <1>1, <1>2 DEF Labelled
<1>4. x # root
  BY <1>1, <1>2, <1>3 DEF Labelled
<1>5. /\ t.closed = side.closed /\ t.pq = side.pq \cup {<<x, time>>}
      /\ DOMAIN t.g = DOMAIN side.g \cup {x} /\ t.g[x] = time
      /\ DOMAIN t.d = DOMAIN side.d \cup {x} /\ t.d[x] = km
      /\ DOMAIN t.hop = DOMAIN side.hop \cup {x} /\ t.hop[x].at = at /\ t.hop[x].edge = e
      /\ \A y \in DOMAIN side.g : y # x => t.g[y] = side.g[y]
      /\ \A y \in DOMAIN side.d : y # x => t.d[y] = side.d[y]
      /\ \A y \in DOMAIN side.hop : y # x => t.hop[y] = side.hop[y]
      /\ IsSide(t)
  BY DEF Reach, Set, IsSide
<1> HIDE DEF time, km
<1>6. Labelled(t, root, N)
  <2>1. DOMAIN t.g \subseteq N /\ DOMAIN t.d = DOMAIN t.g
    BY <1>1, <1>2, <1>5 DEF Labelled
  <2>2. \A y \in DOMAIN t.g : t.g[y] \in Nat /\ t.d[y] \in Nat
    BY <1>1, <1>2, <1>3, <1>5 DEF Labelled
  <2>3. root \in DOMAIN t.g /\ t.g[root] = 0 /\ t.d[root] = 0
    BY <1>1, <1>4, <1>5 DEF Labelled
  <2>4. DOMAIN t.hop = DOMAIN t.g \ {root} /\ t.closed \subseteq DOMAIN t.g
    BY <1>1, <1>4, <1>5 DEF Labelled
  <2>. QED
    BY <2>1, <2>2, <2>3, <2>4 DEF Labelled
<1>7. ASSUME NEW y \in DOMAIN t.hop PROVE HopTo(t, L, mode, y)
  <2>1. CASE y = x
    <3>1. t.g[at] = side.g[at] /\ t.d[at] = side.d[at]
      BY <1>1, <1>3, <1>5 DEF Labelled
    <3>. QED
      BY <2>1, <3>1, <1>5, ZenonT(60) DEF HopTo, time, km
  <2>2. CASE y # x
    <3>1. HopTo(side, L, mode, y) /\ y \in DOMAIN side.g
      BY <2>2, <1>1, <1>5, <1>7 DEF Hops, Labelled
    <3>2. side.hop[y].at \in DOMAIN side.g /\ side.hop[y].at # x
      BY <3>1, <1>1 DEF HopTo, Labelled
    <3>3. t.hop[y] = side.hop[y] /\ t.g[y] = side.g[y] /\ t.d[y] = side.d[y]
      BY <2>2, <3>1, <1>1, <1>5, <1>7 DEF Labelled
    <3>4. t.g[side.hop[y].at] = side.g[side.hop[y].at] /\ t.d[side.hop[y].at] = side.d[side.hop[y].at]
      BY <3>2, <1>1, <1>5 DEF Labelled
    <3>. QED
      BY <3>1, <3>3, <3>4, <1>5, ZenonT(60) DEF HopTo
  <2>. QED
    BY <2>1, <2>2
<1>8. Queue(t)
  <2>1. ASSUME NEW y \in DOMAIN t.g \ t.closed PROVE <<y, t.g[y]>> \in t.pq
    BY <1>1, <1>5, <2>1 DEF Queue
  <2>2. ASSUME NEW y \in t.pq PROVE /\ y[1] \in DOMAIN t.g /\ y[2] \in Nat /\ t.g[y[1]] <= y[2]
                                    /\ y = <<y[1], y[2]>>
    <3>1. CASE y = <<x, time>>
      BY <3>1, <1>3, <1>5
    <3>2. CASE y \in side.pq
      <4>1. y[1] \in DOMAIN side.g /\ y[2] \in Nat /\ side.g[y[1]] <= y[2] /\ y = <<y[1], y[2]>>
        BY <3>2, <1>1 DEF Queue
      <4>2. t.g[y[1]] <= side.g[y[1]] /\ t.g[y[1]] \in Nat /\ side.g[y[1]] \in Nat
        BY <4>1, <1>1, <1>3, <1>5 DEF Labelled, time
      <4>. QED
        BY <4>1, <4>2, <1>5
    <3>. QED
      BY <3>1, <3>2, <1>5
  <2>. QED
    BY <2>1, <2>2 DEF Queue
<1>9. Grows(side, t)
  <2>1. ASSUME NEW y \in DOMAIN side.g PROVE t.g[y] <= side.g[y] /\ (y \in side.closed => t.g[y] = side.g[y])
    BY <1>1, <1>3, <1>5 DEF Labelled, time
  <2>. QED
    BY <2>1, <1>5 DEF Grows
<1>. QED
  BY <1>1, <1>5, <1>6, <1>7, <1>8, <1>9, ZenonT(60) DEF Labels, Hops, Labelled, time, km

-----------------------------------------------------------------------------
(* Two sides that meet. *)

\* The best meeting node of two sides.
Meets(s, o) == DOMAIN s.g \cap DOMAIN o.g

BestOK(b, s, o) ==
    /\ b.node = NoNode => Meets(s, o) = {}
    /\ b.node # NoNode => /\ b.node \in Meets(s, o)
                          /\ b.time = s.g[b.node] + o.g[b.node] /\ b.km = s.d[b.node] + o.d[b.node]
                          /\ \A y \in Meets(s, o) : b.time <= s.g[y] + o.g[y]

AreLabels(s) == \A x \in DOMAIN s.g : x \in Nodes /\ s.g[x] \in Nat /\ s.d[x] \in Nat

\* The best meeting is the same seen from either side.
LEMMA BestIsSymmetric ==
    ASSUME NEW b, NEW s, NEW o, AreLabels(s), AreLabels(o), BestOK(b, s, o)
    PROVE  BestOK(b, o, s)
BY DEF BestOK, Meets, AreLabels

\* Meeting at a node that has just got a better label.
LEMMA TryMeetKeeps ==
    ASSUME NEW b, NEW s, NEW t, NEW o, AreLabels(s), AreLabels(t), AreLabels(o), BestOK(b, s, o), NEW x,
           DOMAIN t.g = DOMAIN s.g \cup {x}, x \notin DOMAIN s.g \/ t.g[x] < s.g[x],
           \A y \in DOMAIN s.g : y # x => t.g[y] = s.g[y] /\ t.d[y] = s.d[y]
    PROVE  BestOK(TryMeet(b, x, t.g[x], t.d[x], o), t, o)
<1> DEFINE m == TryMeet(b, x, t.g[x], t.d[x], o)
<1>a. \A y \in DOMAIN t.g : t.g[y] \in Nat /\ t.d[y] \in Nat /\ y # NoNode
  BY NodesAreFinite DEF AreLabels
<1>b. \A y \in DOMAIN o.g : o.g[y] \in Nat /\ o.d[y] \in Nat
  BY DEF AreLabels
<1>c. \A y \in DOMAIN s.g : s.g[y] \in Nat
  BY DEF AreLabels
<1>1. CASE x \notin DOMAIN o.g
  <2>1. m = b /\ Meets(t, o) = Meets(s, o) /\ x \notin Meets(s, o)
    BY <1>1 DEF TryMeet, Meets
  <2>2. \A y \in Meets(s, o) : y # x /\ t.g[y] = s.g[y] /\ t.d[y] = s.d[y]
    BY <1>1 DEF Meets
  <2>. QED
    BY <2>1, <2>2 DEF BestOK
<1>2. CASE x \in DOMAIN o.g /\ (b.node = NoNode \/ t.g[x] + o.g[x] < b.time)
  <2>1. m.time = t.g[x] + o.g[x] /\ m.km = t.d[x] + o.d[x] /\ m.node = x
    BY <1>2 DEF TryMeet
  <2>2. x \in Meets(t, o) /\ x # NoNode
    BY <1>a, <1>2 DEF Meets
  <2>3. ASSUME NEW y \in Meets(t, o) PROVE m.time <= t.g[y] + o.g[y]
    <3>1. CASE y = x
      BY <3>1, <2>1, <1>a, <1>b, <1>2, <2>2
    <3>2. CASE y # x
      <4>1. y \in Meets(s, o) /\ t.g[y] = s.g[y]
        BY <3>2 DEF Meets
      <4>2. b.node # NoNode /\ b.time <= s.g[y] + o.g[y]
        BY <4>1 DEF BestOK
      <4>3. b.time \in Nat
        BY <4>2, <1>c, <1>b DEF BestOK, Meets
      <4>4. s.g[y] \in Nat /\ o.g[y] \in Nat /\ t.g[x] \in Nat /\ o.g[x] \in Nat
        BY <4>1, <1>a, <1>b, <1>c, <1>2, <2>2 DEF Meets
      <4>. QED
        BY <4>1, <4>2, <4>3, <4>4, <2>1, <1>2
    <3>. QED
      BY <3>1, <3>2
  <2> HIDE DEF m
  <2>4. BestOK(m, t, o)
    BY <2>1, <2>2, <2>3 DEF BestOK
  <2>. QED
    BY <2>4 DEF m
<1>3. CASE x \in DOMAIN o.g /\ ~(b.node = NoNode \/ t.g[x] + o.g[x] < b.time)
  <2>1. m = b
    BY <1>3 DEF TryMeet
  <2>2. /\ b.node \in Meets(s, o) /\ b.time = s.g[b.node] + o.g[b.node] /\ b.km = s.d[b.node] + o.d[b.node]
        /\ \A y \in Meets(s, o) : b.time <= s.g[y] + o.g[y]
    BY <1>3 DEF BestOK
  <2>3. b.time \in Nat
    BY <2>2, <1>c, <1>b DEF Meets
  <2>4. b.node # x
    BY <2>2, <2>3, <1>a, <1>b, <1>c, <1>3 DEF Meets
  <2>5. b.node \in Meets(t, o) /\ b.time = t.g[b.node] + o.g[b.node] /\ b.km = t.d[b.node] + o.d[b.node]
    BY <2>2, <2>4 DEF Meets
  <2>6. ASSUME NEW y \in Meets(t, o) PROVE b.time <= t.g[y] + o.g[y]
    <3>1. CASE y = x
      BY <3>1, <1>3, <2>3, <1>a, <1>b DEF Meets
    <3>2. CASE y # x
      BY <3>2, <2>2 DEF Meets
    <3>. QED
      BY <3>1, <3>2
  <2>. QED
    BY <1>3, <2>1, <2>5, <2>6 DEF BestOK
<1>. QED
  BY <1>1, <1>2, <1>3

\* Labels are numbers of nodes.
LEMMA LabelsAreLabels ==
    ASSUME NEW side, NEW root, NEW N \in SUBSET Nodes, NEW L, NEW mode, Labels(side, root, N, L, mode)
    PROVE  AreLabels(side)
BY DEF Labels, Labelled, AreLabels

\* What the turns of the loops over the edges at a settled node keep.
RelaxOK(acc, root, N, L, mode, other) ==
    Labels(acc.side, root, N, L, mode) /\ BestOK(acc.best, acc.side, other)

\* The nodes the running search may enter.
Free == G.nodes \ blocked.nodes

\* One turn of the loops over the edges at a settled node.
LEMMA RelaxKeeps ==
    ASSUME NEW acc, NEW root, NEW L, NEW other, Free \in SUBSET Nodes, AreLabels(other),
           RelaxOK(acc, root, Free, L, query.mode, other), AreLinks(L, Free, query.mode),
           NEW cur, cur \in acc.side.closed, NEW x, NEW e, x \in Free => <<x, cur, e>> \in L,
           NEW new, new = Relax(cur, acc, x, e, other)
    PROVE  /\ RelaxOK(new, root, Free, L, query.mode, other)
           /\ Grows(acc.side, new.side)
           /\ x \in Free => Covered(new.side, x, cur, e, query.mode)
<1> DEFINE time == acc.side.g[cur] + TravelTime(query.mode, e)
           km   == acc.side.d[cur] + e.km
           s    == acc.side
           t    == Reach(s, x, time, km, cur, e)
<1>1. Labels(s, root, Free, L, query.mode) /\ BestOK(acc.best, s, other)
  BY DEF RelaxOK
<1>2. AreLabels(s) /\ cur \in DOMAIN s.g /\ s.closed \subseteq DOMAIN s.g
  BY <1>1, LabelsAreLabels DEF Labels, Labelled
<1>3. s.g[cur] \in Nat
  BY <1>2 DEF AreLabels
<1>4. CASE x \notin s.closed /\ x \in Free /\ Better(s, x, time)
  <2>1. new.side = t /\ new.best = TryMeet(acc.best, x, time, km, other)
    BY <1>4 DEF Relax, Free
  <2>2. <<x, cur, e>> \in L /\ TravelTime(query.mode, e) \in Nat
    BY <1>4 DEF AreLinks
  <2>3. x \notin DOMAIN s.g \/ time < s.g[x]
    BY <1>4 DEF Better
  <2> HIDE DEF t
  <2>4. /\ Labels(t, root, Free, L, query.mode) /\ Grows(s, t)
        /\ DOMAIN t.g = DOMAIN s.g \cup {x} /\ t.g[x] = time /\ t.d[x] = km
        /\ \A y \in DOMAIN s.g : y # x => t.g[y] = s.g[y] /\ t.d[y] = s.d[y]
    BY <1>1, <1>4, <2>2, <2>3, ReachKeeps DEF t
  <2>5. AreLabels(t)
    BY <2>4, LabelsAreLabels
  <2>6. BestOK(TryMeet(acc.best, x, t.g[x], t.d[x], other), t, other)
    BY <1>1, <1>2, <2>3, <2>4, <2>5, TryMeetKeeps
  <2>7. Covered(t, x, cur, e, query.mode)
    <3>1. t.g[cur] = s.g[cur]
      BY <1>2, <2>4 DEF Grows
    <3>2. t.g[x] <= t.g[cur] + TravelTime(query.mode, e)
      BY <3>1, <2>4, <2>2, <1>3
    <3>. QED
      BY <2>4, <3>2 DEF Covered
  <2>. QED
    BY <2>1, <2>4, <2>6, <2>7 DEF RelaxOK
<1>5. CASE ~(x \notin s.closed /\ x \in Free /\ Better(s, x, time))
  <2>1. new = acc
    BY <1>5 DEF Relax, Free
  <2>2. Grows(s, s)
    BY <1>2 DEF Grows, AreLabels
  <2>3. ASSUME x \in Free PROVE Covered(s, x, cur, e, query.mode)
    <3>1. x \in s.closed \/ (x \in DOMAIN s.g /\ ~(time < s.g[x]))
      BY <1>5, <2>3 DEF Better
    <3>2. TravelTime(query.mode, e) \in Nat
      BY <2>3 DEF AreLinks
    <3>. QED
      BY <3>1, <3>2, <1>2, <1>3 DEF Covered, AreLabels
  <2>. QED
    BY <2>1, <2>2, <2>3
<1>. QED
  BY <1>4, <1>5

-----------------------------------------------------------------------------
(* The links a search follows. *)

\* The links the two directions of the running search may follow: x is
\* reached from at, along an edge forward and against it backward.
ForwardLinks ==
    {l \in Free \X G.nodes \X Edge : /\ l[3] \in Range(G.edges[l[2]]) /\ l[3].to = l[1]
                                     /\ Open(l[2], l[3])}

BackwardLinks ==
    {l \in Free \X G.nodes \X Edge : /\ l[3] \in Range(G.edges[l[1]]) /\ l[3].to = l[2]
                                     /\ Open(l[1], l[3])}

\* The running search is one on a graph, by a mode of the profiles.
SearchTypes ==
    /\ query.mode \in Modes /\ query.heuristic \in BOOLEAN
    /\ G \in GraphOver(Nodes \X Edge)
    /\ query.start \in G.nodes /\ query.goal \in G.nodes

\* The parts of the graph that is searched.
LEMMA FreeNodes ==
    ASSUME SearchTypes
    PROVE  /\ Free \in SUBSET Nodes /\ G.nodes \subseteq Nodes /\ Free \subseteq G.nodes
           /\ \A n \in Nodes : /\ G.edges[n] \in Seq(Edge) /\ G.rev[n] \in Seq(Nodes)
                               /\ \A e \in Range(G.edges[n]) :
                                    e \in Edge /\ n \in G.nodes /\ e.to \in G.nodes /\ n \in Range(G.rev[e.to])
<1>1. G \in Graph
  BY DEF SearchTypes, GraphOver
<1>2. \A n \in Nodes : G.edges[n] \in Seq(Edge) /\ G.rev[n] \in Seq(Nodes)
  BY <1>1 DEF Graph
<1>3. G.nodes \subseteq Nodes
  BY <1>1 DEF Graph
<1>4. ASSUME NEW n \in Nodes, NEW e \in Range(G.edges[n])
      PROVE  e \in Edge /\ n \in G.nodes /\ e.to \in G.nodes /\ n \in Range(G.rev[e.to])
  <2>1. PICK i \in DOMAIN G.edges[n] : e = G.edges[n][i]
    BY DEF Range
  <2>2. Listed(G, Nodes \X Edge, n, e)
    BY <2>1 DEF SearchTypes, GraphOver
  <2>. QED
    BY <2>2 DEF Listed
<1>. QED
  BY <1>2, <1>3, <1>4 DEF Free

\* Links are edges that take time.
LEMMA TheLinks ==
    ASSUME SearchTypes
    PROVE  AreLinks(ForwardLinks, Free, query.mode) /\ AreLinks(BackwardLinks, Free, query.mode)
<1>1. \A x, at, e : <<x, at, e>> \in ForwardLinks \cup BackwardLinks => x \in Free /\ e \in Edge
  BY DEF ForwardLinks, BackwardLinks
<1>2. \A e \in Edge : e.km \in Nat /\ TravelTime(query.mode, e) \in Nat \ {0}
  BY TravelTimeIsPositive DEF SearchTypes, Edge
<1>. QED
  BY <1>1, <1>2 DEF AreLinks

\* What is settled stays so, and links once followed stay followed.
LEMMA GrowsOn ==
    ASSUME NEW r, NEW s, NEW t, AreLabels(r), AreLabels(s), AreLabels(t), Grows(r, s), Grows(s, t),
           r.closed \subseteq DOMAIN r.g
    PROVE  /\ Grows(r, t)
           /\ \A x, at, e, mode :
                Covered(s, x, at, e, mode) /\ at \in r.closed /\ TravelTime(mode, e) \in Nat
                  => Covered(t, x, at, e, mode)
<1>1. Grows(r, t)
  BY DEF Grows, AreLabels
<1>2. ASSUME NEW x, NEW at, NEW e, NEW mode, Covered(s, x, at, e, mode), at \in r.closed,
             TravelTime(mode, e) \in Nat
      PROVE  Covered(t, x, at, e, mode)
  <2>1. x \in DOMAIN t.g /\ t.g[x] <= s.g[x] /\ t.g[x] \in Nat /\ s.g[x] \in Nat
    BY <1>2 DEF Grows, Covered, AreLabels
  <2>2. t.g[at] = s.g[at] /\ s.g[at] \in Nat
    BY <1>2 DEF Grows, AreLabels
  <2>3. x \in s.closed => x \in t.closed
    BY DEF Grows
  <2>. QED
    BY <2>1, <2>2, <2>3, <1>2 DEF Covered
<1>. QED
  BY <1>1, <1>2

RelaxesStep(x, cur, acc, es, i) == RelaxEdge(cur, x, es[i])

RelaxesBody(f, cur, acc, es, n) == [i \in 0 .. n |-> IF i = 0 THEN acc ELSE RelaxesStep(f[i - 1], cur, acc, es, i)]

RelaxesLoop(cur, acc, es, n) == CHOOSE f : f = RelaxesBody(f, cur, acc, es, n)

\* The loop of RelaxEdges.
LEMMA RelaxesRuns ==
    ASSUME NEW cur, NEW acc, NEW es, NEW n \in Nat, 0 <= n
    PROVE  LET f == RelaxesLoop(cur, acc, es, n)
           IN  /\ f[0] = acc
               /\ \A i \in 0 .. n : i > 0 => f[i] = RelaxesStep(f[i - 1], cur, acc, es, i)
<1> DEFINE S == {k \in Nat : \E f : f = RelaxesBody(f, cur, acc, es, k)}
<1>1. 0 \in S
  <2> DEFINE h == [i \in 0 .. 0 |-> acc]
  <2>1. h = RelaxesBody(h, cur, acc, es, 0)
    BY DEF RelaxesBody
  <2>. QED
    BY <2>1
<1>2. ASSUME NEW k \in 0 .. n, k > 0, k - 1 \in S PROVE k \in S
  <2>1. PICK was : was = RelaxesBody(was, cur, acc, es, k - 1)
    BY <1>2
  <2> DEFINE h == [i \in 0 .. k |-> IF i = k THEN RelaxesStep(was[k - 1], cur, acc, es, k) ELSE was[i]]
  <2>2. \A i \in 0 .. k - 1 : h[i] = was[i] /\ was[i] = IF i = 0 THEN acc ELSE RelaxesStep(was[i - 1], cur, acc, es, i)
    BY <2>1 DEF RelaxesBody
  <2>3. h[k] = RelaxesStep(was[k - 1], cur, acc, es, k) /\ h[k - 1] = was[k - 1]
    BY <1>2
  <2>4. ASSUME NEW i \in 0 .. k PROVE h[i] = IF i = 0 THEN acc ELSE RelaxesStep(h[i - 1], cur, acc, es, i)
    <3> HIDE DEF h
    <3>1. CASE i = k
      BY <3>1, <1>2, <2>3
    <3>2. CASE i = 0
      BY <3>2, <1>2, <2>2
    <3>3. CASE i # k /\ i # 0
      <4>1. i \in 0 .. k - 1 /\ i - 1 \in 0 .. k - 1
        BY <3>3, <1>2
      <4>. QED
        BY <3>3, <4>1, <2>2
    <3>. QED
      BY <3>1, <3>2, <3>3
  <2>5. h = RelaxesBody(h, cur, acc, es, k)
    BY <2>4 DEF RelaxesBody
  <2>6. k \in Nat
    OBVIOUS
  <2>. QED
    BY <2>5, <2>6
<1>3. n \in S
  <2> HIDE DEF S
  <2>. QED
    BY <1>1, <1>2, UpTo
<1> DEFINE f == RelaxesLoop(cur, acc, es, n)
<1>4. f = RelaxesBody(f, cur, acc, es, n)
  BY <1>3 DEF RelaxesLoop
<1> HIDE DEF f
<1>5. f[0] = acc /\ \A i \in 0 .. n : i > 0 => f[i] = RelaxesStep(f[i - 1], cur, acc, es, i)
  BY <1>4 DEF RelaxesBody
<1>. QED
  BY <1>5 DEF f

\* The forward search follows every link from a node it settles.
LEMMA RelaxEdgesKeep ==
    ASSUME SearchTypes, NEW acc, NEW root, RelaxOK(acc, root, Free, ForwardLinks, query.mode, bwd),
           AreLabels(bwd), NEW cur \in acc.side.closed, NEW new, new = RelaxEdges(cur, acc)
    PROVE  /\ RelaxOK(new, root, Free, ForwardLinks, query.mode, bwd)
           /\ Grows(acc.side, new.side)
           /\ \A x, e : <<x, cur, e>> \in ForwardLinks => Covered(new.side, x, cur, e, query.mode)
<1> DEFINE es == G.edges[cur]
           n == Len(es)
           f == RelaxesLoop(cur, acc, es, n)
           Done(y, j) == <<es[j].to, cur, es[j]>> \in ForwardLinks => Covered(y, es[j].to, cur, es[j], query.mode)
           Good(y, i) == /\ RelaxOK(y, root, Free, ForwardLinks, query.mode, bwd)
                         /\ Grows(acc.side, y.side)
                         /\ \A j \in 1 .. i : Done(y.side, j)
           S == {i \in 0 .. n : Good(f[i], i)}
<1>1. /\ AreLinks(ForwardLinks, Free, query.mode) /\ Free \in SUBSET Nodes
      /\ AreLabels(acc.side) /\ cur \in DOMAIN acc.side.g /\ acc.side.closed \subseteq DOMAIN acc.side.g
      /\ cur \in Nodes
  <2>1. AreLinks(ForwardLinks, Free, query.mode) /\ Free \in SUBSET Nodes
    BY TheLinks, FreeNodes
  <2>2. AreLabels(acc.side) /\ cur \in DOMAIN acc.side.g /\ acc.side.closed \subseteq DOMAIN acc.side.g
    BY <2>1, LabelsAreLabels DEF RelaxOK, Labels, Labelled
  <2>. QED
    BY <2>1, <2>2 DEF AreLabels
<1>2. n \in Nat /\ \A j \in 1 .. n : es[j] \in Range(es)
  <2>1. es \in Seq(Edge)
    BY <1>1, FreeNodes
  <2>. QED
    BY <2>1 DEF Range
<1>3. new = f[n]
  BY DEF RelaxEdges, RelaxesLoop, RelaxesBody, RelaxesStep
<1>4. f[0] = acc /\ \A i \in 0 .. n : i > 0 => f[i] = RelaxesStep(f[i - 1], cur, acc, es, i)
  BY <1>2, RelaxesRuns
<1> HIDE DEF f, n
<1>5. 0 \in S
  <2>1. Grows(acc.side, acc.side)
    BY <1>1 DEF Grows, AreLabels
  <2>. QED
    BY <1>2, <1>4, <2>1
<1>6. ASSUME NEW i \in 0 .. n, i > 0, i - 1 \in S PROVE i \in S
  <2>0. i \in 1 .. n /\ es[i] \in Range(es)
    BY <1>2, <1>6
  <2>1. f[i] = RelaxEdge(cur, f[i - 1], es[i]) /\ Good(f[i - 1], i - 1)
    BY <1>4, <1>6 DEF RelaxesStep
  <2> HIDE DEF es
  <2>2. cur \in f[i - 1].side.closed
    BY <2>1 DEF Grows
  <2>3. CASE ~Open(cur, es[i])
    <3>1. f[i] = f[i - 1]
      BY <2>1, <2>3 DEF RelaxEdge
    <3>2. <<es[i].to, cur, es[i]>> \notin ForwardLinks
      BY <2>3 DEF ForwardLinks
    <3>3. \A j \in 1 .. i : j \in 1 .. i - 1 \/ j = i
      BY <1>6
    <3>. QED
      BY <1>6, <2>1, <3>1, <3>2, <3>3
  <2>4. CASE Open(cur, es[i])
    <3>1. f[i] = Relax(cur, f[i - 1], es[i].to, es[i], bwd)
      BY <2>1, <2>4 DEF RelaxEdge
    <3>2. es[i].to \in Free => <<es[i].to, cur, es[i]>> \in ForwardLinks
      <4>1. es[i] \in Edge /\ cur \in G.nodes
        BY <1>1, <2>0, FreeNodes DEF es
      <4>. QED
        BY <2>0, <2>4, <4>1 DEF ForwardLinks, es
    <3>3. /\ RelaxOK(f[i], root, Free, ForwardLinks, query.mode, bwd)
          /\ Grows(f[i - 1].side, f[i].side)
          /\ es[i].to \in Free => Covered(f[i].side, es[i].to, cur, es[i], query.mode)
      BY <1>1, <2>1, <2>2, <3>1, <3>2, RelaxKeeps
    <3>4. Done(f[i].side, i)
      BY <3>3 DEF ForwardLinks
    <3>5. AreLabels(f[i - 1].side) /\ AreLabels(f[i].side)
      BY <1>1, <2>1, <3>3, LabelsAreLabels DEF RelaxOK
    <3>6. /\ Grows(acc.side, f[i].side)
          /\ \A x, e : Covered(f[i - 1].side, x, cur, e, query.mode) /\ TravelTime(query.mode, e) \in Nat
                         => Covered(f[i].side, x, cur, e, query.mode)
      BY <1>1, <2>1, <3>3, <3>5, GrowsOn
    <3>7. ASSUME NEW j \in 1 .. i PROVE Done(f[i].side, j)
      <4>1. CASE j = i
        BY <3>4, <4>1
      <4>2. CASE j # i
        <5>1. j \in 1 .. i - 1
          BY <1>6, <4>2
        <5>2. Done(f[i - 1].side, j)
          BY <2>1, <5>1
        <5>. QED
          BY <5>2, <3>6, <1>1 DEF AreLinks
      <4>. QED
        BY <4>1, <4>2
    <3>. QED
      BY <1>6, <3>3, <3>6, <3>7
  <2>. QED
    BY <2>3, <2>4
<1>7. n \in S
  <2> HIDE DEF S
  <2>. QED
    BY <1>2, <1>5, <1>6, UpTo
<1>8. ASSUME NEW x, NEW e, <<x, cur, e>> \in ForwardLinks PROVE Covered(new.side, x, cur, e, query.mode)
  <2>1. x = e.to /\ e \in Range(es)
    BY <1>8 DEF ForwardLinks
  <2>2. PICK j \in 1 .. n : e = es[j]
    <3>1. DOMAIN es = 1 .. n
      BY <1>1, FreeNodes DEF n
    <3>. QED
      BY <2>1, <3>1 DEF Range
  <2>. QED
    BY <1>3, <1>7, <1>8, <2>1, <2>2
<1>. QED
  BY <1>3, <1>7, <1>8

\* The edge FastestEdge chooses.
LEMMA FastestExists ==
    ASSUME SearchTypes, NEW at \in Nodes, NEW cur, OpenEdges(at, cur) # {}
    PROVE  \E k \in OpenEdges(at, cur) :
             /\ FastestEdge(at, cur) = G.edges[at][k]
             /\ \A j \in OpenEdges(at, cur) :
                  TravelTime(query.mode, FastestEdge(at, cur)) <= TravelTime(query.mode, G.edges[at][j])
<1> DEFINE O == OpenEdges(at, cur)
           time(i) == TravelTime(query.mode, G.edges[at][i])
           Best(i) == \A j \in O : time(i) < time(j) \/ (time(i) = time(j) /\ i <= j)
<1>1. \A i \in O : i \in Nat /\ time(i) \in Nat
  <2>1. G.edges[at] \in Seq(Edge)
    BY FreeNodes
  <2>2. \A i \in DOMAIN G.edges[at] : i \in Nat /\ G.edges[at][i] \in Edge
    BY <2>1
  <2>. QED
    BY <2>2, TravelTimeIsPositive DEF OpenEdges, SearchTypes
<1> HIDE DEF O
<1>2. PICK t \in {time(i) : i \in O} : \A y \in {time(i) : i \in O} : t <= y
  <2>1. {time(i) : i \in O} \in SUBSET Nat /\ {time(i) : i \in O} # {}
    BY <1>1 DEF O
  <2>. QED
    BY <2>1, Smallest
<1>3. PICK i \in {j \in O : time(j) = t} : \A j \in {j \in O : time(j) = t} : i <= j
  <2>1. {j \in O : time(j) = t} \in SUBSET Nat /\ {j \in O : time(j) = t} # {}
    BY <1>1, <1>2
  <2>. QED
    BY <2>1, Smallest
<1>4. Best(i)
  BY <1>1, <1>2, <1>3
<1> DEFINE k == CHOOSE k \in O : Best(k)
<1>5. k \in O /\ Best(k)
  BY <1>3, <1>4
<1>6. FastestEdge(at, cur) = G.edges[at][k]
  BY DEF FastestEdge, O
<1> HIDE DEF k
<1>. QED
  BY <1>1, <1>5, <1>6 DEF O

ReversesStep(x, cur, acc, ns, i) == RelaxReverse(cur, x, ns[i])

ReversesBody(f, cur, acc, ns, n) == [i \in 0 .. n |-> IF i = 0 THEN acc ELSE ReversesStep(f[i - 1], cur, acc, ns, i)]

ReversesLoop(cur, acc, ns, n) == CHOOSE f : f = ReversesBody(f, cur, acc, ns, n)

\* The loop of RelaxReverses.
LEMMA ReversesRuns ==
    ASSUME NEW cur, NEW acc, NEW ns, NEW n \in Nat, 0 <= n
    PROVE  LET f == ReversesLoop(cur, acc, ns, n)
           IN  /\ f[0] = acc
               /\ \A i \in 0 .. n : i > 0 => f[i] = ReversesStep(f[i - 1], cur, acc, ns, i)
<1> DEFINE S == {k \in Nat : \E f : f = ReversesBody(f, cur, acc, ns, k)}
<1>1. 0 \in S
  <2> DEFINE h == [i \in 0 .. 0 |-> acc]
  <2>1. h = ReversesBody(h, cur, acc, ns, 0)
    BY DEF ReversesBody
  <2>. QED
    BY <2>1
<1>2. ASSUME NEW k \in 0 .. n, k > 0, k - 1 \in S PROVE k \in S
  <2>1. PICK was : was = ReversesBody(was, cur, acc, ns, k - 1)
    BY <1>2
  <2> DEFINE h == [i \in 0 .. k |-> IF i = k THEN ReversesStep(was[k - 1], cur, acc, ns, k) ELSE was[i]]
  <2>2. \A i \in 0 .. k - 1 : h[i] = was[i] /\ was[i] = IF i = 0 THEN acc ELSE ReversesStep(was[i - 1], cur, acc, ns, i)
    BY <2>1 DEF ReversesBody
  <2>3. h[k] = ReversesStep(was[k - 1], cur, acc, ns, k) /\ h[k - 1] = was[k - 1]
    BY <1>2
  <2>4. ASSUME NEW i \in 0 .. k PROVE h[i] = IF i = 0 THEN acc ELSE ReversesStep(h[i - 1], cur, acc, ns, i)
    <3> HIDE DEF h
    <3>1. CASE i = k
      BY <3>1, <1>2, <2>3
    <3>2. CASE i = 0
      BY <3>2, <1>2, <2>2
    <3>3. CASE i # k /\ i # 0
      <4>1. i \in 0 .. k - 1 /\ i - 1 \in 0 .. k - 1
        BY <3>3, <1>2
      <4>. QED
        BY <3>3, <4>1, <2>2
    <3>. QED
      BY <3>1, <3>2, <3>3
  <2>5. h = ReversesBody(h, cur, acc, ns, k)
    BY <2>4 DEF ReversesBody
  <2>6. k \in Nat
    OBVIOUS
  <2>. QED
    BY <2>5, <2>6
<1>3. n \in S
  <2> HIDE DEF S
  <2>. QED
    BY <1>1, <1>2, UpTo
<1> DEFINE f == ReversesLoop(cur, acc, ns, n)
<1>4. f = ReversesBody(f, cur, acc, ns, n)
  BY <1>3 DEF ReversesLoop
<1> HIDE DEF f
<1>5. f[0] = acc /\ \A i \in 0 .. n : i > 0 => f[i] = ReversesStep(f[i - 1], cur, acc, ns, i)
  BY <1>4 DEF ReversesBody
<1>. QED
  BY <1>5 DEF f

\* So does the backward search, of parallel edges by the fastest.
LEMMA RelaxReversesKeep ==
    ASSUME SearchTypes, NEW acc, NEW root, RelaxOK(acc, root, Free, BackwardLinks, query.mode, fwd),
           AreLabels(fwd), NEW cur \in acc.side.closed, NEW new, new = RelaxReverses(cur, acc)
    PROVE  /\ RelaxOK(new, root, Free, BackwardLinks, query.mode, fwd)
           /\ Grows(acc.side, new.side)
           /\ \A x, e : <<x, cur, e>> \in BackwardLinks => Covered(new.side, x, cur, e, query.mode)
<1> DEFINE es == G.rev[cur]
           n == Len(es)
           f == ReversesLoop(cur, acc, es, n)
           Done(y, j) == \A e : <<es[j], cur, e>> \in BackwardLinks => Covered(y, es[j], cur, e, query.mode)
           Good(y, i) == /\ RelaxOK(y, root, Free, BackwardLinks, query.mode, fwd)
                         /\ Grows(acc.side, y.side)
                         /\ \A j \in 1 .. i : Done(y.side, j)
           S == {i \in 0 .. n : Good(f[i], i)}
<1>1. /\ AreLinks(BackwardLinks, Free, query.mode) /\ Free \in SUBSET Nodes
      /\ AreLabels(acc.side) /\ cur \in DOMAIN acc.side.g /\ acc.side.closed \subseteq DOMAIN acc.side.g
      /\ cur \in Nodes
  <2>1. AreLinks(BackwardLinks, Free, query.mode) /\ Free \in SUBSET Nodes
    BY TheLinks, FreeNodes
  <2>2. AreLabels(acc.side) /\ cur \in DOMAIN acc.side.g /\ acc.side.closed \subseteq DOMAIN acc.side.g
    BY <2>1, LabelsAreLabels DEF RelaxOK, Labels, Labelled
  <2>. QED
    BY <2>1, <2>2 DEF AreLabels
<1>2. n \in Nat /\ \A j \in 1 .. n : es[j] \in Range(es)
  <2>1. es \in Seq(Nodes)
    BY <1>1, FreeNodes
  <2>. QED
    BY <2>1 DEF Range
<1>3. new = f[n]
  BY DEF RelaxReverses, ReversesLoop, ReversesBody, ReversesStep
<1>4. f[0] = acc /\ \A i \in 0 .. n : i > 0 => f[i] = ReversesStep(f[i - 1], cur, acc, es, i)
  BY <1>2, ReversesRuns
<1> HIDE DEF f, n
<1>5. 0 \in S
  <2>1. Grows(acc.side, acc.side)
    BY <1>1 DEF Grows, AreLabels
  <2>. QED
    BY <1>2, <1>4, <2>1
<1>6. ASSUME NEW i \in 0 .. n, i > 0, i - 1 \in S PROVE i \in S
  <2>0. i \in 1 .. n /\ es[i] \in Range(es)
    BY <1>2, <1>6
  <2>1. f[i] = RelaxReverse(cur, f[i - 1], es[i]) /\ Good(f[i - 1], i - 1)
    BY <1>4, <1>6 DEF ReversesStep
  <2> HIDE DEF es
  <2>2. cur \in f[i - 1].side.closed
    BY <2>1 DEF Grows
  <2>3. CASE OpenEdges(es[i], cur) = {}
    <3>1. f[i] = f[i - 1]
      BY <2>1, <2>3 DEF RelaxReverse
    <3>2. \A e : <<es[i], cur, e>> \notin BackwardLinks
      BY <2>3 DEF BackwardLinks, OpenEdges, Range
    <3>3. \A j \in 1 .. i : j \in 1 .. i - 1 \/ j = i
      BY <1>6
    <3>. QED
      BY <1>6, <2>1, <3>1, <3>2, <3>3
  <2>4. CASE OpenEdges(es[i], cur) # {}
    <3> DEFINE best0 == FastestEdge(es[i], cur)
    <3>1. f[i] = Relax(cur, f[i - 1], es[i], best0, fwd)
      BY <2>1, <2>4 DEF RelaxReverse
    <3>a. es[i] \in Nodes
      BY <1>1, <2>0, FreeNodes DEF es, Range
    <3>b. PICK k \in OpenEdges(es[i], cur) :
            /\ best0 = G.edges[es[i]][k]
            /\ \A j \in OpenEdges(es[i], cur) :
                  TravelTime(query.mode, best0) <= TravelTime(query.mode, G.edges[es[i]][j])
      BY <2>4, <3>a, FastestExists
    <3> HIDE DEF best0
    <3>c. best0 \in Range(G.edges[es[i]]) /\ best0.to = cur /\ Open(es[i], best0)
      BY <3>b DEF OpenEdges, Range
    <3>2. es[i] \in Free => <<es[i], cur, best0>> \in BackwardLinks
      <4>1. best0 \in Edge /\ cur \in G.nodes
        BY <3>a, <3>c, FreeNodes
      <4>. QED
        BY <3>c, <4>1 DEF BackwardLinks
    <3>3. /\ RelaxOK(f[i], root, Free, BackwardLinks, query.mode, fwd)
          /\ Grows(f[i - 1].side, f[i].side)
          /\ es[i] \in Free => Covered(f[i].side, es[i], cur, best0, query.mode)
      BY <1>1, <2>1, <2>2, <3>1, <3>2, RelaxKeeps
    <3>5. AreLabels(f[i - 1].side) /\ AreLabels(f[i].side)
      BY <1>1, <2>1, <3>3, LabelsAreLabels DEF RelaxOK
    <3>6. /\ Grows(acc.side, f[i].side)
          /\ \A x, e : Covered(f[i - 1].side, x, cur, e, query.mode) /\ TravelTime(query.mode, e) \in Nat
                         => Covered(f[i].side, x, cur, e, query.mode)
      BY <1>1, <2>1, <3>3, <3>5, GrowsOn
    <3>4. ASSUME NEW e, <<es[i], cur, e>> \in BackwardLinks PROVE Covered(f[i].side, es[i], cur, e, query.mode)
      <4>1. PICK j \in OpenEdges(es[i], cur) : e = G.edges[es[i]][j]
        BY <3>4 DEF BackwardLinks, OpenEdges, Range
      <4>2. TravelTime(query.mode, best0) <= TravelTime(query.mode, e)
        BY <3>b, <4>1
      <4>3. es[i] \in Free
        BY <3>4 DEF BackwardLinks
      <4>4. TravelTime(query.mode, best0) \in Nat /\ TravelTime(query.mode, e) \in Nat
        BY <1>1, <3>2, <3>4, <4>3 DEF AreLinks
      <4>5. cur \in DOMAIN f[i].side.g /\ f[i].side.g[cur] \in Nat
        BY <1>1, <3>5, <3>6 DEF Grows, AreLabels
      <4>6. es[i] \in DOMAIN f[i].side.g => f[i].side.g[es[i]] \in Nat
        BY <3>5 DEF AreLabels
      <4>. QED
        BY <3>3, <4>2, <4>3, <4>4, <4>5, <4>6 DEF Covered
    <3>7. ASSUME NEW j \in 1 .. i PROVE Done(f[i].side, j)
      <4>1. CASE j = i
        BY <3>4, <4>1
      <4>2. CASE j # i
        <5>1. j \in 1 .. i - 1
          BY <1>6, <4>2
        <5>2. Done(f[i - 1].side, j)
          BY <2>1, <5>1
        <5>. QED
          BY <5>2, <3>6, <1>1 DEF AreLinks
      <4>. QED
        BY <4>1, <4>2
    <3>. QED
      BY <1>6, <3>3, <3>6, <3>7
  <2>. QED
    BY <2>3, <2>4
<1>7. n \in S
  <2> HIDE DEF S
  <2>. QED
    BY <1>2, <1>5, <1>6, UpTo
<1>8. ASSUME NEW x, NEW e, <<x, cur, e>> \in BackwardLinks PROVE Covered(new.side, x, cur, e, query.mode)
  <2>1. x \in Range(es)
    <3>1. x \in Nodes /\ e \in Range(G.edges[x]) /\ e.to = cur
      BY <1>8, <1>1 DEF BackwardLinks
    <3>. QED
      BY <3>1, FreeNodes
  <2>2. PICK j \in 1 .. n : x = es[j]
    <3>1. DOMAIN es = 1 .. n
      BY <1>1, FreeNodes DEF n
    <3>. QED
      BY <2>1, <3>1 DEF Range
  <2>. QED
    BY <1>3, <1>7, <1>8, <2>1, <2>2
<1>. QED
  BY <1>3, <1>7, <1>8

-----------------------------------------------------------------------------
(* Popping and settling. *)

\* Every link from a settled node has been followed.
Followed(side, L, mode) ==
    \A x, at, e : <<x, at, e>> \in L /\ at \in side.closed => Covered(side, x, at, e, mode)

SideOK(side, root, N, L, mode) == Labels(side, root, N, L, mode) /\ Followed(side, L, mode)

\* A side a search starts with.
LEMMA StartSideOK ==
    ASSUME NEW root, NEW N, root \in N, NEW L, NEW mode
    PROVE  /\ SideOK(StartSide(root), root, N, L, mode)
           /\ DOMAIN StartSide(root).g = {root} /\ StartSide(root).closed = {}
           /\ StartSide(root).pq = {<<root, 0>>} /\ StartSide(root).g[root] = 0
<1> DEFINE s == StartSide(root)
<1>1. /\ s.g = [x \in {root} |-> 0] /\ s.d = [x \in {root} |-> 0] /\ s.hop = <<>>
      /\ s.closed = {} /\ s.pq = {<<root, 0>>} /\ IsSide(s)
  BY DEF StartSide, IsSide
<1> HIDE DEF s
<1>2. DOMAIN s.hop = {}
  BY <1>1
<1>3. Labelled(s, root, N) /\ Hops(s, L, mode) /\ Queue(s)
  BY <1>1, <1>2 DEF Labelled, Hops, Queue
<1>4. Followed(s, L, mode)
  BY <1>1 DEF Followed
<1>5. SideOK(s, root, N, L, mode)
  BY <1>1, <1>3, <1>4 DEF SideOK, Labels
<1>. QED
  BY <1>1, <1>5 DEF s

\* A stale item may be dropped.
LEMMA PopKeeps ==
    ASSUME NEW side, NEW root, NEW N, NEW L, NEW mode, SideOK(side, root, N, L, mode),
           NEW y \in side.pq, Stale(side, y), NEW t, t = Pop(side, y)
    PROVE  /\ SideOK(t, root, N, L, mode)
           /\ t.g = side.g /\ t.d = side.d /\ t.closed = side.closed /\ t.pq = side.pq \ {y}
<1>1. IsSide(side) /\ Labelled(side, root, N) /\ Hops(side, L, mode) /\ Queue(side) /\ Followed(side, L, mode)
  BY DEF SideOK, Labels
<1>2. /\ t.g = side.g /\ t.d = side.d /\ t.hop = side.hop /\ t.closed = side.closed
      /\ t.pq = side.pq \ {y} /\ IsSide(t)
  BY <1>1 DEF Pop, IsSide
<1>3. Queue(t)
  <2>1. ASSUME NEW x \in DOMAIN side.g \ side.closed PROVE <<x, side.g[x]>> \in side.pq \ {y}
    <3>1. <<x, side.g[x]>> \in side.pq /\ side.g[x] \in Nat
      BY <1>1 DEF Queue, Labelled
    <3>2. <<x, side.g[x]>> # y
      BY <3>1, <2>1 DEF Stale
    <3>. QED
      BY <3>1, <3>2
  <2>. QED
    BY <1>1, <1>2, <2>1 DEF Queue
<1>4. Labelled(t, root, N) /\ Hops(t, L, mode)
  BY <1>1, <1>2 DEF Labelled, Hops, HopTo
<1>5. Followed(t, L, mode)
  BY <1>1, <1>2 DEF Followed, Covered
<1>. QED
  BY <1>2, <1>3, <1>4, <1>5 DEF SideOK, Labels

\* An item that is not stale is settled.
LEMMA SettleKeeps ==
    ASSUME NEW side, NEW root, NEW N, NEW L, NEW mode, SideOK(side, root, N, L, mode),
           NEW y \in side.pq, ~Stale(side, y), NEW t, t = Settle(side, y)
    PROVE  /\ Labels(t, root, N, L, mode)
           /\ t.g = side.g /\ t.d = side.d /\ t.closed = side.closed \cup {y[1]} /\ t.pq = side.pq \ {y}
           /\ y[1] \in DOMAIN side.g /\ y[1] \notin side.closed /\ y[2] = side.g[y[1]]
           /\ \A x, at, e : <<x, at, e>> \in L /\ at \in side.closed => Covered(t, x, at, e, mode)
<1>1. IsSide(side) /\ Labelled(side, root, N) /\ Hops(side, L, mode) /\ Queue(side) /\ Followed(side, L, mode)
  BY DEF SideOK, Labels
<1>2. /\ t.g = side.g /\ t.d = side.d /\ t.hop = side.hop /\ t.closed = side.closed \cup {y[1]}
      /\ t.pq = side.pq \ {y} /\ IsSide(t)
  BY <1>1 DEF Settle, IsSide
<1>3. /\ y[1] \in DOMAIN side.g /\ y[1] \notin side.closed /\ y[2] = side.g[y[1]]
  <2>1. y[1] \in DOMAIN side.g /\ y[2] \in Nat /\ side.g[y[1]] <= y[2] /\ side.g[y[1]] \in Nat
    BY <1>1 DEF Queue, Labelled
  <2>. QED
    BY <2>1 DEF Stale
<1>4. Queue(t)
  <2>1. ASSUME NEW x \in DOMAIN side.g \ (side.closed \cup {y[1]}) PROVE <<x, side.g[x]>> \in side.pq \ {y}
    <3>1. <<x, side.g[x]>> \in side.pq /\ <<x, side.g[x]>> # y
      BY <1>1, <2>1 DEF Queue
    <3>. QED
      BY <3>1
  <2>. QED
    BY <1>1, <1>2, <2>1 DEF Queue
<1>5. Labelled(t, root, N) /\ Hops(t, L, mode)
  BY <1>1, <1>2, <1>3 DEF Labelled, Hops, HopTo
<1>6. \A x, at, e : <<x, at, e>> \in L /\ at \in side.closed => Covered(t, x, at, e, mode)
  BY <1>1, <1>2 DEF Followed, Covered
<1>. QED
  BY <1>2, <1>3, <1>4, <1>5, <1>6 DEF Labels

\* Settling a node finds no better meeting.
LEMMA SettledMeets ==
    ASSUME NEW b, NEW s, NEW o, AreLabels(s), AreLabels(o), BestOK(b, s, o), NEW n \in DOMAIN s.g, NEW km
    PROVE  TryMeet(b, n, s.g[n], km, o) = b
<1>1. CASE n \notin DOMAIN o.g
  BY <1>1 DEF TryMeet
<1>2. CASE n \in DOMAIN o.g
  <2>1. b.node # NoNode /\ b.time <= s.g[n] + o.g[n]
    BY <1>2 DEF BestOK, Meets
  <2>2. b.time \in Nat /\ s.g[n] + o.g[n] \in Nat
    BY <1>2, <2>1 DEF BestOK, Meets, AreLabels
  <2>. QED
    BY <2>1, <2>2 DEF TryMeet
<1>. QED
  BY <1>1, <1>2

\* The forward search settles a node.
LEMMA ForwardKeeps ==
    ASSUME SearchTypes, NEW side, NEW root, SideOK(side, root, Free, ForwardLinks, query.mode), AreLabels(bwd),
           NEW b, BestOK(b, side, bwd), NEW y \in side.pq, ~Stale(side, y),
           NEW new, new = RelaxEdges(y[1], [side |-> Settle(side, y), best |-> b])
    PROVE  /\ SideOK(new.side, root, Free, ForwardLinks, query.mode) /\ BestOK(new.best, new.side, bwd)
           /\ Grows(Settle(side, y), new.side)
           /\ y[1] \in DOMAIN side.g /\ y[1] \notin side.closed /\ y[2] = side.g[y[1]]
<1> DEFINE t == Settle(side, y)
           acc == [side |-> t, best |-> b]
<1>1. Free \in SUBSET Nodes /\ AreLinks(ForwardLinks, Free, query.mode)
  BY FreeNodes, TheLinks
<1>2. /\ Labels(t, root, Free, ForwardLinks, query.mode)
      /\ t.g = side.g /\ t.d = side.d /\ t.closed = side.closed \cup {y[1]}
      /\ y[1] \in DOMAIN side.g /\ y[1] \notin side.closed /\ y[2] = side.g[y[1]]
      /\ \A x, at, e : <<x, at, e>> \in ForwardLinks /\ at \in side.closed => Covered(t, x, at, e, query.mode)
  BY SettleKeeps
<1> HIDE DEF t
<1>3. BestOK(b, t, bwd)
  BY <1>2 DEF BestOK, Meets
<1>4. RelaxOK(acc, root, Free, ForwardLinks, query.mode, bwd) /\ y[1] \in acc.side.closed
  BY <1>2, <1>3 DEF RelaxOK
<1>5. new = RelaxEdges(y[1], acc) /\ acc.side = t
  BY DEF t
<1> HIDE DEF acc
<1>6. /\ RelaxOK(new, root, Free, ForwardLinks, query.mode, bwd)
      /\ Grows(t, new.side)
      /\ \A x, e : <<x, y[1], e>> \in ForwardLinks => Covered(new.side, x, y[1], e, query.mode)
  BY <1>4, <1>5, RelaxEdgesKeep
<1>7. AreLabels(t) /\ AreLabels(new.side) /\ Grows(t, t) /\ t.closed \subseteq DOMAIN t.g
  <2>1. AreLabels(t) /\ AreLabels(new.side)
    BY <1>1, <1>2, <1>6, LabelsAreLabels DEF RelaxOK
  <2>. QED
    BY <2>1, <1>2 DEF Grows, AreLabels, Labels, Labelled
<1>8. ASSUME NEW x, NEW at, NEW e, <<x, at, e>> \in ForwardLinks, at \in new.side.closed
      PROVE  Covered(new.side, x, at, e, query.mode)
  <2>1. CASE at = y[1]
    BY <1>6, <1>8, <2>1
  <2>2. CASE at # y[1]
    <3>1. at \in side.closed /\ at \in t.closed
      BY <1>2, <1>6, <1>8, <2>2 DEF Grows
    <3>2. Covered(t, x, at, e, query.mode) /\ TravelTime(query.mode, e) \in Nat
      BY <3>1, <1>1, <1>2, <1>8 DEF AreLinks
    <3>. QED
      BY <3>1, <3>2, <1>6, <1>7, GrowsOn
  <2>. QED
    BY <2>1, <2>2
<1>. QED
  BY <1>2, <1>6, <1>8 DEF SideOK, Followed, RelaxOK, t

\* The backward search settles a node.
LEMMA BackwardKeeps ==
    ASSUME SearchTypes, NEW side, NEW root, SideOK(side, root, Free, BackwardLinks, query.mode), AreLabels(fwd),
           NEW b, BestOK(b, side, fwd), NEW y \in side.pq, ~Stale(side, y),
           NEW new, new = RelaxReverses(y[1], [side |-> Settle(side, y), best |-> b])
    PROVE  /\ SideOK(new.side, root, Free, BackwardLinks, query.mode) /\ BestOK(new.best, new.side, fwd)
           /\ Grows(Settle(side, y), new.side)
           /\ y[1] \in DOMAIN side.g /\ y[1] \notin side.closed /\ y[2] = side.g[y[1]]
<1> DEFINE t == Settle(side, y)
           acc == [side |-> t, best |-> b]
<1>1. Free \in SUBSET Nodes /\ AreLinks(BackwardLinks, Free, query.mode)
  BY FreeNodes, TheLinks
<1>2. /\ Labels(t, root, Free, BackwardLinks, query.mode)
      /\ t.g = side.g /\ t.d = side.d /\ t.closed = side.closed \cup {y[1]}
      /\ y[1] \in DOMAIN side.g /\ y[1] \notin side.closed /\ y[2] = side.g[y[1]]
      /\ \A x, at, e : <<x, at, e>> \in BackwardLinks /\ at \in side.closed => Covered(t, x, at, e, query.mode)
  BY SettleKeeps
<1> HIDE DEF t
<1>3. BestOK(b, t, fwd)
  BY <1>2 DEF BestOK, Meets
<1>4. RelaxOK(acc, root, Free, BackwardLinks, query.mode, fwd) /\ y[1] \in acc.side.closed
  BY <1>2, <1>3 DEF RelaxOK
<1>5. new = RelaxReverses(y[1], acc) /\ acc.side = t
  BY DEF t
<1> HIDE DEF acc
<1>6. /\ RelaxOK(new, root, Free, BackwardLinks, query.mode, fwd)
      /\ Grows(t, new.side)
      /\ \A x, e : <<x, y[1], e>> \in BackwardLinks => Covered(new.side, x, y[1], e, query.mode)
  BY <1>4, <1>5, RelaxReversesKeep
<1>7. AreLabels(t) /\ AreLabels(new.side) /\ Grows(t, t) /\ t.closed \subseteq DOMAIN t.g
  <2>1. AreLabels(t) /\ AreLabels(new.side)
    BY <1>1, <1>2, <1>6, LabelsAreLabels DEF RelaxOK
  <2>. QED
    BY <2>1, <1>2 DEF Grows, AreLabels, Labels, Labelled
<1>8. ASSUME NEW x, NEW at, NEW e, <<x, at, e>> \in BackwardLinks, at \in new.side.closed
      PROVE  Covered(new.side, x, at, e, query.mode)
  <2>1. CASE at = y[1]
    BY <1>6, <1>8, <2>1
  <2>2. CASE at # y[1]
    <3>1. at \in side.closed /\ at \in t.closed
      BY <1>2, <1>6, <1>8, <2>2 DEF Grows
    <3>2. Covered(t, x, at, e, query.mode) /\ TravelTime(query.mode, e) \in Nat
      BY <3>1, <1>1, <1>2, <1>8 DEF AreLinks
    <3>. QED
      BY <3>1, <3>2, <1>6, <1>7, GrowsOn
  <2>. QED
    BY <2>1, <2>2
<1>. QED
  BY <1>2, <1>6, <1>8 DEF SideOK, Followed, RelaxOK, t

-----------------------------------------------------------------------------
(* Trails. *)

WalkStep(x, hop, node, i) == NextHop(hop, x)

WalkBody(f, hop, node, n) == [i \in 0 .. n |-> IF i = 0 THEN <<node>> ELSE WalkStep(f[i - 1], hop, node, i)]

WalkLoop(hop, node, n) == CHOOSE f : f = WalkBody(f, hop, node, n)

\* The loop of Trail.
LEMMA WalkRuns ==
    ASSUME NEW hop, NEW node, NEW n \in Nat, 0 <= n
    PROVE  LET f == WalkLoop(hop, node, n)
           IN  /\ f[0] = <<node>>
               /\ \A i \in 0 .. n : i > 0 => f[i] = WalkStep(f[i - 1], hop, node, i)
<1> DEFINE S == {k \in Nat : \E f : f = WalkBody(f, hop, node, k)}
<1>1. 0 \in S
  <2> DEFINE h == [i \in 0 .. 0 |-> <<node>>]
  <2>1. h = WalkBody(h, hop, node, 0)
    BY DEF WalkBody
  <2>. QED
    BY <2>1
<1>2. ASSUME NEW k \in 0 .. n, k > 0, k - 1 \in S PROVE k \in S
  <2>1. PICK was : was = WalkBody(was, hop, node, k - 1)
    BY <1>2
  <2> DEFINE h == [i \in 0 .. k |-> IF i = k THEN WalkStep(was[k - 1], hop, node, k) ELSE was[i]]
  <2>2. \A i \in 0 .. k - 1 : h[i] = was[i] /\ was[i] = IF i = 0 THEN <<node>> ELSE WalkStep(was[i - 1], hop, node, i)
    BY <2>1 DEF WalkBody
  <2>3. h[k] = WalkStep(was[k - 1], hop, node, k) /\ h[k - 1] = was[k - 1]
    BY <1>2
  <2>4. ASSUME NEW i \in 0 .. k PROVE h[i] = IF i = 0 THEN <<node>> ELSE WalkStep(h[i - 1], hop, node, i)
    <3> HIDE DEF h
    <3>1. CASE i = k
      BY <3>1, <1>2, <2>3
    <3>2. CASE i = 0
      BY <3>2, <1>2, <2>2
    <3>3. CASE i # k /\ i # 0
      <4>1. i \in 0 .. k - 1 /\ i - 1 \in 0 .. k - 1
        BY <3>3, <1>2
      <4>. QED
        BY <3>3, <4>1, <2>2
    <3>. QED
      BY <3>1, <3>2, <3>3
  <2>5. h = WalkBody(h, hop, node, k)
    BY <2>4 DEF WalkBody
  <2>6. k \in Nat
    OBVIOUS
  <2>. QED
    BY <2>5, <2>6
<1>3. n \in S
  <2> HIDE DEF S
  <2>. QED
    BY <1>1, <1>2, UpTo
<1> DEFINE f == WalkLoop(hop, node, n)
<1>4. f = WalkBody(f, hop, node, n)
  BY <1>3 DEF WalkLoop
<1> HIDE DEF f
<1>5. f[0] = <<node>> /\ \A i \in 0 .. n : i > 0 => f[i] = WalkStep(f[i - 1], hop, node, i)
  BY <1>4 DEF WalkBody
<1>. QED
  BY <1>5 DEF f

\* A walk along the hops from a node.
IsWalk(w, hop, D, node) ==
    /\ w \in Seq(D) /\ Len(w) >= 1 /\ w[1] = node
    /\ \A i \in 1 .. Len(w) - 1 : w[i] \in DOMAIN hop /\ w[i + 1] = hop[w[i]].at

\* Hops that lead to ever smaller numbers, and to the root in the end.
Falls(hop, g, D, root) ==
    /\ IsFiniteSet(D) /\ root \in D /\ DOMAIN hop = D \ {root}
    /\ \A x \in D : g[x] \in Nat
    /\ \A x \in DOMAIN hop : hop[x].at \in D /\ g[hop[x].at] < g[x]

\* The numbers fall along a walk, so it passes no node twice.
LEMMA WalkFalls ==
    ASSUME NEW D, NEW g, NEW root, NEW hop, Falls(hop, g, D, root), NEW node, NEW w, IsWalk(w, hop, D, node)
    PROVE  \A i, j \in 1 .. Len(w) : i < j => g[w[j]] < g[w[i]]
<1> DEFINE n == Len(w)
<1>1. n \in Nat /\ n >= 1 /\ \A i \in 1 .. n : w[i] \in D /\ g[w[i]] \in Nat
  BY DEF IsWalk, Falls
<1>2. \A i \in 1 .. n - 1 : g[w[i + 1]] < g[w[i]]
  BY <1>1 DEF IsWalk, Falls
<1> HIDE DEF n
<1>3. ASSUME NEW i \in 1 .. n PROVE \A j \in 1 .. n : i < j => g[w[j]] < g[w[i]]
  <2> DEFINE S == {j \in 1 .. n : i < j => g[w[j]] < g[w[i]]}
  <2>1. 1 \in S
    BY <1>1, <1>3
  <2>2. ASSUME NEW j \in 1 .. n, j > 1, j - 1 \in S PROVE j \in S
    <3>1. j - 1 \in 1 .. n - 1 /\ (j - 1) + 1 = j
      BY <1>1, <2>2
    <3>2. g[w[j]] < g[w[j - 1]]
      BY <1>2, <3>1
    <3>3. i < j => i = j - 1 \/ i < j - 1
      BY <1>3, <2>2
    <3>4. i < j - 1 => g[w[j - 1]] < g[w[i]]
      BY <2>2
    <3>5. g[w[j]] \in Nat /\ g[w[j - 1]] \in Nat /\ g[w[i]] \in Nat
      BY <1>1, <1>3, <2>2, <3>1
    <3>6. i < j => g[w[j]] < g[w[i]]
      BY <3>2, <3>3, <3>4, <3>5
    <3>. QED
      BY <3>6
  <2>3. \A j \in 1 .. n : j \in S
    <3> HIDE DEF S
    <3>. QED
      BY <1>1, <2>1, <2>2, UpTo
  <2>. QED
    BY <2>3
<1>. QED
  BY <1>3 DEF n

\* A hop makes a walk longer, until the root is reached.
LEMMA NextHopWalks ==
    ASSUME NEW D, NEW g, NEW root, NEW hop, Falls(hop, g, D, root), NEW node, NEW w, IsWalk(w, hop, D, node),
           NEW v, v = NextHop(hop, w)
    PROVE  /\ IsWalk(v, hop, D, node)
           /\ Last(w) = root => v = w
           /\ Last(w) # root => Len(v) = Len(w) + 1
<1>1. Last(w) = w[Len(w)] /\ w \in Seq(D) /\ Len(w) \in Nat /\ Len(w) >= 1 /\ w[Len(w)] \in D
  BY DEF Last, IsWalk
<1>2. CASE Last(w) = root
  BY <1>2 DEF NextHop, Falls
<1>3. CASE Last(w) # root
  <2>1. w[Len(w)] \in DOMAIN hop /\ hop[w[Len(w)]].at \in D
    BY <1>1, <1>3 DEF Falls
  <2> DEFINE a == hop[w[Len(w)]].at
  <2>2. v = Append(w, a)
    BY <1>1, <2>1 DEF NextHop
  <2>3. v \in Seq(D) /\ Len(v) = Len(w) + 1 /\ v[Len(w) + 1] = a /\ \A i \in 1 .. Len(w) : v[i] = w[i]
    BY <1>1, <2>1, <2>2
  <2>4. v[1] = node
    BY <1>1, <2>3 DEF IsWalk
  <2>5. ASSUME NEW i \in 1 .. Len(v) - 1 PROVE v[i] \in DOMAIN hop /\ v[i + 1] = hop[v[i]].at
    <3>1. i \in 1 .. Len(w)
      BY <1>1, <2>3
    <3>2. CASE i = Len(w)
      BY <3>1, <3>2, <2>1, <2>3
    <3>3. CASE i # Len(w)
      <4>1. i \in 1 .. Len(w) - 1 /\ i + 1 \in 1 .. Len(w)
        BY <1>1, <3>1, <3>3
      <4>2. w[i] \in DOMAIN hop /\ w[i + 1] = hop[w[i]].at
        BY <4>1 DEF IsWalk
      <4>. QED
        BY <4>1, <4>2, <3>1, <2>3
    <3>. QED
      BY <3>2, <3>3
  <2>6. Len(v) >= 1
    BY <1>1, <2>3
  <2>. QED
    BY <1>3, <2>3, <2>4, <2>5, <2>6 DEF IsWalk
<1>. QED
  BY <1>2, <1>3

\* A trail ends at the root.
LEMMA TrailEnds ==
    ASSUME NEW D, NEW g, NEW root, NEW hop, Falls(hop, g, D, root), NEW node \in D, NEW t, t = Trail(hop, node)
    PROVE  IsWalk(t, hop, D, node) /\ t[Len(t)] = root
<1> DEFINE n == Cardinality(DOMAIN hop)
           f == WalkLoop(hop, node, n)
<1>1. IsFiniteSet(DOMAIN hop) /\ n \in Nat
  <2>1. IsFiniteSet(DOMAIN hop)
    BY FS_Subset DEF Falls
  <2>. QED
    BY <2>1, FS_CardinalityType
<1>2. t = f[n]
  BY DEF Trail, WalkLoop, WalkBody, WalkStep
<1>3. f[0] = <<node>> /\ \A i \in 0 .. n : i > 0 => f[i] = NextHop(hop, f[i - 1])
  BY <1>1, WalkRuns DEF WalkStep
<1> HIDE DEF f, n
<1> DEFINE Good(w, i) == IsWalk(w, hop, D, node) /\ (w[Len(w)] = root \/ Len(w) = i + 1)
           S == {i \in 0 .. n : Good(f[i], i)}
<1>4. 0 \in S
  <2>1. IsWalk(<<node>>, hop, D, node) /\ Len(<<node>>) = 0 + 1
    BY DEF IsWalk
  <2>. QED
    BY <1>1, <1>3, <2>1
<1>5. ASSUME NEW i \in 0 .. n, i > 0, i - 1 \in S PROVE i \in S
  <2>1. Good(f[i - 1], i - 1) /\ f[i] = NextHop(hop, f[i - 1])
    BY <1>3, <1>5
  <2>2. /\ IsWalk(f[i], hop, D, node)
        /\ Last(f[i - 1]) = root => f[i] = f[i - 1]
        /\ Last(f[i - 1]) # root => Len(f[i]) = Len(f[i - 1]) + 1
    BY <2>1, NextHopWalks
  <2>3. Last(f[i - 1]) # root => Len(f[i - 1]) = (i - 1) + 1
    BY <2>1 DEF Last
  <2>4. Last(f[i - 1]) # root => Len(f[i]) = i + 1
    BY <2>2, <2>3, <1>5
  <2>. QED
    BY <2>2, <2>4, <1>5 DEF Last
<1>6. Good(f[n], n)
  <2>1. \A i \in 0 .. n : i \in S
    <3> HIDE DEF S
    <3>. QED
      BY <1>1, <1>4, <1>5, UpTo
  <2>. QED
    BY <2>1, <1>1
<1>7. t[Len(t)] = root
  <2>1. SUFFICES ASSUME t[Len(t)] # root PROVE FALSE
    OBVIOUS
  <2>2. IsWalk(t, hop, D, node) /\ Len(t) = n + 1
    BY <1>2, <1>6, <2>1
  <2>3. ASSUME NEW i \in 1 .. n + 1 PROVE t[i] \in DOMAIN hop
    <3>1. CASE i \in 1 .. n
      BY <3>1, <2>2, <1>1 DEF IsWalk
    <3>2. CASE i = n + 1
      BY <3>2, <2>1, <2>2, <1>1 DEF IsWalk, Falls
    <3>. QED
      BY <3>1, <3>2, <1>1
  <2> DEFINE h == [i \in 1 .. n + 1 |-> t[i]]
  <2>4. h \in [1 .. n + 1 -> DOMAIN hop]
    BY <2>3
  <2>5. IsFiniteSet(1 .. n + 1) /\ Cardinality(1 .. n + 1) = n + 1
    BY <1>1, FS_Interval
  <2>6. n < n + 1
    BY <1>1
  <2> HIDE DEF h
  <2>7. \E i, j \in 1 .. n + 1 : i # j /\ h[i] = h[j]
    BY <1>1, <2>4, <2>5, <2>6, FS_PigeonHole DEF n
  <2>8. PICK i \in 1 .. n + 1, j \in 1 .. n + 1 : i < j /\ t[i] = t[j]
    BY <2>7, <1>1 DEF h
  <2>9. g[t[j]] < g[t[i]] /\ g[t[i]] \in Nat
    <3>1. \A k, l \in 1 .. Len(t) : k < l => g[t[l]] < g[t[k]]
      BY <2>2, WalkFalls
    <3>. QED
      BY <2>2, <2>3, <2>8, <3>1 DEF Falls
  <2>. QED
    BY <2>8, <2>9
<1>. QED
  BY <1>2, <1>6, <1>7

\* One side's hops as a tree of links with costs and lengths.
Tree(hop, g, d, D, root, L, mode) ==
    /\ Falls(hop, g, D, root) /\ D \subseteq Nodes
    /\ g[root] = 0 /\ d[root] = 0 /\ \A x \in D : d[x] \in Nat
    /\ \A x \in DOMAIN hop : LET at == hop[x].at
                                 e  == hop[x].edge
                             IN  /\ <<x, at, e>> \in L
                                 /\ g[x] = g[at] + TravelTime(mode, e) /\ d[x] = d[at] + e.km

\* The hops of a side are a tree.
LEMMA LabelsAreATree ==
    ASSUME NEW side, NEW root, NEW N \in SUBSET Nodes, NEW L, NEW mode,
           Labels(side, root, N, L, mode), AreLinks(L, N, mode)
    PROVE  Tree(side.hop, side.g, side.d, DOMAIN side.g, root, L, mode)
<1> DEFINE D == DOMAIN side.g
<1>1. Labelled(side, root, N) /\ Hops(side, L, mode)
  BY DEF Labels
<1>2. D \subseteq Nodes /\ root \in D /\ DOMAIN side.hop = D \ {root}
  BY <1>1 DEF Labelled
<1>3. IsFiniteSet(D)
  BY <1>2, NodesAreFinite, FS_Subset
<1>4. ASSUME NEW x \in DOMAIN side.hop
      PROVE  LET at == side.hop[x].at
                 e  == side.hop[x].edge
             IN  /\ at \in D /\ side.g[at] < side.g[x] /\ <<x, at, e>> \in L
                 /\ side.g[x] = side.g[at] + TravelTime(mode, e) /\ side.d[x] = side.d[at] + e.km
  <2>1. HopTo(side, L, mode, x)
    BY <1>1 DEF Hops
  <2>2. side.hop[x].at \in D /\ side.g[side.hop[x].at] \in Nat
    BY <2>1, <1>1 DEF HopTo, Labelled
  <2>3. TravelTime(mode, side.hop[x].edge) \in Nat \ {0}
    BY <2>1 DEF HopTo, AreLinks
  <2>. QED
    BY <2>1, <2>2, <2>3 DEF HopTo
<1>5. Falls(side.hop, side.g, D, root)
  BY <1>1, <1>2, <1>3, <1>4 DEF Falls, Labelled
<1>. QED
  BY <1>1, <1>2, <1>4, <1>5 DEF Tree, Labelled

\* The tree of a search that has no second side: the goal alone.
LEMMA LoneTree ==
    ASSUME NEW root \in Nodes, NEW L, NEW mode
    PROVE  Tree(<<>>, [x \in {root} |-> 0], [x \in {root} |-> 0], {root}, root, L, mode)
<1>1. IsFiniteSet({root})
  BY FS_Singleton
<1>2. DOMAIN <<>> = {}
  OBVIOUS
<1>. QED
  BY <1>1, <1>2 DEF Tree, Falls

\* Two lists put together.
LEMMA ConcatParts ==
    ASSUME NEW S, NEW p \in Seq(S), NEW q \in Seq(S)
    PROVE  /\ p \o q \in Seq(S) /\ Len(p \o q) = Len(p) + Len(q)
           /\ \A i \in 1 .. Len(p) + Len(q) : (p \o q)[i] = IF i <= Len(p) THEN p[i] ELSE q[i - Len(p)]
OBVIOUS

IsConcat(S, r, p, q, m, k) ==
    /\ r \in Seq(S) /\ Len(r) = m + k
    /\ \A i \in 1 .. m : r[i] = p[i]
    /\ \A i \in m + 1 .. m + k : r[i] = q[i - m]

\* Two lists put together, part by part.
LEMMA Concat ==
    ASSUME NEW S, NEW p, NEW q, NEW m \in Nat, NEW k \in Nat, NEW r,
           p \in Seq(S) /\ Len(p) = m, q \in Seq(S) /\ Len(q) = k, r = p \o q
    PROVE  IsConcat(S, r, p, q, m, k)
<1>4. \A i \in 1 .. m : i \in 1 .. m + k /\ i <= m
  OBVIOUS
<1>5. \A i \in m + 1 .. m + k : i \in 1 .. m + k /\ ~(i <= m)
  OBVIOUS
<1>6. \A i \in 1 .. m + k : r[i] = IF i <= m THEN p[i] ELSE q[i - m]
  BY ConcatParts, Zenon
<1>7. r \in Seq(S) /\ Len(r) = m + k
  BY ConcatParts, Zenon
<1>. QED
  BY <1>4, <1>5, <1>6, <1>7, Zenon DEF IsConcat

\* What PathThrough makes of two trails.
Joined(nodes, edges, t, b, there, back) ==
    /\ nodes = Reverse(t) \o Tail(b)
    /\ edges = [i \in 1 .. Len(Reverse(t))-1 |-> there.hop[Reverse(t)[i+1]].edge]
               \o [i \in 1 .. Len(b)-1 |-> back.hop[b[i]].edge]

EdgesAlong(hop, t) == \A i \in 1 .. Len(t) - 1 : hop[t[i]].edge \in Edge

AreJoined(nodes, edges, t, b, there, back) ==
    /\ nodes \in Seq(Nodes) /\ Len(nodes) = Len(t) + Len(b) - 1
    /\ edges \in Seq(Edge) /\ Len(edges) = Len(nodes) - 1
    /\ \A i \in 1 .. Len(t) : nodes[i] = t[Len(t) - i + 1]
    /\ \A i \in Len(t) .. Len(nodes) : nodes[i] = b[i - Len(t) + 1]
    /\ \A i \in 1 .. Len(t) - 1 : edges[i] = there.hop[t[Len(t) - i]].edge
    /\ \A i \in Len(t) .. Len(nodes) - 1 : edges[i] = back.hop[b[i - Len(t) + 1]].edge

\* The nodes and edges of a path are those of the two trails.
LEMMA JoinParts ==
    ASSUME NEW t \in Seq(Nodes), NEW b \in Seq(Nodes), Len(t) >= 1, Len(b) >= 1, t[1] = b[1],
           NEW there, NEW back, NEW nodes, NEW edges, Joined(nodes, edges, t, b, there, back),
           EdgesAlong(there.hop, t), EdgesAlong(back.hop, b)
    PROVE  AreJoined(nodes, edges, t, b, there, back)
<1> DEFINE a == Reverse(t)
           m == Len(t)
           k == Len(b)
           c == Tail(b)
           ea == [i \in 1 .. Len(a)-1 |-> there.hop[a[i+1]].edge]
           eb == [i \in 1 .. k - 1 |-> back.hop[b[i]].edge]
<1>1. m \in Nat /\ k \in Nat /\ m >= 1 /\ k >= 1
  OBVIOUS
<1>2. a \in Seq(Nodes) /\ Len(a) = m /\ \A i \in 1 .. m : a[i] = t[(m - i) + 1]
  <2>1. a = [i \in 1 .. m |-> t[(m - i) + 1]]
    BY DEF Reverse
  <2>2. \A i \in 1 .. m : (m - i) + 1 \in 1 .. m
    BY <1>1
  <2>3. \A i \in 1 .. m : t[(m - i) + 1] \in Nodes
    BY <2>2
  <2>. QED
    BY <1>1, <2>1, <2>3
<1>3. c \in Seq(Nodes) /\ Len(c) = k - 1 /\ \A i \in 1 .. k - 1 : c[i] = b[i + 1]
  <2>1. b # <<>>
    BY <1>1
  <2>. QED
    BY <1>1, <2>1
<1>4. ea \in Seq(Edge) /\ Len(ea) = m - 1 /\ \A i \in 1 .. m - 1 : ea[i] = there.hop[t[m - i]].edge
  <2>1. \A i \in 1 .. m - 1 : i + 1 \in 1 .. m /\ m - i \in 1 .. m - 1 /\ (m - (i + 1)) + 1 = m - i
    BY <1>1
  <2>2. \A i \in 1 .. m - 1 : a[i + 1] = t[m - i]
    BY <1>2, <2>1
  <2>3. \A i \in 1 .. m - 1 : there.hop[a[i + 1]].edge \in Edge
    BY <2>1, <2>2 DEF EdgesAlong
  <2>4. Len(a) - 1 = m - 1 /\ m - 1 \in Nat
    BY <1>1, <1>2
  <2> HIDE DEF a
  <2>. QED
    BY <2>2, <2>3, <2>4
<1>5. eb \in Seq(Edge) /\ Len(eb) = k - 1 /\ \A i \in 1 .. k - 1 : eb[i] = back.hop[b[i]].edge
  <2>1. k - 1 \in Nat
    BY <1>1
  <2>. QED
    BY <2>1 DEF EdgesAlong
<1>6. nodes = a \o c /\ edges = ea \o eb /\ m - 1 \in Nat /\ k - 1 \in Nat
  BY <1>1 DEF Joined
<1> HIDE DEF a, c, ea, eb, m, k
<1>7. /\ nodes \in Seq(Nodes) /\ Len(nodes) = m + (k - 1)
      /\ \A i \in 1 .. m : nodes[i] = a[i]
      /\ \A i \in m + 1 .. m + (k - 1) : nodes[i] = c[i - m]
  <2>1. IsConcat(Nodes, nodes, a, c, m, k - 1)
    BY <1>1, <1>2, <1>3, <1>6, Concat
  <2>. QED
    BY <2>1 DEF IsConcat
<1>8. /\ edges \in Seq(Edge) /\ Len(edges) = (m - 1) + (k - 1)
      /\ \A i \in 1 .. m - 1 : edges[i] = ea[i]
      /\ \A i \in m .. m + k - 2 : edges[i] = eb[i - m + 1]
  <2>0. IsConcat(Edge, edges, ea, eb, m - 1, k - 1)
    BY <1>1, <1>4, <1>5, <1>6, Concat
  <2>1. /\ edges \in Seq(Edge) /\ Len(edges) = (m - 1) + (k - 1)
        /\ \A i \in 1 .. m - 1 : edges[i] = ea[i]
        /\ \A i \in (m - 1) + 1 .. (m - 1) + (k - 1) : edges[i] = eb[i - (m - 1)]
    BY <2>0 DEF IsConcat
  <2>2. \A i \in m .. m + k - 2 : i \in (m - 1) + 1 .. (m - 1) + (k - 1) /\ i - (m - 1) = i - m + 1
    BY <1>1
  <2>. QED
    BY <2>1, <2>2
<1>9. /\ Len(nodes) = m + k - 1 /\ Len(edges) = Len(nodes) - 1
  BY <1>1, <1>7, <1>8
<1>10. \A i \in 1 .. m : nodes[i] = t[m - i + 1]
  BY <1>1, <1>2, <1>7
<1>11. ASSUME NEW i \in m .. Len(nodes) PROVE nodes[i] = b[i - m + 1]
  <2>1. CASE i = m
    <3>1. nodes[m] = t[(m - m) + 1] /\ (m - m) + 1 = 1
      BY <1>1, <1>2, <1>7
    <3>. QED
      BY <2>1, <3>1, <1>1
  <2>2. CASE i # m
    <3>1. i \in m .. m + k - 1
      BY <1>9, <1>11
    <3>2. i \in m + 1 .. m + (k - 1) /\ i - m \in 1 .. k - 1
      BY <1>1, <3>1, <2>2
    <3>. QED
      BY <3>2, <1>3, <1>7
  <2>. QED
    BY <2>1, <2>2
<1>12. \A i \in m .. Len(nodes) - 1 : edges[i] = back.hop[b[i - m + 1]].edge
  <2>1. \A i \in m .. Len(nodes) - 1 : i \in m .. m + k - 2 /\ i - m + 1 \in 1 .. k - 1
    BY <1>1, <1>9
  <2>. QED
    BY <2>1, <1>5, <1>8
<1>. QED
  BY <1>4, <1>7, <1>8, <1>9, <1>10, <1>11, <1>12 DEF m, k, AreJoined

-----------------------------------------------------------------------------
(* Paths. *)

\* A path from s to t as SoundPath wants it, with its types.
Passes(a, e, b) == e.to = b /\ e \in Range(G.edges[a]) /\ EdgeAllowed(query.mode, e)

IsPath(nodes, edges, s, t) ==
    /\ nodes \in Seq(Nodes) /\ Len(nodes) >= 1 /\ edges \in Seq(Edge) /\ Len(edges) = Len(nodes) - 1
    /\ nodes[1] = s /\ nodes[Len(nodes)] = t
    /\ \A j \in 1 .. Len(nodes) - 1 : Passes(nodes[j], edges[j], nodes[j + 1])
    /\ \A i, j \in 1 .. Len(nodes) : nodes[i] = nodes[j] => i = j

GoodPath(p, s, t) ==
    /\ IsPath(p.nodes, p.edges, s, t)
    /\ p.time = TotalTime(query.mode, p.edges) /\ p.km = TotalKm(p.edges)

AddUp(P, Q, mode, edges, n) ==
    /\ \A i \in 1 .. n + 1 : P[i] \in Int /\ Q[i] \in Int
    /\ \A i \in 1 .. n : P[i + 1] = P[i] + TravelTime(mode, edges[i]) /\ Q[i + 1] = Q[i] + edges[i].km

\* Sums over the edges of a path, from potentials of its nodes.
LEMMA EdgeSums ==
    ASSUME NEW mode \in Modes, NEW n \in Nat, NEW edges \in Seq(Edge), Len(edges) = n,
           NEW P, NEW Q, AddUp(P, Q, mode, edges, n)
    PROVE  TotalTime(mode, edges) = P[n + 1] - P[1] /\ TotalKm(edges) = Q[n + 1] - Q[1]
<1> DEFINE times == [i \in DOMAIN edges |-> TravelTime(mode, edges[i])]
           kms   == [i \in DOMAIN edges |-> edges[i].km]
<1>1. \A i \in 1 .. n : edges[i] \in Edge /\ edges[i].km \in Nat /\ TravelTime(mode, edges[i]) \in Nat
  <2>1. \A e \in Edge : e.km \in Nat /\ TravelTime(mode, e) \in Nat
    BY TravelTimeIsPositive DEF Edge
  <2>2. \A i \in 1 .. n : edges[i] \in Edge
    OBVIOUS
  <2>. QED
    BY <2>1, <2>2
<1>2. DOMAIN edges = 1 .. n
  OBVIOUS
<1>3. Len(times) = n /\ Len(kms) = n
  BY <1>2
<1>4. \A i \in 1 .. n : times[i] = TravelTime(mode, edges[i]) /\ kms[i] = edges[i].km
  BY <1>2
<1>5. TotalTime(mode, edges) = Total(times) /\ TotalKm(edges) = Total(kms)
  BY DEF TotalTime, TotalKm
<1> HIDE DEF times, kms
<1>a. /\ \A i \in 1 .. n : times[i] \in Nat
      /\ \A i \in 1 .. n : kms[i] \in Nat
  BY <1>1, <1>4
<1>b. /\ \A i \in 1 .. n + 1 : P[i] \in Int
      /\ \A i \in 1 .. n + 1 : Q[i] \in Int
      /\ \A i \in 1 .. n : P[i + 1] = P[i] + times[i]
      /\ \A i \in 1 .. n : Q[i + 1] = Q[i] + kms[i]
  BY <1>4 DEF AddUp
<1>c. Follows(P, times, n) /\ Follows(Q, kms, n)
  BY <1>a, <1>b DEF Follows
<1>6. Total(times) = P[n + 1] - P[1]
  BY <1>3, <1>c, Telescope
<1>7. Total(kms) = Q[n + 1] - Q[1]
  BY <1>3, <1>c, Telescope
<1>. QED
  BY <1>5, <1>6, <1>7

\* Two trees have their least sum at a node; the nodes of a path are in a set.
LeastAt(node, fg, bg, X, Y) ==
    node \in X \cap Y /\ \A y \in X \cap Y : fg[node] + bg[node] <= fg[y] + bg[y]

Within(nodes, X) == \A i \in 1 .. Len(nodes) : nodes[i] \in X

\* The path through the best meeting node is sound: the two trails have no
\* other node in common, since it would be a better one to meet at.
LEMMA PathThroughIsGood ==
    ASSUME SearchTypes, NEW there, NEW back, NEW fg, NEW fd, NEW bg, NEW bd, NEW X, NEW Y, NEW s, NEW goal,
           Tree(there.hop, fg, fd, X, s, ForwardLinks, query.mode),
           Tree(back.hop, bg, bd, Y, goal, BackwardLinks, query.mode),
           NEW node, LeastAt(node, fg, bg, X, Y),
           NEW p, p = PathThrough(there, back, node, fg[node] + bg[node], fd[node] + bd[node])
    PROVE  GoodPath(p, s, goal) /\ Within(p.nodes, X \cup Y)
<1> DEFINE t == Trail(there.hop, node)
           b == Trail(back.hop, node)
           m == Len(t)
           k == Len(b)
<1>0. node \in X \cap Y /\ \A y \in X \cap Y : fg[node] + bg[node] <= fg[y] + bg[y]
  BY DEF LeastAt
<1>1. /\ Falls(there.hop, fg, X, s) /\ Falls(back.hop, bg, Y, goal) /\ X \subseteq Nodes /\ Y \subseteq Nodes
  BY DEF Tree
<1>2. /\ IsWalk(t, there.hop, X, node) /\ t[m] = s
      /\ IsWalk(b, back.hop, Y, node) /\ b[k] = goal
  BY <1>0, <1>1, TrailEnds
<1>3. /\ \A i, j \in 1 .. m : i < j => fg[t[j]] < fg[t[i]]
      /\ \A i, j \in 1 .. k : i < j => bg[b[j]] < bg[b[i]]
  BY <1>1, <1>2, WalkFalls
<1>4. Joined(p.nodes, p.edges, t, b, there, back) /\ p.time = fg[node] + bg[node] /\ p.km = fd[node] + bd[node]
  BY DEF PathThrough, Joined
<1> HIDE DEF t, b
<1>5. /\ m \in Nat /\ k \in Nat /\ m >= 1 /\ k >= 1 /\ t \in Seq(Nodes) /\ b \in Seq(Nodes)
      /\ \A i \in 1 .. m : t[i] \in X
      /\ \A i \in 1 .. k : b[i] \in Y
      /\ t[1] = node /\ b[1] = node
  BY <1>1, <1>2 DEF IsWalk
<1>6. \A x \in X : fg[x] \in Nat /\ fd[x] \in Nat
  BY <1>1 DEF Falls, Tree
<1>7. \A x \in Y : bg[x] \in Nat /\ bd[x] \in Nat
  BY <1>1 DEF Falls, Tree
<1>8. ASSUME NEW i \in 1 .. m - 1
      PROVE  LET e == there.hop[t[i]].edge
             IN  /\ e \in Edge /\ Passes(t[i + 1], e, t[i])
                 /\ fg[t[i]] = fg[t[i + 1]] + TravelTime(query.mode, e) /\ fd[t[i]] = fd[t[i + 1]] + e.km
  <2>1. t[i] \in DOMAIN there.hop /\ t[i + 1] = there.hop[t[i]].at
    BY <1>2 DEF IsWalk
  <2>2. /\ <<t[i], t[i + 1], there.hop[t[i]].edge>> \in ForwardLinks
        /\ fg[t[i]] = fg[t[i + 1]] + TravelTime(query.mode, there.hop[t[i]].edge)
        /\ fd[t[i]] = fd[t[i + 1]] + there.hop[t[i]].edge.km
    BY <2>1 DEF Tree
  <2>. QED
    BY <2>2 DEF ForwardLinks, Open, Passes
<1>9. ASSUME NEW i \in 1 .. k - 1
      PROVE  LET e == back.hop[b[i]].edge
             IN  /\ e \in Edge /\ Passes(b[i], e, b[i + 1])
                 /\ bg[b[i]] = bg[b[i + 1]] + TravelTime(query.mode, e) /\ bd[b[i]] = bd[b[i + 1]] + e.km
  <2>1. b[i] \in DOMAIN back.hop /\ b[i + 1] = back.hop[b[i]].at
    BY <1>2 DEF IsWalk
  <2>2. /\ <<b[i], b[i + 1], back.hop[b[i]].edge>> \in BackwardLinks
        /\ bg[b[i]] = bg[b[i + 1]] + TravelTime(query.mode, back.hop[b[i]].edge)
        /\ bd[b[i]] = bd[b[i + 1]] + back.hop[b[i]].edge.km
    BY <2>1 DEF Tree
  <2>. QED
    BY <2>2 DEF BackwardLinks, Open, Passes
<1> DEFINE n == m + k - 1
<1>10. /\ p.nodes \in Seq(Nodes) /\ Len(p.nodes) = n
       /\ p.edges \in Seq(Edge) /\ Len(p.edges) = n - 1
       /\ \A i \in 1 .. m : p.nodes[i] = t[m - i + 1]
       /\ \A i \in m .. n : p.nodes[i] = b[i - m + 1]
       /\ \A i \in 1 .. m - 1 : p.edges[i] = there.hop[t[m - i]].edge
       /\ \A i \in m .. n - 1 : p.edges[i] = back.hop[b[i - m + 1]].edge
  <2>1. EdgesAlong(there.hop, t)
    BY <1>8 DEF EdgesAlong
  <2>2. EdgesAlong(back.hop, b)
    BY <1>9 DEF EdgesAlong
  <2>3. t \in Seq(Nodes) /\ b \in Seq(Nodes) /\ Len(t) >= 1 /\ Len(b) >= 1 /\ t[1] = b[1]
    BY <1>5
  <2>4. AreJoined(p.nodes, p.edges, t, b, there, back)
    BY <1>4, <2>1, <2>2, <2>3, JoinParts
  <2>. QED
    BY <2>4 DEF AreJoined
<1> HIDE DEF m, k
<1>11. n \in Nat /\ n >= 1 /\ n - 1 \in Nat /\ m \in 1 .. n
  BY <1>5
<1> HIDE DEF n
<1> DEFINE P == [i \in 1 .. n |-> IF i <= m THEN fg[p.nodes[i]] ELSE fg[node] + bg[node] - bg[p.nodes[i]]]
           Q == [i \in 1 .. n |-> IF i <= m THEN fd[p.nodes[i]] ELSE fd[node] + bd[node] - bd[p.nodes[i]]]
<1>12. ASSUME NEW i \in 1 .. m PROVE p.nodes[i] \in X /\ p.nodes[i] = t[m - i + 1] /\ m - i + 1 \in 1 .. m
  <2>1. m - i + 1 \in 1 .. m
    BY <1>5
  <2>. QED
    BY <2>1, <1>5, <1>10
<1>13. ASSUME NEW i \in m .. n PROVE p.nodes[i] \in Y /\ p.nodes[i] = b[i - m + 1] /\ i - m + 1 \in 1 .. k
  <2>1. i - m + 1 \in 1 .. k
    BY <1>5, <1>13 DEF n
  <2>. QED
    BY <2>1, <1>5, <1>10
<1>14. /\ \A i \in 1 .. m : P[i] = fg[p.nodes[i]] /\ Q[i] = fd[p.nodes[i]]
       /\ \A i \in m .. n : P[i] = fg[node] + bg[node] - bg[p.nodes[i]] /\ Q[i] = fd[node] + bd[node] - bd[p.nodes[i]]
       /\ \A i \in 1 .. n : P[i] \in Int /\ Q[i] \in Int
  <2>1. p.nodes[m] = node
    BY <1>12, <1>5, <1>11
  <2>2. fg[node] \in Nat /\ bg[node] \in Nat /\ fd[node] \in Nat /\ bd[node] \in Nat
    BY <1>0, <1>6, <1>7
  <2>3. \A i \in 1 .. n : i <= m => i \in 1 .. m
    BY <1>5
  <2>4. \A i \in 1 .. n : ~(i <= m) => i \in m .. n
    BY <1>5, <1>11
  <2>5. \A i \in 1 .. m : P[i] = fg[p.nodes[i]] /\ Q[i] = fd[p.nodes[i]] /\ P[i] \in Int /\ Q[i] \in Int
    <3>1. \A i \in 1 .. m : i \in 1 .. n /\ i <= m
      BY <1>5, <1>11
    <3>2. \A i \in 1 .. m : fg[p.nodes[i]] \in Nat /\ fd[p.nodes[i]] \in Nat
      BY <1>6, <1>12
    <3>. QED
      BY <3>1, <3>2
  <2>6. \A i \in m .. n : /\ P[i] = fg[node] + bg[node] - bg[p.nodes[i]] /\ P[i] \in Int
                          /\ Q[i] = fd[node] + bd[node] - bd[p.nodes[i]] /\ Q[i] \in Int
    <3>1. ASSUME NEW i \in m .. n
          PROVE  i \in 1 .. n /\ (i <= m => i = m) /\ bg[p.nodes[i]] \in Nat /\ bd[p.nodes[i]] \in Nat
      BY <1>5, <1>7, <1>11, <1>13
    <3>2. ASSUME NEW i \in m .. n, i <= m
          PROVE  /\ P[i] = fg[node] + bg[node] - bg[p.nodes[i]] /\ Q[i] = fd[node] + bd[node] - bd[p.nodes[i]]
      BY <3>1, <3>2, <2>1, <2>2
    <3>3. ASSUME NEW i \in m .. n, ~(i <= m)
          PROVE  /\ P[i] = fg[node] + bg[node] - bg[p.nodes[i]] /\ Q[i] = fd[node] + bd[node] - bd[p.nodes[i]]
      BY <3>1, <3>3
    <3>4. ASSUME NEW i \in m .. n
          PROVE  fg[node] + bg[node] - bg[p.nodes[i]] \in Int /\ fd[node] + bd[node] - bd[p.nodes[i]] \in Int
      BY <3>1, <2>2
    <3> HIDE DEF P, Q
    <3>5. ASSUME NEW i \in m .. n
          PROVE  /\ P[i] = fg[node] + bg[node] - bg[p.nodes[i]]
                 /\ Q[i] = fd[node] + bd[node] - bd[p.nodes[i]]
      BY <3>2, <3>3
    <3>. QED
      BY <3>4, <3>5
  <2>. QED
    BY <2>3, <2>4, <2>5, <2>6
<1> HIDE DEF P, Q
<1>15. ASSUME NEW i \in 1 .. n - 1
       PROVE  /\ Passes(p.nodes[i], p.edges[i], p.nodes[i + 1])
              /\ P[i + 1] = P[i] + TravelTime(query.mode, p.edges[i]) /\ Q[i + 1] = Q[i] + p.edges[i].km
  <2>0. \A e \in Edge : TravelTime(query.mode, e) \in Nat /\ e.km \in Nat
    BY TravelTimeIsPositive DEF SearchTypes, Edge
  <2>1. CASE i < m
    <3>1. i \in 1 .. m /\ i + 1 \in 1 .. m /\ i \in 1 .. m - 1 /\ m - i \in 1 .. m - 1
      BY <1>5, <1>15, <2>1
    <3>2. m - (i + 1) + 1 = m - i /\ m - i + 1 = (m - i) + 1
      BY <1>5, <3>1
    <3>3. p.nodes[i] = t[(m - i) + 1] /\ p.nodes[i + 1] = t[m - i] /\ p.edges[i] = there.hop[t[m - i]].edge
      BY <3>1, <3>2, <1>10, <1>12
    <3>4. /\ Passes(t[(m - i) + 1], p.edges[i], t[m - i])
          /\ fg[t[m - i]] = fg[t[(m - i) + 1]] + TravelTime(query.mode, p.edges[i])
          /\ fd[t[m - i]] = fd[t[(m - i) + 1]] + p.edges[i].km
      BY <3>1, <3>3, <1>8 DEF m
    <3>. QED
      BY <3>1, <3>3, <3>4, <1>14
  <2>2. CASE m <= i
    <3>1. i \in m .. n /\ i + 1 \in m .. n /\ i \in m .. n - 1 /\ i - m + 1 \in 1 .. k - 1
      BY <1>5, <1>15, <2>2 DEF n
    <3>2. (i + 1) - m + 1 = (i - m + 1) + 1
      BY <1>5, <3>1
    <3> DEFINE j == i - m + 1
    <3>3. p.nodes[i] = b[j] /\ p.nodes[i + 1] = b[j + 1] /\ p.edges[i] = back.hop[b[j]].edge
      BY <3>1, <3>2, <1>10, <1>13
    <3>4. j \in 1 .. k - 1
      BY <3>1
    <3> HIDE DEF j
    <3>5. /\ p.edges[i] \in Edge /\ Passes(b[j], p.edges[i], b[j + 1])
          /\ bg[b[j]] = bg[b[j + 1]] + TravelTime(query.mode, p.edges[i])
          /\ bd[b[j]] = bd[b[j + 1]] + p.edges[i].km
      BY <3>3, <3>4, <1>9 DEF k
    <3>6. /\ bg[b[j + 1]] \in Nat /\ bd[b[j + 1]] \in Nat
          /\ fg[node] \in Nat /\ bg[node] \in Nat /\ fd[node] \in Nat /\ bd[node] \in Nat
          /\ TravelTime(query.mode, p.edges[i]) \in Nat /\ p.edges[i].km \in Nat
      BY <3>1, <3>3, <3>5, <2>0, <1>0, <1>6, <1>7, <1>13
    <3>7. /\ P[i] = fg[node] + bg[node] - bg[b[j]] /\ P[i + 1] = fg[node] + bg[node] - bg[b[j + 1]]
          /\ Q[i] = fd[node] + bd[node] - bd[b[j]] /\ Q[i + 1] = fd[node] + bd[node] - bd[b[j + 1]]
      BY <3>1, <3>3, <1>14
    <3>. QED
      BY <3>3, <3>5, <3>6, <3>7
  <2>. QED
    BY <2>1, <2>2, <1>5, <1>15
<1>16. p.nodes[1] = s /\ p.nodes[n] = goal
  <2>1. 1 \in 1 .. m /\ n \in m .. n /\ m - 1 + 1 = m /\ n - m + 1 = k
    BY <1>5, <1>11 DEF n
  <2>. QED
    BY <2>1, <1>2, <1>12, <1>13 DEF m, k
<1>17. ASSUME NEW i \in 1 .. n, NEW j \in 1 .. n, i < j PROVE p.nodes[i] # p.nodes[j]
  <2>1. CASE j <= m
    <3>1. i \in 1 .. m /\ j \in 1 .. m /\ m - j + 1 < m - i + 1
      BY <1>5, <1>17, <2>1
    <3>2. fg[p.nodes[i]] < fg[p.nodes[j]] /\ fg[p.nodes[i]] \in Nat
      BY <3>1, <1>3, <1>6, <1>12 DEF m
    <3>. QED
      BY <3>2
  <2>2. CASE m <= i
    <3>1. i \in m .. n /\ j \in m .. n /\ i - m + 1 < j - m + 1
      BY <1>5, <1>17, <2>2
    <3>2. bg[p.nodes[j]] < bg[p.nodes[i]] /\ bg[p.nodes[i]] \in Nat
      BY <3>1, <1>3, <1>7, <1>13 DEF k
    <3>. QED
      BY <3>2
  <2>3. CASE i < m /\ m < j
    <3>1. i \in 1 .. m /\ j \in m .. n /\ 1 < m - i + 1 /\ 1 < j - m + 1 /\ 1 \in 1 .. m /\ 1 \in 1 .. k
      BY <1>5, <1>17, <2>3
    <3>2. p.nodes[i] \in X /\ fg[p.nodes[i]] < fg[node] /\ p.nodes[j] \in Y /\ bg[p.nodes[j]] < bg[node]
      BY <3>1, <1>3, <1>5, <1>12, <1>13 DEF m, k
    <3>3. p.nodes[i] = p.nodes[j] => fg[node] + bg[node] <= fg[p.nodes[i]] + bg[p.nodes[i]]
      BY <3>2, <1>0
    <3>4. fg[node] \in Nat /\ bg[node] \in Nat /\ fg[p.nodes[i]] \in Nat /\ bg[p.nodes[j]] \in Nat
      BY <3>2, <1>0, <1>6, <1>7
    <3>. QED
      BY <3>2, <3>3, <3>4
  <2>. QED
    BY <2>1, <2>2, <2>3, <1>5, <1>17
<1>18. \A i, j \in 1 .. n : p.nodes[i] = p.nodes[j] => i = j
  BY <1>11, <1>17
<1>19. TotalTime(query.mode, p.edges) = P[n] - P[1] /\ TotalKm(p.edges) = Q[n] - Q[1]
  <2>1. n - 1 \in Nat /\ (n - 1) + 1 = n
    BY <1>11
  <2> DEFINE l == n - 1
  <2>2. l \in Nat /\ l + 1 = n /\ Len(p.edges) = l /\ query.mode \in Modes
    BY <1>10, <1>11 DEF SearchTypes
  <2>3. \A i \in 1 .. l + 1 : P[i] \in Int /\ Q[i] \in Int
    BY <2>2, <1>14
  <2>4. \A i \in 1 .. l : P[i + 1] = P[i] + TravelTime(query.mode, p.edges[i]) /\ Q[i + 1] = Q[i] + p.edges[i].km
    BY <1>15
  <2> HIDE DEF l
  <2>5. TotalTime(query.mode, p.edges) = P[l + 1] - P[1] /\ TotalKm(p.edges) = Q[l + 1] - Q[1]
    <3>1. AddUp(P, Q, query.mode, p.edges, l)
      BY <2>3, <2>4 DEF AddUp
    <3>. QED
      BY <1>10, <2>2, <3>1, EdgeSums
  <2>. QED
    BY <2>2, <2>5
<1>20. P[n] = p.time /\ Q[n] = p.km /\ P[1] = 0 /\ Q[1] = 0
  <2>1. fg[s] = 0 /\ fd[s] = 0 /\ bg[goal] = 0 /\ bd[goal] = 0
    BY DEF Tree
  <2>2. 1 \in 1 .. m /\ n \in m .. n
    BY <1>5, <1>11
  <2>3. fg[node] \in Nat /\ bg[node] \in Nat /\ fd[node] \in Nat /\ bd[node] \in Nat
    BY <1>0, <1>6, <1>7
  <2>. QED
    BY <2>1, <2>2, <2>3, <1>4, <1>14, <1>16
<1>21. p.time \in Nat /\ p.km \in Nat
  BY <1>0, <1>4, <1>6, <1>7
<1>22. p.time = TotalTime(query.mode, p.edges) /\ p.km = TotalKm(p.edges)
  BY <1>19, <1>20, <1>21
<1>23. IsPath(p.nodes, p.edges, s, goal)
  BY <1>10, <1>11, <1>15, <1>16, <1>18 DEF IsPath
<1>24. \A i \in 1 .. n : p.nodes[i] \in X \cup Y
  BY <1>5, <1>11, <1>12, <1>13
<1>. QED
  BY <1>10, <1>22, <1>23, <1>24 DEF GoodPath, Within

\* edgeBetween finds an edge where there is one.
LEMMA EdgeBetweenPasses ==
    ASSUME SearchTypes, NEW a \in Nodes, NEW b, NEW e, Passes(a, e, b)
    PROVE  EdgeBetween(a, b) \in Edge /\ Passes(a, EdgeBetween(a, b), b)
<1> DEFINE es == G.edges[a]
           ok == {i \in DOMAIN es : es[i].to = b /\ EdgeAllowed(query.mode, es[i])}
           Best(i) == \A j \in ok : es[i].km < es[j].km \/ (es[i].km = es[j].km /\ i <= j)
<1>1. \A i \in DOMAIN es : i \in Nat /\ es[i] \in Edge /\ es[i] \in Range(es)
  <2>1. es \in Seq(Edge)
    BY FreeNodes
  <2>. QED
    BY <2>1 DEF Range
<1>2. \A i \in ok : i \in Nat /\ es[i].km \in Nat
  BY <1>1 DEF Edge
<1>3. ok # {}
  BY DEF Passes, Range
<1>4. EdgeBetween(a, b) = es[CHOOSE i \in ok : Best(i)]
  BY DEF EdgeBetween
<1>5. \A i \in ok : i \in DOMAIN es /\ es[i].to = b /\ EdgeAllowed(query.mode, es[i])
  OBVIOUS
<1> HIDE DEF ok, es
<1>6. PICK t \in {es[i].km : i \in ok} : \A y \in {es[i].km : i \in ok} : t <= y
  <2>1. {es[i].km : i \in ok} \in SUBSET Nat /\ {es[i].km : i \in ok} # {}
    BY <1>2, <1>3
  <2>. QED
    BY <2>1, Smallest
<1>7. PICK i \in {j \in ok : es[j].km = t} : \A j \in {j \in ok : es[j].km = t} : i <= j
  <2>1. {j \in ok : es[j].km = t} \in SUBSET Nat /\ {j \in ok : es[j].km = t} # {}
    BY <1>2, <1>6
  <2>. QED
    BY <2>1, Smallest
<1>8. Best(i)
  BY <1>2, <1>6, <1>7
<1> DEFINE k == CHOOSE k \in ok : Best(k)
<1>9. k \in ok
  BY <1>7, <1>8
<1> HIDE DEF k
<1>10. EdgeBetween(a, b) = es[k]
  BY <1>4 DEF k
<1>. QED
  BY <1>1, <1>5, <1>9, <1>10 DEF Passes, es

\* The nodes of a root and a spur path.
LEMMA CombinedNodes ==
    ASSUME NEW r \in Seq(Nodes), NEW q \in Seq(Nodes), NEW n \in Nat, n >= 1, n <= Len(r), Len(q) >= 1,
           r[n] = q[1], NEW c, c = SubSeq(r, 1, n) \o Tail(q)
    PROVE  /\ c \in Seq(Nodes) /\ Len(c) = n + Len(q) - 1
           /\ \A i \in 1 .. n : c[i] = r[i]
           /\ \A i \in n .. Len(c) : c[i] = q[i - n + 1]
<1> DEFINE a == SubSeq(r, 1, n)
           b == Tail(q)
           k == Len(q)
<1>1. k \in Nat /\ k >= 1 /\ k - 1 \in Nat
  OBVIOUS
<1>2. a \in Seq(Nodes) /\ Len(a) = n /\ \A i \in 1 .. n : a[i] = r[i]
  <2>1. 1 \in 1 .. Len(r) + 1 /\ n \in 0 .. Len(r)
    OBVIOUS
  <2>2. a \in Seq(Nodes)
    BY <2>1
  <2>3. Len(a) = n
    BY <2>1
  <2>4. \A i \in 1 .. n : a[i] = r[i]
    <3>1. a = [i \in 1 .. (n - 1 + 1) |-> r[i + 1 - 1]]
      BY <2>1
    <3>2. \A i \in 1 .. n : i + 1 - 1 = i /\ i \in 1 .. (n - 1 + 1)
      OBVIOUS
    <3> HIDE DEF a
    <3>. QED
      BY <3>1, <3>2
  <2>. QED
    BY <2>2, <2>3, <2>4
<1>3. b \in Seq(Nodes) /\ Len(b) = k - 1 /\ \A i \in 1 .. k - 1 : b[i] = q[i + 1]
  <2>1. q # <<>>
    BY <1>1
  <2>. QED
    BY <1>1, <2>1
<1>4. c = a \o b
  OBVIOUS
<1> HIDE DEF a, b, k
<1>5. IsConcat(Nodes, c, a, b, n, k - 1)
  BY <1>1, <1>2, <1>3, <1>4, Concat
<1>6. /\ c \in Seq(Nodes) /\ Len(c) = n + (k - 1)
      /\ \A i \in 1 .. n : c[i] = r[i]
      /\ \A i \in n + 1 .. n + (k - 1) : c[i] = b[i - n]
  BY <1>2, <1>5 DEF IsConcat
<1>7. Len(c) = n + k - 1
  BY <1>1, <1>6
<1>8. ASSUME NEW i \in n .. n + k - 1 PROVE c[i] = q[i - n + 1]
  <2>1. CASE i = n
    <3>1. c[i] = r[n] /\ i - n + 1 = 1
      BY <1>6, <2>1
    <3>. QED
      BY <3>1
  <2>2. CASE i # n
    <3>1. i \in n + 1 .. n + (k - 1) /\ i - n \in 1 .. k - 1
      BY <1>1, <1>8, <2>2
    <3>. QED
      BY <3>1, <1>3, <1>6
  <2>. QED
    BY <2>1, <2>2
<1>. QED
  BY <1>6, <1>7, <1>8 DEF k

\* A root followed by a spur path that avoids it is sound again.
LEMMA CombineIsGood ==
    ASSUME SearchTypes, NEW r, NEW es, IsPath(r, es, query.start, query.goal), NEW n \in 1 .. Len(r) - 1,
           NEW p, IsPath(p.nodes, p.edges, r[n], query.goal),
           \A i \in 1 .. Len(p.nodes) : \A j \in 1 .. n - 1 : p.nodes[i] # r[j],
           NEW c, c = Combine(SubSeq(r, 1, n), p)
    PROVE  GoodPath(c, query.start, query.goal)
<1> DEFINE q == p.nodes
           nodes == SubSeq(r, 1, n) \o Tail(q)
           edges == [i \in 1 .. Len(nodes)-1 |-> EdgeBetween(nodes[i], nodes[i+1])]
<1>1. /\ c.nodes = nodes /\ c.edges = edges /\ c.time = TotalTime(query.mode, edges) /\ c.km = TotalKm(edges)
  BY DEF Combine
<1>2. /\ r \in Seq(Nodes) /\ q \in Seq(Nodes) /\ Len(q) >= 1 /\ n \in Nat /\ n >= 1 /\ n <= Len(r) /\ r[n] = q[1]
      /\ Len(r) \in Nat /\ Len(q) \in Nat /\ n < Len(r)
  BY DEF IsPath
<1> DEFINE k == Len(q)
           m == Len(r)
           l == n + k - 1
<1>3. /\ nodes \in Seq(Nodes) /\ Len(nodes) = l
      /\ \A i \in 1 .. n : nodes[i] = r[i]
      /\ \A i \in n .. l : nodes[i] = q[i - n + 1]
  BY <1>2, CombinedNodes
<1>a. k \in Nat /\ m \in Nat /\ k >= 1 /\ n < m /\ n \in Nat /\ n >= 1
  BY <1>2
<1> HIDE DEF nodes, q, k, m
<1>4. l \in Nat /\ l >= 1 /\ n <= l /\ l - n + 1 = k /\ l - 1 \in Nat
  BY <1>a
<1> HIDE DEF l
<1>b. edges = [i \in 1 .. l - 1 |-> EdgeBetween(nodes[i], nodes[i+1])]
  BY <1>3
<1> HIDE DEF edges
<1>5. ASSUME NEW i \in 1 .. l - 1 PROVE \E e : Passes(nodes[i], e, nodes[i + 1])
  <2>1. CASE i < n
    <3>1. i \in 1 .. n /\ i + 1 \in 1 .. n /\ i \in 1 .. m - 1
      BY <1>a, <1>4, <1>5, <2>1
    <3>2. Passes(r[i], es[i], r[i + 1])
      BY <3>1 DEF IsPath, m
    <3>. QED
      BY <3>1, <3>2, <1>3
  <2>2. CASE n <= i
    <3>1. /\ i \in n .. l /\ i + 1 \in n .. l /\ i - n + 1 \in 1 .. k - 1
          /\ (i + 1) - n + 1 = (i - n + 1) + 1
      BY <1>a, <1>4, <1>5, <2>2
    <3>2. Passes(q[i - n + 1], p.edges[i - n + 1], q[(i - n + 1) + 1])
      BY <3>1 DEF IsPath, q, k
    <3>. QED
      BY <3>1, <3>2, <1>3
  <2>. QED
    BY <2>1, <2>2, <1>a, <1>5
<1>6. ASSUME NEW i \in 1 .. l - 1 PROVE edges[i] \in Edge /\ Passes(nodes[i], edges[i], nodes[i + 1])
  <2>1. nodes[i] \in Nodes
    <3>1. i \in 1 .. l
      BY <1>4, <1>6
    <3>. QED
      BY <1>3, <3>1
  <2>2. edges[i] = EdgeBetween(nodes[i], nodes[i + 1])
    BY <1>b
  <2>. QED
    BY <1>5, <2>1, <2>2, EdgeBetweenPasses
<1>7. edges \in Seq(Edge) /\ Len(edges) = l - 1
  <2>1. edges \in [1 .. l - 1 -> Edge]
    BY <1>6, <1>b
  <2>. QED
    BY <1>4, <2>1
<1>8. nodes[1] = query.start /\ nodes[l] = query.goal
  <2>1. 1 \in 1 .. n /\ l \in n .. l
    BY <1>a, <1>4
  <2>2. nodes[1] = r[1] /\ nodes[l] = q[k]
    BY <2>1, <1>3, <1>4
  <2>. QED
    BY <2>2 DEF IsPath, q, k
<1>9. ASSUME NEW i \in 1 .. l, NEW j \in 1 .. l, i < j PROVE nodes[i] # nodes[j]
  <2>1. CASE j <= n
    <3>1. i \in 1 .. n /\ j \in 1 .. n /\ i \in 1 .. m /\ j \in 1 .. m /\ i # j
      BY <1>a, <1>4, <1>9, <2>1
    <3>. QED
      BY <3>1, <1>3 DEF IsPath, m
  <2>2. CASE n <= i
    <3>1. /\ i \in n .. l /\ j \in n .. l /\ i - n + 1 # j - n + 1
          /\ i - n + 1 \in 1 .. k /\ j - n + 1 \in 1 .. k
      BY <1>a, <1>4, <1>9, <2>2
    <3>2. nodes[i] = q[i - n + 1] /\ nodes[j] = q[j - n + 1]
      BY <3>1, <1>3
    <3>3. \A a, b \in 1 .. k : q[a] = q[b] => a = b
      BY DEF IsPath, q, k
    <3> HIDE DEF q, k
    <3>. QED
      BY <3>1, <3>2, <3>3, SMTT(30)
  <2>3. CASE i < n /\ n < j
    <3>1. i \in 1 .. n /\ i \in 1 .. n - 1 /\ j \in n .. l /\ j - n + 1 \in 1 .. k
      BY <1>a, <1>4, <1>9, <2>3
    <3>. QED
      BY <3>1, <1>3 DEF q, k
  <2>. QED
    BY <2>1, <2>2, <2>3, <1>a, <1>9
<1>10. \A i, j \in 1 .. l : nodes[i] = nodes[j] => i = j
  BY <1>4, <1>9
<1>11. IsPath(nodes, edges, query.start, query.goal)
  BY <1>3, <1>4, <1>6, <1>7, <1>8, <1>10 DEF IsPath
<1>. QED
  BY <1>1, <1>11 DEF GoodPath

-----------------------------------------------------------------------------
(* The invariant of the search. *)

Path == [nodes : Seq(Nodes), edges : Seq(Edge), time : Nat, km : Nat]

\* Where the search is, and what it works on.
Shape ==
    /\ phase \in {"idle", "refused", "first", "spurs", "spur", "done"}
    /\ spur \in Nat \ {0} /\ accepted \in Seq(Path) /\ candidates \in SUBSET Path
    /\ phase \in {"idle", "refused", "first"} => accepted = <<>> /\ candidates = {}
    /\ phase \in {"first", "spurs", "spur", "done"} =>
         /\ SearchTypes /\ query.algorithm \in Algorithms
         /\ query.algorithm = "astar" => query.start # query.goal
    /\ phase = "first" => from = query.start /\ blocked = [edges |-> {}, nodes |-> {}]
    /\ phase \in {"spurs", "spur"} => query.algorithm = "yen" /\ accepted # <<>>
    /\ phase = "spur" => /\ spur < Len(Last(accepted).nodes)
                         /\ from = Last(accepted).nodes[spur]
                         /\ blocked.nodes = {Last(accepted).nodes[i] : i \in 1 .. spur - 1}

\* The paths found so far are sound, and no two visit the same nodes.
Paths ==
    /\ \A i \in DOMAIN accepted : GoodPath(accepted[i], query.start, query.goal) /\ accepted[i].nodes \in seen
    /\ \A c \in candidates : GoodPath(c, query.start, query.goal) /\ c.nodes \in seen
    /\ \A i, j \in DOMAIN accepted : accepted[i].nodes = accepted[j].nodes => i = j
    /\ \A i \in DOMAIN accepted : \A c \in candidates : accepted[i].nodes # c.nodes
    /\ \A c, o \in candidates : c.nodes = o.nodes => c = o

\* The labels of the running search are exact.
Sides ==
    Searching =>
      /\ SideOK(fwd, from, Free, ForwardLinks, query.mode)
      /\ query.algorithm = "yen" => SideOK(bwd, query.goal, Free, BackwardLinks, query.mode)
      /\ query.algorithm = "astar" => bwd = NoSide /\ query.goal \notin fwd.closed
      /\ from # query.goal => BestOK(best, fwd, bwd)

\* The links depend on the graph, the request and what is blocked.
LEMMA LinksStay ==
    ASSUME UNCHANGED <<graph, query, blocked>>
    PROVE  Free' = Free /\ ForwardLinks' = ForwardLinks /\ BackwardLinks' = BackwardLinks
<1>1. G' = G
  BY DEF G
<1>2. Free' = Free
  BY <1>1 DEF Free
<1>3. \A at, e : Open(at, e)' <=> Open(at, e)
  BY DEF Open
<1>. QED
  BY <1>1, <1>2, <1>3 DEF ForwardLinks, BackwardLinks

\* A path is good for the graph and the request.
LEMMA PathsStay ==
    ASSUME UNCHANGED <<graph, query>>
    PROVE  /\ SearchTypes => SearchTypes'
           /\ \A p, s, t : GoodPath(p, s, t) => GoodPath(p, s, t)'
<1>1. G' = G
  BY DEF G
<1>2. \A p, s, t : IsPath(p.nodes, p.edges, s, t) => IsPath(p.nodes, p.edges, s, t)'
  BY <1>1 DEF IsPath, Passes
<1>. QED
  BY <1>1, <1>2 DEF SearchTypes, GoodPath

\* A good path is a path, and not the answer "no path".
LEMMA GoodPathIsAPath ==
    ASSUME SearchTypes, NEW nodes, NEW edges, NEW time, NEW km, NEW s, NEW t,
           NEW p, p = [nodes |-> nodes, edges |-> edges, time |-> time, km |-> km], GoodPath(p, s, t)
    PROVE  p \in Path /\ p # NotFound
<1>1. /\ nodes \in Seq(Nodes) /\ Len(nodes) >= 1 /\ edges \in Seq(Edge)
      /\ time = TotalTime(query.mode, edges) /\ km = TotalKm(edges)
  BY DEF GoodPath, IsPath
<1>2. time \in Nat /\ km \in Nat
  <2> DEFINE n == Len(edges)
             times == [i \in DOMAIN edges |-> TravelTime(query.mode, edges[i])]
             kms == [i \in DOMAIN edges |-> edges[i].km]
  <2>1. n \in Nat /\ DOMAIN edges = 1 .. n /\ \A i \in 1 .. n : edges[i] \in Edge
    BY <1>1
  <2>2. Len(times) = n /\ Len(kms) = n
    BY <2>1
  <2>3. \A i \in 1 .. n : edges[i].km \in Nat /\ TravelTime(query.mode, edges[i]) \in Nat
    BY <2>1, TravelTimeIsPositive DEF SearchTypes, Edge
  <2>4. (\A i \in 1 .. n : times[i] \in Nat) /\ (\A i \in 1 .. n : kms[i] \in Nat)
    BY <2>1, <2>3
  <2>5. time = Total(times) /\ km = Total(kms)
    BY <1>1 DEF TotalTime, TotalKm
  <2> HIDE DEF n, times, kms
  <2>. QED
    BY <2>1, <2>2, <2>4, <2>5, TotalIsNat
<1>3. p.nodes # <<>>
  BY <1>1
<1>. QED
  BY <1>1, <1>2, <1>3 DEF Path, NotFound

\* A path the running search may return.
Found(p) ==
    /\ p \in Path /\ p # NotFound /\ GoodPath(p, from, query.goal)
    /\ \A i \in 1 .. Len(p.nodes) : p.nodes[i] \notin blocked.nodes

\* The first search returns.
LEMMA ReturnKeepsFirst ==
    ASSUME Shape, Paths, phase = "first", NEW p, p = NotFound \/ Found(p), Return(p)
    PROVE  /\ Shape' /\ Paths' /\ phase' \in {"done", "spurs"}
           /\ accepted' = IF p = NotFound THEN <<>> ELSE <<p>>
           /\ p = NotFound \/ query.algorithm = "astar" => phase' = "done"
<1>1. /\ UNCHANGED <<graph, query, from, blocked, expired, candidates>>
      /\ accepted' = IF p = NotFound THEN <<>> ELSE <<p>>
      /\ seen' = {p.nodes} /\ spur' = 1
      /\ phase' = IF \/ query.algorithm = "astar" \/ p = NotFound
                     \/ query.k = 1 \/ Len(p.nodes) < 3
                  THEN "done" ELSE "spurs"
  BY DEF Return, searchVars
<1>2. /\ SearchTypes /\ query.algorithm \in Algorithms /\ from = query.start /\ candidates = {}
      /\ query.algorithm = "astar" => query.start # query.goal
  BY DEF Shape
<1>3. SearchTypes' /\ query' = query /\ candidates' = {} /\ phase' \in {"done", "spurs"}
  BY <1>1, <1>2, PathsStay
<1>4. query.algorithm # "astar" => query.algorithm = "yen"
  BY <1>2 DEF Algorithms
<1>5. CASE p = NotFound
  <2>1. accepted' = <<>> /\ phase' = "done"
    BY <1>1, <1>5
  <2>2. Shape'
    BY <1>1, <1>2, <1>3, <2>1 DEF Shape
  <2>3. Paths'
    BY <1>3, <2>1 DEF Paths
  <2>. QED
    BY <1>1, <1>5, <2>1, <2>2, <2>3
<1>6. CASE p # NotFound
  <2>1. accepted' = <<p>> /\ p \in Path /\ GoodPath(p, query.start, query.goal)
    BY <1>1, <1>2, <1>6 DEF Found
  <2>2. accepted' \in Seq(Path) /\ accepted' # <<>> /\ DOMAIN accepted' = {1} /\ accepted'[1] = p
    BY <2>1
  <2>3. GoodPath(p, query.start, query.goal)'
    BY <1>1, <2>1, PathsStay
  <2>4. Shape'
    BY <1>1, <1>2, <1>3, <1>4, <2>2 DEF Shape
  <2>5. Paths'
    BY <1>1, <1>3, <2>2, <2>3 DEF Paths
  <2>. QED
    BY <1>1, <1>3, <1>6, <2>4, <2>5
<1>. QED
  BY <1>5, <1>6

\* The path accepted last.
LEMMA LastAccepted ==
    ASSUME Shape, Paths, accepted # <<>>
    PROVE  /\ Len(accepted) \in DOMAIN accepted /\ Last(accepted) = accepted[Len(accepted)]
           /\ Last(accepted) \in Path /\ GoodPath(Last(accepted), query.start, query.goal)
           /\ DOMAIN accepted = 1 .. Len(accepted) /\ Len(accepted) \in Nat
           /\ Len(Last(accepted).nodes) \in Nat
<1>1. accepted \in Seq(Path)
  BY DEF Shape
<1>2. Len(accepted) \in Nat /\ Len(accepted) > 0 /\ DOMAIN accepted = 1 .. Len(accepted)
  BY <1>1
<1>3. Len(accepted) \in DOMAIN accepted /\ accepted[Len(accepted)] \in Path
  BY <1>1, <1>2
<1>4. Last(accepted) = accepted[Len(accepted)]
  BY DEF Last
<1>5. GoodPath(Last(accepted), query.start, query.goal)
  BY <1>3, <1>4 DEF Paths
<1>6. Len(Last(accepted).nodes) \in Nat
  BY <1>3, <1>4 DEF Path
<1>. QED
  BY <1>2, <1>3, <1>4, <1>5, <1>6

\* A root and the spur path found behind it make a good path.
LEMMA CombineIsFound ==
    ASSUME Shape, Paths, phase = "spur", NEW p, Found(p), NEW c, c = Combine(Root, p)
    PROVE  c \in Path /\ GoodPath(c, query.start, query.goal)
<1> DEFINE r == Last(accepted)
<1>1. /\ SearchTypes /\ accepted # <<>> /\ spur \in Nat \ {0} /\ spur < Len(r.nodes)
      /\ from = r.nodes[spur] /\ blocked.nodes = {r.nodes[i] : i \in 1 .. spur - 1}
  BY DEF Shape
<1>2. GoodPath(r, query.start, query.goal) /\ Len(r.nodes) \in Nat
  BY <1>1, LastAccepted
<1>3. spur \in 1 .. Len(r.nodes) - 1
  BY <1>1, <1>2
<1>4. \A i \in 1 .. Len(p.nodes) : \A j \in 1 .. spur - 1 : p.nodes[i] # r.nodes[j]
  BY <1>1 DEF Found
<1>5. c = Combine(SubSeq(r.nodes, 1, spur), p)
  BY DEF Root
<1> HIDE DEF r
<1>6. GoodPath(c, query.start, query.goal)
  <2>1. IsPath(r.nodes, r.edges, query.start, query.goal) /\ IsPath(p.nodes, p.edges, r.nodes[spur], query.goal)
    BY <1>1, <1>2 DEF GoodPath, Found
  <2>. QED
    BY <1>1, <1>3, <1>4, <1>5, <2>1, CombineIsGood
<1>7. c \in Path
  BY <1>1, <1>6, GoodPathIsAPath DEF Combine
<1>. QED
  BY <1>6, <1>7

\* A spur search returns.
LEMMA ReturnKeepsSpur ==
    ASSUME Shape, Paths, phase = "spur", NEW p, p = NotFound \/ Found(p), Return(p)
    PROVE  Shape' /\ Paths' /\ phase' = "spurs" /\ accepted' # <<>>
<1>0. PICK c : c = Combine(Root, p)
  OBVIOUS
<1>1. /\ UNCHANGED <<graph, query, from, blocked, expired, accepted>>
      /\ IF p = NotFound \/ c.nodes \in seen THEN UNCHANGED <<candidates, seen>>
         ELSE candidates' = candidates \cup {c} /\ seen' = seen \cup {c.nodes}
      /\ spur' = spur + 1 /\ phase' = "spurs"
  BY <1>0 DEF Return, searchVars
<1>2. SearchTypes /\ query.algorithm = "yen" /\ accepted # <<>>
  BY DEF Shape
<1>3. /\ SearchTypes' /\ query' = query
      /\ \A q \in Path : GoodPath(q, query.start, query.goal) => GoodPath(q, query.start, query.goal)'
  BY <1>1, <1>2, PathsStay
<1>4. \A q \in candidates : GoodPath(q, query.start, query.goal)' /\ q.nodes \in seen
  BY <1>1, <1>3 DEF Paths, Shape
<1>5. /\ \A i \in DOMAIN accepted' : GoodPath(accepted[i], query.start, query.goal)'
      /\ \A i \in DOMAIN accepted : accepted[i].nodes \in seen
  <2>1. \A i \in DOMAIN accepted : accepted[i] \in Path
    BY DEF Shape
  <2>. QED
    BY <1>1, <1>3, <2>1 DEF Paths
<1>6. CASE p = NotFound \/ c.nodes \in seen
  <2>1. UNCHANGED <<candidates, seen>>
    BY <1>1, <1>6
  <2>2. Shape'
    BY <1>1, <1>2, <1>3, <2>1 DEF Shape
  <2>3. Paths'
    BY <1>1, <1>3, <1>4, <1>5, <2>1 DEF Paths
  <2>. QED
    BY <1>1, <1>2, <2>2, <2>3
<1>7. CASE ~(p = NotFound \/ c.nodes \in seen)
  <2>1. candidates' = candidates \cup {c} /\ seen' = seen \cup {c.nodes} /\ c.nodes \notin seen
    BY <1>1, <1>7
  <2>2. c \in Path /\ GoodPath(c, query.start, query.goal)
    BY <1>0, <1>7, CombineIsFound
  <2>3. Shape'
    BY <1>1, <1>2, <1>3, <2>1, <2>2 DEF Shape
  <2>4. GoodPath(c, query.start, query.goal)'
    BY <1>1, <1>3, <2>2
  <2>5. Paths'
    <3>1. \A i \in DOMAIN accepted' : GoodPath(accepted[i], query.start, query.goal)' /\ accepted'[i].nodes \in seen'
      BY <1>1, <1>5, <2>1
    <3>2. \A o \in candidates' : GoodPath(o, query.start, query.goal)' /\ o.nodes \in seen'
      BY <1>4, <2>1, <2>4
    <3>3. \A i, j \in DOMAIN accepted' : accepted'[i].nodes = accepted'[j].nodes => i = j
      BY <1>1 DEF Paths
    <3>4. \A i \in DOMAIN accepted' : \A o \in candidates' : accepted'[i].nodes # o.nodes
      BY <1>1, <1>5, <2>1 DEF Paths
    <3>5. \A o, q \in candidates' : o.nodes = q.nodes => o = q
      BY <1>4, <2>1 DEF Paths
    <3>. QED
      BY <3>1, <3>2, <3>3, <3>4, <3>5 DEF Paths
  <2>. QED
    BY <1>1, <1>2, <2>3, <2>5
<1>. QED
  BY <1>6, <1>7

SearchInv == Shape /\ Paths /\ Sides

\* The loaded graphs list edges between their nodes.
GraphTypes == \A net \in Nets : graph[net] \in GraphOver(Nodes \X Edge)

\* The side aStar does not have.
LEMMA NoSideLabels ==
    AreLabels(NoSide) /\ DOMAIN NoSide.g = {} /\ NoSide.hop = <<>>
<1>1. NoSide.g = <<>> /\ NoSide.hop = <<>>
  BY DEF NoSide
<1>2. DOMAIN <<>> = {}
  OBVIOUS
<1>. QED
  BY <1>1, <1>2 DEF AreLabels

\* A request that is refused keeps the invariant.
LEMMA RefuseKeeps ==
    ASSUME SearchInv, Refuse
    PROVE  SearchInv'
<1>1. /\ UNCHANGED <<graph, query, accepted, candidates, seen, spur>> /\ phase' = "refused" /\ phase = "idle"
  BY DEF Refuse, searchVars, yenVars
<1>2. accepted = <<>> /\ candidates = {}
  BY <1>1 DEF SearchInv, Shape
<1>3. Shape'
  BY <1>1, <1>2 DEF SearchInv, Shape
<1>4. Paths'
  BY <1>1, <1>2 DEF Paths
<1>5. Sides'
  BY <1>1 DEF Sides, Searching
<1>. QED
  BY <1>3, <1>4, <1>5 DEF SearchInv

\* The sides of a search that begins at a free node.
LEMMA StartKeeps ==
    ASSUME NEW s, NEW edges, NEW nodes, StartSearch(s, edges, nodes), SearchTypes',
           query'.algorithm \in Algorithms, s \in Free', query'.goal \in Free'
    PROVE  /\ Sides' /\ from' = s /\ blocked' = [edges |-> edges, nodes |-> nodes]
<1>1. /\ from' = s /\ blocked' = [edges |-> edges, nodes |-> nodes] /\ fwd' = StartSide(s)
      /\ bwd' = IF query'.algorithm = "yen" THEN StartSide(query'.goal) ELSE NoSide
      /\ best' = NotMet
  BY DEF StartSearch
<1>2. /\ SideOK(fwd', from', Free', ForwardLinks', query'.mode) /\ DOMAIN fwd'.g = {s} /\ fwd'.closed = {}
      /\ SideOK(StartSide(query'.goal), query'.goal, Free', BackwardLinks', query'.mode)
      /\ DOMAIN StartSide(query'.goal).g = {query'.goal}
  BY <1>1, StartSideOK
<1>3. query'.algorithm = "yen" => SideOK(bwd', query'.goal, Free', BackwardLinks', query'.mode)
  BY <1>1, <1>2
<1>4. query'.algorithm = "astar" => bwd' = NoSide /\ query'.goal \notin fwd'.closed
  BY <1>1, <1>2
<1>5. DOMAIN bwd'.g \subseteq {query'.goal}
  BY <1>1, <1>2, NoSideLabels
<1>6. s # query'.goal => BestOK(best', fwd', bwd')
  BY <1>1, <1>2, <1>5 DEF BestOK, Meets, NotMet
<1>. QED
  BY <1>1, <1>2, <1>3, <1>4, <1>6 DEF Sides

\* A request that begins establishes the invariant.
LEMMA BeginKeeps ==
    ASSUME SearchInv, GraphTypes, NEW net \in Nets, NEW mode \in Modes, NEW places,
           NEW starts, NEW goals, starts \subseteq graph[net].nodes, goals \subseteq graph[net].nodes,
           NEW k, NEW heuristic \in BOOLEAN, NEW algorithm \in Algorithms,
           Begin(net, mode, places, starts, goals, k, heuristic, algorithm),
           algorithm = "astar" => query'.start # query'.goal
    PROVE  SearchInv' /\ query'.places = places /\ query'.net = net /\ query'.mode = mode
<1>1. PICK s \in starts, t \in goals :
        query' = [net |-> net, mode |-> mode, heuristic |-> heuristic, places |-> places,
                  start |-> s, goal |-> t, k |-> k, algorithm |-> algorithm]
  BY DEF Begin
<1>2. /\ phase = "idle" /\ phase' = "first" /\ StartSearch(query'.start, {}, {})
      /\ UNCHANGED <<graph, accepted, candidates, seen, spur>>
  BY DEF Begin, yenVars
<1>3. /\ query'.net = net /\ query'.mode = mode /\ query'.heuristic = heuristic /\ query'.places = places
      /\ query'.start = s /\ query'.goal = t /\ query'.algorithm = algorithm
  BY <1>1
<1>4. G' = graph[net]
  BY <1>2, <1>3 DEF G
<1>5. SearchTypes'
  BY <1>1, <1>3, <1>4 DEF SearchTypes, GraphTypes
<1>6. blocked' = [edges |-> {}, nodes |-> {}]
  BY <1>2 DEF StartSearch
<1>7. s \in Free' /\ t \in Free'
  BY <1>1, <1>4, <1>6 DEF Free
<1>8. Sides' /\ from' = query'.start
  BY <1>2, <1>3, <1>5, <1>7, StartKeeps
<1>9. Shape'
  <2>1. accepted = <<>> /\ candidates = {} /\ spur \in Nat \ {0}
    BY <1>2 DEF SearchInv, Shape
  <2>. QED
    BY <2>1, <1>2, <1>3, <1>5, <1>6, <1>8 DEF Shape
<1>10. Paths'
  <2>1. accepted' = <<>> /\ candidates' = {}
    BY <1>2 DEF SearchInv, Shape
  <2>. QED
    BY <2>1 DEF Paths
<1>. QED
  BY <1>3, <1>8, <1>9, <1>10 DEF SearchInv

\* The deadline touches nothing of the search.
LEMMA DeadlineKeeps ==
    ASSUME SearchInv, DeadlinePasses
    PROVE  SearchInv'
<1>1. UNCHANGED <<graph, query, phase, fwd, bwd, best, from, blocked, accepted, candidates, seen, spur>>
  BY DEF DeadlinePasses, searchVars, yenVars
<1>2. Shape'
  BY <1>1, PathsStay DEF SearchInv, Shape
<1>3. Paths'
  BY <1>1, PathsStay DEF SearchInv, Paths
<1>4. Sides'
  BY <1>1, LinksStay DEF SearchInv, Sides, Searching
<1>. QED
  BY <1>2, <1>3, <1>4 DEF SearchInv

\* A search that returns has left its sides behind.
LEMMA ReturnKeeps ==
    ASSUME SearchInv, Searching, NEW p, p = NotFound \/ Found(p), Return(p)
    PROVE  SearchInv'
<1>1. Shape' /\ Paths' /\ phase' \in {"done", "spurs"}
  BY ReturnKeepsFirst, ReturnKeepsSpur DEF SearchInv, Searching
<1>2. Sides'
  BY <1>1 DEF Sides, Searching
<1>. QED
  BY <1>1, <1>2 DEF SearchInv

\* Both ends of a running search are free nodes.
LEMMA Ends ==
    ASSUME SearchInv, Searching
    PROVE  /\ SearchTypes /\ from \in Free /\ (query.algorithm = "yen" => query.goal \in Free)
           /\ DOMAIN fwd.g \subseteq Free /\ DOMAIN bwd.g \subseteq Free
           /\ AreLabels(fwd) /\ AreLabels(bwd)
           /\ query.algorithm \in Algorithms
<1>1. SearchTypes /\ query.algorithm \in Algorithms
  BY DEF SearchInv, Shape, Searching
<1>2. SideOK(fwd, from, Free, ForwardLinks, query.mode)
  BY DEF SearchInv, Sides
<1>3. query.algorithm = "yen" => SideOK(bwd, query.goal, Free, BackwardLinks, query.mode)
  BY DEF SearchInv, Sides
<1>4. query.algorithm = "astar" => bwd = NoSide
  BY DEF SearchInv, Sides
<1>5. Free \in SUBSET Nodes
  BY <1>1, FreeNodes
<1>6. AreLabels(fwd) /\ DOMAIN fwd.g \subseteq Free /\ from \in Free
  BY <1>2, <1>5, LabelsAreLabels DEF SideOK, Labels, Labelled
<1>7. query.algorithm = "yen" => AreLabels(bwd) /\ DOMAIN bwd.g \subseteq Free /\ query.goal \in Free
  BY <1>3, <1>5, LabelsAreLabels DEF SideOK, Labels, Labelled
<1>. QED
  BY <1>1, <1>4, <1>6, <1>7, NoSideLabels DEF Algorithms

\* A search from a node to itself returns that node.
LEMMA SameNodeKeeps ==
    ASSUME SearchInv, SameNode
    PROVE  SearchInv'
<1> DEFINE p == [nodes |-> <<from>>, edges |-> <<>>, time |-> 0, km |-> 0]
<1>1. Searching /\ from = query.goal /\ Return(p)
  BY DEF SameNode
<1>2. SearchTypes /\ from \in Nodes /\ from \notin blocked.nodes
  BY <1>1, Ends, FreeNodes DEF Free
<1>3. p.nodes = <<from>> /\ p.edges = <<>> /\ p.time = 0 /\ p.km = 0 /\ Len(<<from>>) = 1
  OBVIOUS
<1> HIDE DEF p
<1>4. IsPath(p.nodes, p.edges, from, query.goal)
  BY <1>1, <1>2, <1>3 DEF IsPath
<1>5. TotalTime(query.mode, p.edges) = 0 /\ TotalKm(p.edges) = 0
  <2> DEFINE Z == [i \in 1 .. 1 |-> 0]
  <2>1. AddUp(Z, Z, query.mode, p.edges, 0)
    BY <1>3 DEF AddUp
  <2>2. p.edges \in Seq(Edge) /\ Len(p.edges) = 0 /\ 0 \in Nat /\ query.mode \in Modes
    BY <1>2, <1>3 DEF SearchTypes
  <2>3. Z[0 + 1] = 0 /\ Z[1] = 0
    OBVIOUS
  <2> HIDE DEF Z
  <2>4. TotalTime(query.mode, p.edges) = Z[0 + 1] - Z[1] /\ TotalKm(p.edges) = Z[0 + 1] - Z[1]
    BY <2>1, <2>2, EdgeSums
  <2>. QED
    BY <2>3, <2>4
<1>6. GoodPath(p, from, query.goal)
  BY <1>3, <1>4, <1>5 DEF GoodPath
<1>7. p \in Path /\ p # NotFound
  BY <1>2, <1>6, GoodPathIsAPath DEF p
<1>8. Found(p)
  BY <1>2, <1>3, <1>6, <1>7 DEF Found
<1>. QED
  BY <1>1, <1>8, ReturnKeeps

\* The path of a search whose sides have met.
LEMMA BidirFinds ==
    ASSUME SearchInv, BidirEnds, best.node # NoNode
    PROVE  Found(PathThrough(fwd, bwd, best.node, best.time, best.km))
<1> DEFINE p == PathThrough(fwd, bwd, best.node, best.time, best.km)
<1>1. Searching /\ from # query.goal /\ query.algorithm = "yen"
  BY DEF BidirEnds, Running
<1>2. /\ SearchTypes /\ Free \in SUBSET Nodes
      /\ AreLinks(ForwardLinks, Free, query.mode) /\ AreLinks(BackwardLinks, Free, query.mode)
      /\ DOMAIN fwd.g \subseteq Free /\ DOMAIN bwd.g \subseteq Free
  BY <1>1, Ends, FreeNodes, TheLinks
<1>3. /\ Tree(fwd.hop, fwd.g, fwd.d, DOMAIN fwd.g, from, ForwardLinks, query.mode)
      /\ Tree(bwd.hop, bwd.g, bwd.d, DOMAIN bwd.g, query.goal, BackwardLinks, query.mode)
  BY <1>1, <1>2, LabelsAreATree DEF SearchInv, Sides, SideOK
<1>4. /\ best.node \in DOMAIN fwd.g \cap DOMAIN bwd.g
      /\ best.time = fwd.g[best.node] + bwd.g[best.node] /\ best.km = fwd.d[best.node] + bwd.d[best.node]
      /\ \A y \in DOMAIN fwd.g \cap DOMAIN bwd.g : fwd.g[best.node] + bwd.g[best.node] <= fwd.g[y] + bwd.g[y]
  BY <1>1 DEF SearchInv, Sides, BestOK, Meets
<1>5. p = PathThrough(fwd, bwd, best.node, fwd.g[best.node] + bwd.g[best.node], fwd.d[best.node] + bwd.d[best.node])
  BY <1>4
<1> HIDE DEF p
<1>6. GoodPath(p, from, query.goal) /\ Within(p.nodes, DOMAIN fwd.g \cup DOMAIN bwd.g)
  <2>1. LeastAt(best.node, fwd.g, bwd.g, DOMAIN fwd.g, DOMAIN bwd.g)
    BY <1>4 DEF LeastAt
  <2>. QED
    BY <1>2, <1>3, <1>5, <2>1, PathThroughIsGood, ZenonT(60)
<1>7. p \in Path /\ p # NotFound
  BY <1>2, <1>6, GoodPathIsAPath, Zenon DEF p, PathThrough
<1>8. Found(p)
  BY <1>2, <1>6, <1>7 DEF Found, Free, Within
<1>. QED
  BY <1>8 DEF p

\* A search from both ends returns nothing, or that path.
LEMMA BidirEndsKeeps ==
    ASSUME SearchInv, BidirEnds
    PROVE  SearchInv'
<1>1. /\ Searching
      /\ Return(IF best.node = NoNode THEN NotFound
                ELSE PathThrough(fwd, bwd, best.node, best.time, best.km))
  BY DEF BidirEnds, Running
<1>2. CASE best.node = NoNode
  BY <1>1, <1>2, ReturnKeeps
<1>3. CASE best.node # NoNode
  BY <1>1, <1>3, BidirFinds, ReturnKeeps
<1>. QED
  BY <1>2, <1>3

\* aStar returns the path to the goal, with the goal's cost.
LEMMA AStarArrivesKeeps ==
    ASSUME SearchInv, AStarArrives
    PROVE  SearchInv' /\ \E p : Found(p) /\ p.time = fwd.g[query.goal] /\ Return(p)
<1> DEFINE goal == query.goal
           p == PathThrough(fwd, NoSide, goal, fwd.g[goal], fwd.d[goal])
           Z == [x \in {goal} |-> 0]
<1>1. /\ Searching /\ query.algorithm = "astar" /\ Return(p)
      /\ \E x \in FrontItems(fwd, query.goal) : ~Stale(fwd, x) /\ x[1] = query.goal
  BY DEF AStarArrives, Running
<1>2. /\ SearchTypes /\ Free \in SUBSET Nodes /\ AreLinks(ForwardLinks, Free, query.mode)
      /\ DOMAIN fwd.g \subseteq Free /\ AreLabels(fwd)
  BY <1>1, Ends, FreeNodes, TheLinks
<1>3. goal \in DOMAIN fwd.g /\ goal \in Nodes
  <2>1. PICK x \in fwd.pq : x[1] = goal
    BY <1>1 DEF FrontItems
  <2>2. Queue(fwd)
    BY <1>1 DEF SearchInv, Sides, SideOK, Labels
  <2>. QED
    BY <2>1, <2>2, <1>2 DEF Queue
<1>4. Tree(fwd.hop, fwd.g, fwd.d, DOMAIN fwd.g, from, ForwardLinks, query.mode)
  BY <1>1, <1>2, LabelsAreATree DEF SearchInv, Sides, SideOK
<1>5. Tree(NoSide.hop, Z, Z, {goal}, goal, BackwardLinks, query.mode)
  BY <1>3, LoneTree, NoSideLabels
<1>6. Z[goal] = 0 /\ fwd.g[goal] \in Nat /\ fwd.d[goal] \in Nat
  BY <1>2, <1>3 DEF AreLabels
<1>7. fwd.g[goal] = fwd.g[goal] + Z[goal] /\ fwd.d[goal] = fwd.d[goal] + Z[goal]
  BY <1>6
<1>8. p = PathThrough(fwd, NoSide, goal, fwd.g[goal] + Z[goal], fwd.d[goal] + Z[goal]) /\ p.time = fwd.g[goal]
  BY <1>7, Zenon DEF PathThrough
<1>9. \A y \in DOMAIN fwd.g \cap {goal} : fwd.g[goal] + Z[goal] <= fwd.g[y] + Z[y]
  BY <1>6
<1> HIDE DEF p, Z, goal
<1>10. /\ GoodPath(p, from, goal)
       /\ Within(p.nodes, DOMAIN fwd.g \cup {goal})
  <2>1. LeastAt(goal, fwd.g, Z, DOMAIN fwd.g, {goal})
    BY <1>3, <1>9 DEF LeastAt
  <2>. QED
    BY <1>2, <1>4, <1>5, <1>8, <2>1, PathThroughIsGood
<1>11. p \in Path /\ p # NotFound
  BY <1>2, <1>10, GoodPathIsAPath DEF p, PathThrough
<1>12. Found(p)
  BY <1>2, <1>3, <1>10, <1>11 DEF Found, Free, goal, Within
<1>. QED
  BY <1>1, <1>8, <1>12, ReturnKeeps DEF goal

-----------------------------------------------------------------------------
(* Its steps. *)

\* A step that only moves the sides keeps the rest.
LEMMA MovesKeep ==
    ASSUME SearchInv, UNCHANGED <<graph, query, phase, from, blocked, accepted, candidates, seen, spur>>
    PROVE  /\ Shape' /\ Paths' /\ Free' = Free /\ ForwardLinks' = ForwardLinks /\ BackwardLinks' = BackwardLinks
           /\ query' = query /\ from' = from /\ (Searching' <=> Searching)
<1>1. Shape'
  BY PathsStay DEF SearchInv, Shape
<1>2. Paths'
  BY PathsStay DEF SearchInv, Paths
<1>. QED
  BY <1>1, <1>2, LinksStay DEF Searching

\* The forward side pops an item.
LEMMA ExpandForwardKeeps ==
    ASSUME SearchInv, ExpandForward
    PROVE  SearchInv'
<1>1. PICK x \in FrontItems(fwd, query.goal) :
         IF Stale(fwd, x)
         THEN fwd' = Pop(fwd, x) /\ UNCHANGED best
         ELSE LET acc == RelaxEdges(x[1], [side |-> Settle(fwd, x),
                                           best |-> TryMeet(best, x[1], x[2], fwd.d[x[1]], bwd)])
              IN  fwd' = acc.side /\ best' = acc.best
  BY DEF ExpandForward
<1>2. /\ Searching /\ from # query.goal /\ query.algorithm = "yen" /\ bwd' = bwd
      /\ UNCHANGED <<graph, query, phase, from, blocked, accepted, candidates, seen, spur>>
  BY DEF ExpandForward, Running, yenVars
<1>3. SearchTypes /\ AreLabels(fwd) /\ AreLabels(bwd) /\ x \in fwd.pq
  BY <1>1, <1>2, Ends DEF FrontItems
<1>4. /\ SideOK(fwd, from, Free, ForwardLinks, query.mode) /\ BestOK(best, fwd, bwd)
      /\ SideOK(bwd, query.goal, Free, BackwardLinks, query.mode)
  BY <1>2 DEF SearchInv, Sides
<1>5. /\ Shape' /\ Paths' /\ Free' = Free /\ ForwardLinks' = ForwardLinks /\ BackwardLinks' = BackwardLinks
      /\ query' = query /\ from' = from /\ Searching'
  BY <1>2, MovesKeep
<1>6. SideOK(fwd', from, Free, ForwardLinks, query.mode) /\ BestOK(best', fwd', bwd)
  <2>1. CASE Stale(fwd, x)
    <3>1. fwd' = Pop(fwd, x) /\ best' = best
      BY <1>1, <2>1
    <3>2. SideOK(fwd', from, Free, ForwardLinks, query.mode) /\ fwd'.g = fwd.g /\ fwd'.d = fwd.d
      BY <1>3, <1>4, <2>1, <3>1, PopKeeps
    <3>. QED
      BY <1>4, <3>1, <3>2 DEF BestOK, Meets
  <2>2. CASE ~Stale(fwd, x)
    <3>1. x[1] \in DOMAIN fwd.g /\ x[2] = fwd.g[x[1]]
      BY <1>3, <1>4, <2>2, SettleKeeps
    <3>2. TryMeet(best, x[1], x[2], fwd.d[x[1]], bwd) = best
      BY <1>3, <1>4, <3>1, SettledMeets
    <3>3. PICK acc : acc = RelaxEdges(x[1], [side |-> Settle(fwd, x), best |-> best])
      OBVIOUS
    <3>4. fwd' = acc.side /\ best' = acc.best
      BY <1>1, <2>2, <3>2, <3>3
    <3>. QED
      BY <1>3, <1>4, <2>2, <3>3, <3>4, ForwardKeeps
  <2>. QED
    BY <2>1, <2>2
<1>7. Sides'
  BY <1>2, <1>4, <1>5, <1>6 DEF Sides
<1>. QED
  BY <1>5, <1>7 DEF SearchInv

\* The backward side pops an item.
LEMMA ExpandBackwardKeeps ==
    ASSUME SearchInv, ExpandBackward
    PROVE  SearchInv'
<1>1. PICK x \in FrontItems(bwd, from) :
         IF Stale(bwd, x)
         THEN bwd' = Pop(bwd, x) /\ UNCHANGED best
         ELSE LET acc == RelaxReverses(x[1], [side |-> Settle(bwd, x),
                                              best |-> TryMeet(best, x[1], x[2], bwd.d[x[1]], fwd)])
              IN  bwd' = acc.side /\ best' = acc.best
  BY DEF ExpandBackward
<1>2. /\ Searching /\ from # query.goal /\ query.algorithm = "yen" /\ fwd' = fwd
      /\ UNCHANGED <<graph, query, phase, from, blocked, accepted, candidates, seen, spur>>
  BY DEF ExpandBackward, Running, yenVars
<1>3. SearchTypes /\ AreLabels(fwd) /\ AreLabels(bwd) /\ x \in bwd.pq
  BY <1>1, <1>2, Ends DEF FrontItems
<1>4. /\ SideOK(bwd, query.goal, Free, BackwardLinks, query.mode) /\ BestOK(best, fwd, bwd)
      /\ SideOK(fwd, from, Free, ForwardLinks, query.mode)
  BY <1>2 DEF SearchInv, Sides
<1>5. /\ Shape' /\ Paths' /\ Free' = Free /\ ForwardLinks' = ForwardLinks /\ BackwardLinks' = BackwardLinks
      /\ query' = query /\ from' = from /\ Searching'
  BY <1>2, MovesKeep
<1>6. BestOK(best, bwd, fwd)
  BY <1>3, <1>4, BestIsSymmetric
<1>7. SideOK(bwd', query.goal, Free, BackwardLinks, query.mode) /\ BestOK(best', bwd', fwd)
  <2>1. CASE Stale(bwd, x)
    <3>1. bwd' = Pop(bwd, x) /\ best' = best
      BY <1>1, <2>1
    <3>2. SideOK(bwd', query.goal, Free, BackwardLinks, query.mode) /\ bwd'.g = bwd.g /\ bwd'.d = bwd.d
      BY <1>3, <1>4, <2>1, <3>1, PopKeeps
    <3>. QED
      BY <1>6, <3>1, <3>2 DEF BestOK, Meets
  <2>2. CASE ~Stale(bwd, x)
    <3>1. x[1] \in DOMAIN bwd.g /\ x[2] = bwd.g[x[1]]
      BY <1>3, <1>4, <2>2, SettleKeeps
    <3>2. TryMeet(best, x[1], x[2], bwd.d[x[1]], fwd) = best
      BY <1>3, <1>6, <3>1, SettledMeets
    <3>3. PICK acc : acc = RelaxReverses(x[1], [side |-> Settle(bwd, x), best |-> best])
      OBVIOUS
    <3>4. bwd' = acc.side /\ best' = acc.best
      BY <1>1, <2>2, <3>2, <3>3
    <3>. QED
      BY <1>3, <1>4, <1>6, <2>2, <3>3, <3>4, BackwardKeeps
  <2>. QED
    BY <2>1, <2>2
<1>8. BestOK(best', fwd, bwd')
  <2>1. Free \in SUBSET Nodes
    BY <1>3, FreeNodes
  <2>2. AreLabels(bwd')
    BY <1>7, <2>1, LabelsAreLabels DEF SideOK
  <2>. QED
    BY <1>3, <1>7, <2>2, BestIsSymmetric
<1>9. Sides'
  BY <1>2, <1>4, <1>5, <1>7, <1>8 DEF Sides
<1>. QED
  BY <1>5, <1>9 DEF SearchInv

\* The sides of the one-directional search after an iteration.
LEMMA AStarMoves ==
    ASSUME SearchInv, AStarExpands
    PROVE  /\ Searching /\ from # query.goal /\ query.algorithm = "astar" /\ UNCHANGED <<bwd, best, expired>>
           /\ UNCHANGED <<graph, query, phase, from, blocked, accepted, candidates, seen, spur>>
           /\ \E x \in FrontItems(fwd, query.goal) :
                /\ SideOK(fwd', from, Free, ForwardLinks, query.mode)
                /\ \/ fwd'.g = fwd.g /\ fwd'.closed = fwd.closed
                   \/ /\ fwd'.closed = fwd.closed \cup {x[1]} /\ Grows(Settle(fwd, x), fwd')
                      /\ x[1] \in DOMAIN fwd.g /\ x[1] \notin fwd.closed /\ x[2] = fwd.g[x[1]]
                      /\ x[1] # query.goal
<1>1. PICK x \in FrontItems(fwd, query.goal) :
         /\ Stale(fwd, x) \/ x[1] # query.goal
         /\ fwd' = IF Stale(fwd, x) THEN Pop(fwd, x)
                   ELSE RelaxEdges(x[1], [side |-> Settle(fwd, x), best |-> best]).side
  BY DEF AStarExpands
<1>2. /\ Searching /\ from # query.goal /\ query.algorithm = "astar" /\ UNCHANGED <<bwd, best, expired>>
      /\ UNCHANGED <<graph, query, phase, from, blocked, accepted, candidates, seen, spur>>
  BY DEF AStarExpands, Running, yenVars
<1>3. SearchTypes /\ AreLabels(fwd) /\ AreLabels(bwd) /\ x \in fwd.pq
  BY <1>1, <1>2, Ends DEF FrontItems
<1>4. SideOK(fwd, from, Free, ForwardLinks, query.mode) /\ BestOK(best, fwd, bwd)
  BY <1>2 DEF SearchInv, Sides
<1>5. CASE Stale(fwd, x)
  <2>1. fwd' = Pop(fwd, x)
    BY <1>1, <1>5
  <2>2. SideOK(fwd', from, Free, ForwardLinks, query.mode) /\ fwd'.g = fwd.g /\ fwd'.closed = fwd.closed
    BY <1>3, <1>4, <1>5, <2>1, PopKeeps
  <2>. QED
    BY <1>2, <2>2
<1>6. CASE ~Stale(fwd, x)
  <2>1. PICK acc : acc = RelaxEdges(x[1], [side |-> Settle(fwd, x), best |-> best])
    OBVIOUS
  <2>2. fwd' = acc.side
    BY <1>1, <1>6, <2>1
  <2>3. /\ SideOK(fwd', from, Free, ForwardLinks, query.mode) /\ Grows(Settle(fwd, x), fwd')
        /\ x[1] \in DOMAIN fwd.g /\ x[1] \notin fwd.closed /\ x[2] = fwd.g[x[1]]
    BY <1>3, <1>4, <1>6, <2>1, <2>2, ForwardKeeps
  <2>4. fwd'.closed = fwd.closed \cup {x[1]}
    BY <1>3, <1>4, <1>6, <2>3, SettleKeeps DEF Grows
  <2>. QED
    BY <1>1, <1>2, <1>6, <2>3, <2>4
<1>. QED
  BY <1>5, <1>6

\* An iteration of aStar keeps the invariant.
LEMMA AStarExpandsKeeps ==
    ASSUME SearchInv, AStarExpands
    PROVE  SearchInv'
<1>1. /\ Searching /\ from # query.goal /\ query.algorithm = "astar" /\ UNCHANGED <<bwd, best>>
      /\ UNCHANGED <<graph, query, phase, from, blocked, accepted, candidates, seen, spur>>
      /\ SideOK(fwd', from, Free, ForwardLinks, query.mode)
  BY AStarMoves
<1>2. /\ Shape' /\ Paths' /\ Free' = Free /\ ForwardLinks' = ForwardLinks /\ BackwardLinks' = BackwardLinks
      /\ query' = query /\ from' = from /\ Searching'
  BY <1>1, MovesKeep
<1>3. bwd = NoSide /\ query.goal \notin fwd.closed /\ BestOK(best, fwd, bwd)
  BY <1>1 DEF SearchInv, Sides
<1>4. query.goal \notin fwd'.closed
  BY <1>3, AStarMoves
<1>5. BestOK(best, fwd', bwd)
  BY <1>3, NoSideLabels DEF BestOK, Meets
<1>6. Sides'
  BY <1>1, <1>2, <1>3, <1>4, <1>5 DEF Sides
<1>. QED
  BY <1>2, <1>6 DEF SearchInv

\* A search that is cancelled returns nothing.
LEMMA CancelledKeeps ==
    ASSUME SearchInv, SearchCancelled
    PROVE  SearchInv'
  BY ReturnKeeps DEF SearchCancelled

\* A search with nothing left to do returns nothing.
LEMMA AStarGivesUpKeeps ==
    ASSUME SearchInv, AStarGivesUp
    PROVE  SearchInv'
  BY ReturnKeeps DEF AStarGivesUp, Running

\* The root of a spur position is the beginning of the path accepted last.
LEMMA RootParts ==
    ASSUME SearchInv, phase = "spurs", spur <= SpurEnd
    PROVE  /\ spur \in 1 .. Len(Last(accepted).nodes) - 1
           /\ \A i \in 1 .. spur : Root[i] = Last(accepted).nodes[i]
<1> DEFINE r == Last(accepted).nodes
           n == Len(r)
<1>1. accepted # <<>> /\ spur \in Nat \ {0}
  BY DEF SearchInv, Shape
<1>2. r \in Seq(Nodes) /\ n \in Nat
  BY <1>1, LastAccepted DEF SearchInv, Path
<1>3. SpurEnd <= n - 1 /\ SpurEnd \in Int
  <2>1. SpurCap \in Nat
    BY SearchConstants
  <2>2. SpurEnd = IF SpurCap > 0 /\ n - 1 > SpurCap THEN SpurCap ELSE n - 1
    BY DEF SpurEnd
  <2> HIDE DEF n
  <2>. QED
    BY <1>2, <2>1, <2>2
<1>4. spur \in 1 .. n - 1 /\ spur <= n
  BY <1>1, <1>2, <1>3
<1>5. Root = SubSeq(r, 1, spur)
  BY DEF Root
<1>6. \A i \in 1 .. spur : Root[i] = r[i]
  BY <1>1, <1>2, <1>4, <1>5
<1>. QED
  BY <1>4, <1>6

\* A spur search begins behind the root and may not enter it.
LEMMA NextSpurKeeps ==
    ASSUME SearchInv, NextSpur
    PROVE  SearchInv'
<1> DEFINE r == Last(accepted).nodes
           n == Len(r)
           es == {<<p.nodes[spur], p.nodes[spur + 1]>> :
                       p \in {q \in Range(accepted) : Len(q.nodes) > spur /\ SamePrefix(q.nodes, Root)}}
           ns == {Root[i] : i \in 1 .. spur - 1}
<1>1. /\ phase = "spurs" /\ spur <= SpurEnd /\ query' = query /\ phase' = "spur"
      /\ UNCHANGED <<graph, accepted, candidates, seen, spur>>
      /\ StartSearch(Root[spur], es, ns)
  BY DEF NextSpur, yenVars
<1>2. spur \in 1 .. n - 1 /\ \A i \in 1 .. spur : Root[i] = r[i]
  BY <1>1, RootParts
<1>3. SearchTypes /\ accepted # <<>> /\ query.algorithm = "yen" /\ query.algorithm \in Algorithms
  BY <1>1 DEF SearchInv, Shape
<1>4. IsPath(r, Last(accepted).edges, query.start, query.goal) /\ n \in Nat
  BY <1>3, LastAccepted DEF SearchInv, GoodPath
<1>5. SearchTypes' /\ G' = G
  BY <1>1, <1>3, PathsStay DEF G
<1>6. Root[spur] = r[spur] /\ ns = {r[i] : i \in 1 .. spur - 1}
  BY <1>2, <1>4
<1>7. blocked' = [edges |-> es, nodes |-> ns] /\ Free' = G.nodes \ ns
  BY <1>1, <1>5 DEF StartSearch, Free
<1>8. r[spur] \in G.nodes /\ r[spur] \notin ns /\ query.goal \notin ns /\ query.goal \in G.nodes
  <2>1. \A i, j \in 1 .. n : r[i] = r[j] => i = j
    BY <1>4 DEF IsPath
  <2>2. r[n] = query.goal /\ n \in 1 .. n /\ spur \in 1 .. n
    BY <1>2, <1>4 DEF IsPath
  <2>3. \A i \in 1 .. spur - 1 : i \in 1 .. n /\ i # spur /\ i # n
    BY <1>2, <1>4
  <2>4. Passes(r[spur], Last(accepted).edges[spur], r[spur + 1]) /\ r[spur] \in Nodes
    BY <1>2, <1>4, <2>2 DEF IsPath
  <2>5. r[spur] \in G.nodes
    BY <1>3, <2>4, FreeNodes DEF Passes
  <2> HIDE DEF r, n
  <2>. QED
    BY <1>3, <1>6, <2>1, <2>2, <2>3, <2>5 DEF SearchTypes
<1>9. Root[spur] \in Free' /\ query'.goal \in Free'
  BY <1>1, <1>6, <1>7, <1>8
<1> HIDE DEF es
<1>10. Sides' /\ from' = Root[spur]
  BY <1>1, <1>3, <1>5, <1>9, StartKeeps
<1>11. Shape'
  <2>1. spur < n /\ from' = r[spur] /\ blocked'.nodes = {r[i] : i \in 1 .. spur - 1}
    BY <1>2, <1>4, <1>6, <1>7, <1>10
  <2>2. spur \in Nat \ {0} /\ accepted \in Seq(Path) /\ candidates \in SUBSET Path
    BY DEF SearchInv, Shape
  <2>. QED
    BY <1>1, <1>3, <1>5, <2>1, <2>2 DEF Shape
<1>12. Paths'
  BY <1>1, PathsStay DEF SearchInv, Paths
<1>. QED
  BY <1>10, <1>11, <1>12 DEF SearchInv

\* A candidate becomes a path.
LEMMA AcceptKeeps ==
    ASSUME SearchInv, Accept
    PROVE  SearchInv' /\ accepted' # <<>> /\ query.algorithm = "yen"
<1>1. PICK c \in candidates : accepted' = Append(accepted, c) /\ candidates' = candidates \ {c}
  BY DEF Accept
<1>2. /\ phase = "spurs" /\ spur' = 1 /\ phase' \in {"spurs", "done"}
      /\ UNCHANGED <<graph, query, seen>>
  BY DEF Accept
<1>3. /\ SearchTypes /\ query.algorithm = "yen" /\ query.algorithm \in Algorithms
      /\ accepted \in Seq(Path) /\ candidates \in SUBSET Path
  BY <1>2 DEF SearchInv, Shape, Algorithms
<1>4. SearchTypes' /\ \A p, s, t : GoodPath(p, s, t) => GoodPath(p, s, t)'
  BY <1>2, <1>3, PathsStay
<1> DEFINE n == Len(accepted)
<1>5. /\ n \in Nat /\ DOMAIN accepted = 1 .. n /\ DOMAIN accepted' = 1 .. n + 1
      /\ accepted' \in Seq(Path) /\ accepted'[n + 1] = c
      /\ \A i \in 1 .. n : accepted'[i] = accepted[i]
  BY <1>1, <1>3
<1>6. accepted' # <<>>
  BY <1>1, <1>3
<1>7. Shape'
  BY <1>1, <1>2, <1>3, <1>4, <1>5, <1>6 DEF Shape
<1> HIDE DEF n
<1>8. \A i \in 1 .. n + 1 : i \in 1 .. n \/ i = n + 1
  BY <1>5
<1>9. Paths'
  <2>1. \A q : (\E i \in DOMAIN accepted : q = accepted[i])
                 => GoodPath(q, query.start, query.goal)' /\ q.nodes \in seen
    BY <1>2, <1>4 DEF SearchInv, Paths
  <2>2. \A o \in candidates : GoodPath(o, query.start, query.goal)' /\ o.nodes \in seen
    BY <1>2, <1>4 DEF SearchInv, Paths
  <2>3. \A i \in DOMAIN accepted' : GoodPath(accepted[i], query.start, query.goal)' /\ accepted'[i].nodes \in seen'
    <3> SUFFICES ASSUME NEW i \in DOMAIN accepted'
                 PROVE  GoodPath(accepted[i], query.start, query.goal)' /\ accepted'[i].nodes \in seen'
      OBVIOUS
    <3>1. PICK q : q = accepted'[i]
      OBVIOUS
    <3>2. GoodPath(q, query.start, query.goal)' /\ q.nodes \in seen
      BY <1>1, <1>5, <1>8, <2>1, <2>2, <3>1
    <3>. QED
      BY <1>2, <3>1, <3>2 DEF GoodPath
  <2>4. \A i, j \in DOMAIN accepted' : accepted'[i].nodes = accepted'[j].nodes => i = j
    BY <1>1, <1>5, <1>8 DEF SearchInv, Paths
  <2>5. \A i \in DOMAIN accepted' : \A o \in candidates' : accepted'[i].nodes # o.nodes
    BY <1>1, <1>5, <1>8 DEF SearchInv, Paths
  <2>6. \A o, q \in candidates' : o.nodes = q.nodes => o = q
    BY <1>1 DEF SearchInv, Paths
  <2>. QED
    BY <1>1, <2>2, <1>2, <2>3, <2>4, <2>5, <2>6 DEF Paths
<1>10. Sides'
  BY <1>2 DEF Sides, Searching
<1>. QED
  BY <1>3, <1>6, <1>7, <1>9, <1>10 DEF SearchInv

\* Yen's loop ends when there is no candidate left.
LEMMA NoMoreCandidatesKeeps ==
    ASSUME SearchInv, NoMoreCandidates
    PROVE  SearchInv' /\ accepted' # <<>> /\ query.algorithm = "yen"
<1>1. /\ phase = "spurs" /\ phase' = "done" /\ UNCHANGED <<graph, query, accepted, candidates, seen, spur>>
  BY DEF NoMoreCandidates, yenVars
<1>2. Shape'
  BY <1>1, PathsStay DEF SearchInv, Shape
<1>3. Paths'
  BY <1>1, PathsStay DEF SearchInv, Paths
<1>4. Sides'
  BY <1>1 DEF Sides, Searching
<1>. QED
  BY <1>1, <1>2, <1>3, <1>4 DEF SearchInv, Shape

\* Every step of a search.
LEMMA SearchStepKeeps ==
    ASSUME SearchInv, SearchStep
    PROVE  SearchInv'
  BY DeadlineKeeps, CancelledKeeps, SameNodeKeeps, BidirEndsKeeps, ExpandForwardKeeps, ExpandBackwardKeeps,
     AStarExpandsKeeps, AStarArrivesKeeps, AStarGivesUpKeeps, NextSpurKeeps, AcceptKeeps, NoMoreCandidatesKeeps
     DEF SearchStep

-----------------------------------------------------------------------------
(* The rows of the road importer. *)

\* The ways of the map.
MapWays == UNION {Range(Extract[r].ways) : r \in Regions}

\* A row leads along way w as the importer turned it, between neighbours.
RowOf(w, row) ==
    /\ row.km = RoundF(Haversine(row.from, row.to)) /\ row.flags = AccessForWay(w) /\ row.kind = w.highway
    /\ row.bidirectional = (w.oneway = "no")
    /\ \E i \in 1 .. Len(w.refs) - 1 :
         IF w.oneway = "-1" THEN row.from = w.refs[i + 1] /\ row.to = w.refs[i]
         ELSE row.from = w.refs[i] /\ row.to = w.refs[i + 1]

\* The rows an import may write.
MapRow == {row \in RoadSegment : \E w \in MapWays : w \in Way /\ RowOf(w, row)}

\* The default speeds of the importer are numbers.
LEMMA HighwaySpeedsAreNumbers ==
    \A k \in DOMAIN HighwaySpeed : HighwaySpeed[k] \in Nat
BY DEF HighwaySpeed

\* The importer's rounding takes no more than half a grain off a length.
LEMMA RoundFIsNear ==
    ASSUME NEW x \in Nat
    PROVE  RoundF(x) \in Nat /\ 2 * x <= 2 * RoundF(x) + Grain
<1>1. PICK g \in Nat \ {0} : g = Grain
  BY LengthBounds
<1>2. PICK q \in Nat : q = (2 * x + g) \div (2 * g) /\ 2 * x + g < q * (2 * g) + 2 * g
  <2>1. PICK h \in Nat \ {0} : h = 2 * g
    BY <1>1
  <2>2. ASSUME NEW y \in Nat PROVE y \div h \in Nat /\ y < (y \div h) * h + h
    BY SMT
  <2>3. 2 * x + g \in Nat
    OBVIOUS
  <2>. QED
    BY <2>1, <2>2, <2>3
<1>3. RoundF(x) = q * g
  BY <1>1, <1>2 DEF RoundF
<1>4. q * (2 * g) = 2 * (q * g) /\ q * g \in Nat
  BY SMT
<1>. QED
  BY <1>1, <1>2, <1>3, <1>4

\* A row of the importer runs along its way.
LEMMA RowIsMapped ==
    ASSUME NEW w \in MapWays, w \in Way, IsCandidate(w), NEW c, c = CandidateFromWay(w),
           NEW i \in 2 .. Len(w.refs)
    PROVE  RoadSegmentRow(c, c.refs[i - 1], c.refs[i]) \in MapRow
<1> DEFINE m == Len(w.refs)
           row == RoadSegmentRow(c, c.refs[i - 1], c.refs[i])
<1>1. w.refs \in Seq(Nodes) /\ m \in Nat /\ w.highway \in DOMAIN HighwaySpeed /\ w.maxspeed \in Nat /\ w.name \in STRING
  <2>1. w.refs \in Seq(Nodes) /\ w.maxspeed \in Nat /\ w.name \in STRING
    BY DEF Way
  <2>2. w.highway \in DOMAIN HighwaySpeed
    BY DEF IsCandidate, Routable
  <2>. QED
    BY <2>1, <2>2
<1>2. \A j \in 1 .. m : w.refs[j] \in Nodes
  BY <1>1
<1>3. c.refs = IF w.oneway = "-1" THEN Reverse(w.refs) ELSE w.refs
  BY DEF CandidateFromWay
<1>4. w.oneway = "-1" => c.refs[i - 1] = w.refs[(m - i + 1) + 1] /\ c.refs[i] = w.refs[m - i + 1]
  <2>1. \A j \in 1 .. m : Reverse(w.refs)[j] = w.refs[(m - j) + 1]
    BY <1>1 DEF Reverse
  <2>2. i - 1 \in 1 .. m /\ i \in 1 .. m /\ (m - (i - 1)) + 1 = (m - i + 1) + 1 /\ (m - i) + 1 = m - i + 1
    BY <1>1
  <2> HIDE DEF m
  <2>. QED
    BY <1>3, <2>1, <2>2
<1>5. i - 1 \in 1 .. m /\ i \in 1 .. m /\ i - 1 \in 1 .. m - 1 /\ m - i + 1 \in 1 .. m - 1 /\ (i - 1) + 1 = i
      /\ (m - i + 1) + 1 \in 1 .. m /\ m - i + 1 \in 1 .. m
  BY <1>1
<1>6. c.refs[i - 1] \in Nodes /\ c.refs[i] \in Nodes
  BY <1>2, <1>3, <1>4, <1>5
<1>7. HighwaySpeed[w.highway] \in Nat
  BY <1>1, HighwaySpeedsAreNumbers
<1>8. AccessForWay(w) \in SUBSET {"car", "motorcycle", "bus", "foot"}
  <2>1. DefaultAccess(w) \in SUBSET {"car", "motorcycle", "bus", "foot"}
    BY DEF DefaultAccess
  <2>. QED
    BY <2>1 DEF AccessForWay
<1>9. /\ row.from = c.refs[i - 1] /\ row.to = c.refs[i] /\ row.km = RoundF(Haversine(c.refs[i - 1], c.refs[i]))
      /\ row.kind = w.highway /\ row.name = w.name /\ row.speed = SpeedForWay(w)
      /\ row.bidirectional = (w.oneway = "no") /\ row.flags = AccessForWay(w)
      /\ row = [from |-> row.from, to |-> row.to, km |-> row.km, kind |-> row.kind, name |-> row.name,
                speed |-> row.speed, bidirectional |-> row.bidirectional, flags |-> row.flags]
  BY DEF RoadSegmentRow, CandidateFromWay
<1> HIDE DEF row, m
<1>10. row.km \in Nat /\ row.speed \in Nat /\ row.bidirectional \in BOOLEAN
  <2>1. RoundF(Haversine(c.refs[i - 1], c.refs[i])) \in Nat
    BY <1>6, Metric, RoundFIsNear DEF Places
  <2>. QED
    BY <1>1, <1>7, <1>9, <2>1 DEF SpeedForWay
<1>11. row \in RoadSegment
  BY <1>1, <1>6, <1>8, <1>9, <1>10 DEF RoadSegment
<1>12. \E j \in 1 .. m - 1 :
         IF w.oneway = "-1" THEN row.from = w.refs[j + 1] /\ row.to = w.refs[j]
         ELSE row.from = w.refs[j] /\ row.to = w.refs[j + 1]
  BY <1>3, <1>4, <1>5, <1>9
<1>13. RowOf(w, row)
  BY <1>9, <1>12 DEF RowOf, m
<1>. QED
  BY <1>11, <1>13 DEF MapRow, row

CutStep(x, c, known, i) == IF /\ {c.refs[i - 1], c.refs[i]} \subseteq known
                                /\ Haversine(c.refs[i - 1], c.refs[i]) >= MinSegment
                             THEN Append(x, RoadSegmentRow(c, c.refs[i - 1], c.refs[i])) ELSE x

CutBody(f, c, known, n) == [i \in 1 .. n |-> IF i = 1 THEN <<>> ELSE CutStep(f[i - 1], c, known, i)]

CutLoop(c, known, n) == CHOOSE f : f = CutBody(f, c, known, n)

\* The loop of SegmentsOf.
LEMMA CutRuns ==
    ASSUME NEW c, NEW known, NEW n \in Nat, 1 <= n
    PROVE  LET f == CutLoop(c, known, n)
           IN  /\ f[1] = <<>>
               /\ \A i \in 1 .. n : i > 1 => f[i] = CutStep(f[i - 1], c, known, i)
<1> DEFINE S == {k \in Nat : \E f : f = CutBody(f, c, known, k)}
<1>1. 1 \in S
  <2> DEFINE h == [i \in 1 .. 1 |-> <<>>]
  <2>1. h = CutBody(h, c, known, 1)
    BY DEF CutBody
  <2>. QED
    BY <2>1
<1>2. ASSUME NEW k \in 1 .. n, k > 1, k - 1 \in S PROVE k \in S
  <2>1. PICK was : was = CutBody(was, c, known, k - 1)
    BY <1>2
  <2> DEFINE h == [i \in 1 .. k |-> IF i = k THEN CutStep(was[k - 1], c, known, k) ELSE was[i]]
  <2>2. \A i \in 1 .. k - 1 : h[i] = was[i] /\ was[i] = IF i = 1 THEN <<>> ELSE CutStep(was[i - 1], c, known, i)
    BY <2>1 DEF CutBody
  <2>3. h[k] = CutStep(was[k - 1], c, known, k) /\ h[k - 1] = was[k - 1]
    BY <1>2
  <2>4. ASSUME NEW i \in 1 .. k PROVE h[i] = IF i = 1 THEN <<>> ELSE CutStep(h[i - 1], c, known, i)
    <3> HIDE DEF h
    <3>1. CASE i = k
      BY <3>1, <1>2, <2>3
    <3>2. CASE i = 1
      BY <3>2, <1>2, <2>2
    <3>3. CASE i # k /\ i # 1
      <4>1. i \in 1 .. k - 1 /\ i - 1 \in 1 .. k - 1
        BY <3>3, <1>2
      <4>. QED
        BY <3>3, <4>1, <2>2
    <3>. QED
      BY <3>1, <3>2, <3>3
  <2>5. h = CutBody(h, c, known, k)
    BY <2>4 DEF CutBody
  <2>6. k \in Nat
    OBVIOUS
  <2>. QED
    BY <2>5, <2>6
<1>3. n \in S
  <2> HIDE DEF S
  <2>. QED
    BY <1>1, <1>2, UpTo
<1> DEFINE f == CutLoop(c, known, n)
<1>4. f = CutBody(f, c, known, n)
  BY <1>3 DEF CutLoop
<1> HIDE DEF f
<1>5. f[1] = <<>> /\ \A i \in 1 .. n : i > 1 => f[i] = CutStep(f[i - 1], c, known, i)
  BY <1>4 DEF CutBody
<1>. QED
  BY <1>5 DEF f

\* So do all rows cut from a way.
LEMMA SegmentsOfAreMapped ==
    ASSUME NEW w \in MapWays, w \in Way, IsCandidate(w), NEW known
    PROVE  SegmentsOf(CandidateFromWay(w), known) \in Seq(MapRow)
<1> DEFINE c == CandidateFromWay(w)
           n == Len(c.refs)
           f == CutLoop(c, known, n)
<1>1. Len(w.refs) \in Nat /\ Len(w.refs) >= 2 /\ n = Len(w.refs)
  <2>1. w.refs \in Seq(Nodes) /\ Len(w.refs) >= 2
    BY DEF Way, IsCandidate
  <2>2. Len(Reverse(w.refs)) = Len(w.refs)
    BY <2>1 DEF Reverse
  <2>. QED
    BY <2>1, <2>2 DEF CandidateFromWay
<1>2. SegmentsOf(c, known) = f[n]
  BY DEF SegmentsOf, CutLoop, CutBody, CutStep
<1>3. f[1] = <<>> /\ \A i \in 1 .. n : i > 1 => f[i] = CutStep(f[i - 1], c, known, i)
  BY <1>1, CutRuns
<1>4. ASSUME NEW i \in 1 .. n, i > 1 PROVE RoadSegmentRow(c, c.refs[i - 1], c.refs[i]) \in MapRow
  <2>1. i \in 2 .. Len(w.refs)
    BY <1>1, <1>4
  <2>. QED
    BY <2>1, RowIsMapped
<1> HIDE DEF f, c
<1> DEFINE S == {i \in 1 .. n : f[i] \in Seq(MapRow)}
<1>5. 1 \in S
  <2>1. <<>> \in Seq(MapRow)
    OBVIOUS
  <2>2. 1 \in 1 .. n
    BY <1>1
  <2>. QED
    BY <2>1, <2>2, <1>3
<1>6. ASSUME NEW i \in 1 .. n, i > 1, i - 1 \in S PROVE i \in S
  <2>1. f[i - 1] \in Seq(MapRow) /\ RoadSegmentRow(c, c.refs[i - 1], c.refs[i]) \in MapRow
    BY <1>4, <1>6
  <2>2. Append(f[i - 1], RoadSegmentRow(c, c.refs[i - 1], c.refs[i])) \in Seq(MapRow)
    BY <2>1
  <2>. QED
    BY <1>3, <1>6, <2>1, <2>2 DEF CutStep
<1>7. \A i \in 1 .. n : i \in S
  <2> HIDE DEF S, n
  <2>. QED
    BY <1>1, <1>5, <1>6, UpTo
<1>. QED
  BY <1>1, <1>2, <1>7 DEF c

CutsStep(x, ex, i) == IF IsCandidate(ex.ways[i])
                       THEN x \o SegmentsOf(CandidateFromWay(ex.ways[i]), ex.nodes) ELSE x

CutsBody(f, ex, n) == [i \in 0 .. n |-> IF i = 0 THEN <<>> ELSE CutsStep(f[i - 1], ex, i)]

CutsLoop(ex, n) == CHOOSE f : f = CutsBody(f, ex, n)

\* The loop of Segments.
LEMMA CutsRuns ==
    ASSUME NEW ex, NEW n \in Nat, 0 <= n
    PROVE  LET f == CutsLoop(ex, n)
           IN  /\ f[0] = <<>>
               /\ \A i \in 0 .. n : i > 0 => f[i] = CutsStep(f[i - 1], ex, i)
<1> DEFINE S == {k \in Nat : \E f : f = CutsBody(f, ex, k)}
<1>1. 0 \in S
  <2> DEFINE h == [i \in 0 .. 0 |-> <<>>]
  <2>1. h = CutsBody(h, ex, 0)
    BY DEF CutsBody
  <2>. QED
    BY <2>1
<1>2. ASSUME NEW k \in 0 .. n, k > 0, k - 1 \in S PROVE k \in S
  <2>1. PICK was : was = CutsBody(was, ex, k - 1)
    BY <1>2
  <2> DEFINE h == [i \in 0 .. k |-> IF i = k THEN CutsStep(was[k - 1], ex, k) ELSE was[i]]
  <2>2. \A i \in 0 .. k - 1 : h[i] = was[i] /\ was[i] = IF i = 0 THEN <<>> ELSE CutsStep(was[i - 1], ex, i)
    BY <2>1 DEF CutsBody
  <2>3. h[k] = CutsStep(was[k - 1], ex, k) /\ h[k - 1] = was[k - 1]
    BY <1>2
  <2>4. ASSUME NEW i \in 0 .. k PROVE h[i] = IF i = 0 THEN <<>> ELSE CutsStep(h[i - 1], ex, i)
    <3> HIDE DEF h
    <3>1. CASE i = k
      BY <3>1, <1>2, <2>3
    <3>2. CASE i = 0
      BY <3>2, <1>2, <2>2
    <3>3. CASE i # k /\ i # 0
      <4>1. i \in 0 .. k - 1 /\ i - 1 \in 0 .. k - 1
        BY <3>3, <1>2
      <4>. QED
        BY <3>3, <4>1, <2>2
    <3>. QED
      BY <3>1, <3>2, <3>3
  <2>5. h = CutsBody(h, ex, k)
    BY <2>4 DEF CutsBody
  <2>6. k \in Nat
    OBVIOUS
  <2>. QED
    BY <2>5, <2>6
<1>3. n \in S
  <2> HIDE DEF S
  <2>. QED
    BY <1>1, <1>2, UpTo
<1> DEFINE f == CutsLoop(ex, n)
<1>4. f = CutsBody(f, ex, n)
  BY <1>3 DEF CutsLoop
<1> HIDE DEF f
<1>5. f[0] = <<>> /\ \A i \in 0 .. n : i > 0 => f[i] = CutsStep(f[i - 1], ex, i)
  BY <1>4 DEF CutsBody
<1>. QED
  BY <1>5 DEF f

\* So do all rows of an extract.
LEMMA SegmentsAreMapped ==
    ASSUME NEW r \in Regions
    PROVE  Segments(Extract[r]) \in Seq(MapRow)
<1> DEFINE ex == Extract[r]
           n == Len(ex.ways)
           f == CutsLoop(ex, n)
<1>1. ex.ways \in Seq(Way) /\ n \in Nat
  BY ExtractsAreWays
<1>2. \A i \in 1 .. n : ex.ways[i] \in Way /\ ex.ways[i] \in MapWays
  BY <1>1 DEF MapWays, Range
<1>3. Segments(ex) = f[n]
  BY DEF Segments, CutsLoop, CutsBody, CutsStep
<1>4. f[0] = <<>> /\ \A i \in 0 .. n : i > 0 => f[i] = CutsStep(f[i - 1], ex, i)
  BY <1>1, CutsRuns
<1> HIDE DEF f, ex
<1> DEFINE S == {i \in 0 .. n : f[i] \in Seq(MapRow)}
<1>5. 0 \in S
  <2>1. <<>> \in Seq(MapRow)
    OBVIOUS
  <2>2. 0 \in 0 .. n
    BY <1>1
  <2>. QED
    BY <2>1, <2>2, <1>4
<1>6. ASSUME NEW i \in 0 .. n, i > 0, i - 1 \in S PROVE i \in S
  <2>1. f[i - 1] \in Seq(MapRow) /\ i \in 1 .. n
    BY <1>1, <1>6
  <2>2. IsCandidate(ex.ways[i]) => SegmentsOf(CandidateFromWay(ex.ways[i]), ex.nodes) \in Seq(MapRow)
    BY <1>2, <2>1, SegmentsOfAreMapped
  <2>3. IsCandidate(ex.ways[i]) => f[i - 1] \o SegmentsOf(CandidateFromWay(ex.ways[i]), ex.nodes) \in Seq(MapRow)
    BY <2>1, <2>2
  <2>. QED
    BY <1>4, <1>6, <2>1, <2>3 DEF CutsStep
<1>7. \A i \in 0 .. n : i \in S
  <2> HIDE DEF S, n
  <2>. QED
    BY <1>1, <1>5, <1>6, UpTo
<1>. QED
  BY <1>1, <1>3, <1>7 DEF ex

-----------------------------------------------------------------------------
(* What the tags of a way say. *)

\* The values of a tag the importer tells apart.
LEMMA TagValues ==
    ASSUME NEW w \in Way, NEW key
    PROVE  Tag(w, key) \in {"yes", "no", ""}
<1>1. w.tags \in UNION {[keys -> {"yes", "no", ""}] : keys \in SUBSET TagKeys}
  BY DEF Way
<1>2. PICK keys \in SUBSET TagKeys : w.tags \in [keys -> {"yes", "no", ""}]
  BY <1>1
<1>. QED
  BY <1>2 DEF Tag

\* The least element of a set of numbers.
LEMMA MinIs ==
    ASSUME NEW S \in SUBSET Int, NEW k \in S, \A j \in S : k <= j
    PROVE  Min(S) = k
<1>1. Min(S) \in S /\ \A y \in S : Min(S) <= y
  BY DEF Min
<1>2. PICK m : m = Min(S)
  OBVIOUS
<1>3. m \in Int /\ k \in Int /\ m <= k /\ k <= m
  BY <1>1, <1>2, Zenon
<1>. QED
  BY <1>2, <1>3

\* The values of the keys at a position, and what the first position with a
\* value says.
Values(w, mode, i) == {Tag(w, key) : key \in Keys[mode][i]} \ {""}

\* The tag the importer reads first decides.
LEMMA FirstSays ==
    ASSUME NEW w, NEW mode, NEW n \in Nat, DOMAIN Keys[mode] = 1 .. n
    PROVE  /\ (\A i \in 1 .. n : Values(w, mode, i) = {}) => Says(w, mode) = ""
           /\ \A k \in 1 .. n : /\ "yes" \in Values(w, mode, k)
                                /\ \A j \in 1 .. n : j < k => Values(w, mode, j) = {}
                                => Says(w, mode) = "yes"
<1> DEFINE said == {i \in DOMAIN Keys[mode] : Values(w, mode, i) # {}}
<1>1. Says(w, mode) = IF said = {} THEN "" ELSE IF "yes" \in Values(w, mode, Min(said)) THEN "yes" ELSE "no"
  BY DEF Says, Values
<1>2. ASSUME NEW k \in 1 .. n, "yes" \in Values(w, mode, k), \A j \in 1 .. n : j < k => Values(w, mode, j) = {}
      PROVE  Says(w, mode) = "yes"
  <2>1. k \in said /\ \A j \in said : k <= j /\ j \in Nat
    BY <1>2
  <2> HIDE DEF said
  <2>2. Min(said) = k
    <3>1. said \in SUBSET Int
      BY <2>1
    <3>. QED
      BY <2>1, <3>1, MinIs
  <2>. QED
    BY <1>1, <1>2, <2>1, <2>2
<1>. QED
  BY <1>1, <1>2

\* What the tags of a way say about a motor mode, by its own key.
MotorKeys(key) == <<{key}, {"motor_vehicle"}, {"vehicle"}, {"access"}>>

\* What the keys for motor vehicles say.
LEMMA MotorSays ==
    ASSUME NEW w \in Way, NEW mode, NEW key, Keys[mode] = MotorKeys(key)
    PROVE  /\ IsYes(w, key) => Says(w, mode) = "yes"
           /\ Tag(w, key) = "" /\ IsYes(w, "motor_vehicle") => Says(w, mode) = "yes"
           /\ Tag(w, key) = "" /\ Tag(w, "motor_vehicle") = "" /\ IsYes(w, "vehicle") => Says(w, mode) = "yes"
           /\ Tag(w, key) = "" /\ Tag(w, "motor_vehicle") = "" /\ Tag(w, "vehicle") = ""
                /\ IsYes(w, "access") => Says(w, mode) = "yes"
           /\ Tag(w, key) = "" /\ Tag(w, "motor_vehicle") = "" /\ Tag(w, "vehicle") = ""
                /\ Tag(w, "access") = "" => Says(w, mode) = ""
<1> DEFINE V(i) == Values(w, mode, i)
<1>1. DOMAIN Keys[mode] = 1 .. 4
  BY DEF MotorKeys
<1>2. /\ V(1) = {Tag(w, key)} \ {""} /\ V(2) = {Tag(w, "motor_vehicle")} \ {""}
      /\ V(3) = {Tag(w, "vehicle")} \ {""} /\ V(4) = {Tag(w, "access")} \ {""}
  BY DEF Values, MotorKeys
<1> HIDE DEF V
<1>3. /\ (\A i \in 1 .. 4 : V(i) = {}) => Says(w, mode) = ""
      /\ \A k \in 1 .. 4 : "yes" \in V(k) /\ (\A j \in 1 .. 4 : j < k => V(j) = {}) => Says(w, mode) = "yes"
  BY <1>1, FirstSays DEF V
<1>4. /\ V(1) = {} /\ V(2) = {} /\ V(3) = {} /\ V(4) = {} => Says(w, mode) = ""
      /\ "yes" \in V(1) => Says(w, mode) = "yes"
      /\ "yes" \in V(2) /\ V(1) = {} => Says(w, mode) = "yes"
      /\ "yes" \in V(3) /\ V(1) = {} /\ V(2) = {} => Says(w, mode) = "yes"
      /\ "yes" \in V(4) /\ V(1) = {} /\ V(2) = {} /\ V(3) = {} => Says(w, mode) = "yes"
  <2>1. \A i \in 1 .. 4 : i = 1 \/ i = 2 \/ i = 3 \/ i = 4
    OBVIOUS
  <2>2. \A j \in 1 .. 4 : /\ ~(j < 1) /\ (j < 2 => j = 1) /\ (j < 3 => j = 1 \/ j = 2)
                          /\ (j < 4 => j = 1 \/ j = 2 \/ j = 3)
    OBVIOUS
  <2>3. 1 \in 1 .. 4 /\ 2 \in 1 .. 4 /\ 3 \in 1 .. 4 /\ 4 \in 1 .. 4
    OBVIOUS
  <2>. QED
    BY <1>3, <2>1, <2>2, <2>3, Zenon
<1>5. \A t : ("yes" \in {t} \ {""} <=> t = "yes") /\ (t = "" => {t} \ {""} = {})
  OBVIOUS
<1>. QED
  BY <1>2, <1>4, <1>5 DEF IsYes

\* What they say about walking.
LEMMA WalkingSays ==
    ASSUME NEW w \in Way
    PROVE  /\ IsYes(w, "foot") \/ IsYes(w, "sidewalk") => Says(w, "walking") = "yes"
           /\ Tag(w, "foot") = "" /\ Tag(w, "sidewalk") = "" /\ IsYes(w, "access") => Says(w, "walking") = "yes"
           /\ Tag(w, "foot") = "" /\ Tag(w, "sidewalk") = "" /\ Tag(w, "access") = "" => Says(w, "walking") = ""
<1> DEFINE V(i) == Values(w, "walking", i)
<1>0. Keys["walking"] = <<{"foot", "sidewalk"}, {"access"}>>
  BY DEF Keys
<1>1. DOMAIN Keys["walking"] = 1 .. 2
  BY <1>0
<1>2. V(1) = {Tag(w, "foot"), Tag(w, "sidewalk")} \ {""} /\ V(2) = {Tag(w, "access")} \ {""}
  BY <1>0 DEF Values
<1> HIDE DEF V
<1>3. /\ (\A i \in 1 .. 2 : V(i) = {}) => Says(w, "walking") = ""
      /\ \A k \in 1 .. 2 : "yes" \in V(k) /\ (\A j \in 1 .. 2 : j < k => V(j) = {}) => Says(w, "walking") = "yes"
  BY <1>1, FirstSays DEF V
<1>4. /\ V(1) = {} /\ V(2) = {} => Says(w, "walking") = ""
      /\ "yes" \in V(1) => Says(w, "walking") = "yes"
      /\ "yes" \in V(2) /\ V(1) = {} => Says(w, "walking") = "yes"
  <2>1. \A j \in 1 .. 2 : (j < 2 => j = 1) /\ ~(j < 1) /\ (j = 1 \/ j = 2)
    OBVIOUS
  <2>2. 1 \in 1 .. 2 /\ 2 \in 1 .. 2
    OBVIOUS
  <2>. QED
    BY <1>3, <2>1, <2>2, Zenon
<1>5. \A t, u : /\ "yes" \in {t, u} \ {""} <=> t = "yes" \/ u = "yes"
                /\ t = "" /\ u = "" => {t, u} \ {""} = {}
                /\ "yes" \in {t} \ {""} <=> t = "yes"
                /\ t = "" => {t} \ {""} = {}
  OBVIOUS
<1>. QED
  BY <1>2, <1>4, <1>5 DEF IsYes

\* A flag of an edge is one the tags of the way agree with.
LEMMA AccessIsGranted ==
    ASSUME NEW w \in Way
    PROVE  /\ "car" \in AccessForWay(w) => Opens(w, "car")
           /\ "motorcycle" \in AccessForWay(w) => Opens(w, "motorcycle")
           /\ "bus" \in AccessForWay(w) => Opens(w, "bus")
           /\ "foot" \in AccessForWay(w) => Opens(w, "walking")
<1>1. \A key : Tag(w, key) \in {"yes", "no", ""}
  BY TagValues
<1>2. /\ Keys["car"] = MotorKeys("motorcar") /\ Keys["motorcycle"] = MotorKeys("motorcycle")
      /\ Keys["bus"] = MotorKeys("bus")
  BY DEF Keys, MotorKeys
<1>3. "car" \in AccessForWay(w) => Opens(w, "car")
  <2>1. "car" \in DefaultAccess(w) <=> w.highway \notin Pedestrian
    BY DEF DefaultAccess
  <2>2. "car" \in AccessForWay(w) =>
          /\ ~IsNo(w, "motorcar")
          /\ \/ IsYes(w, "motor_vehicle")
             \/ /\ ~IsNo(w, "vehicle") /\ ~IsNo(w, "motor_vehicle") /\ ~IsNo(w, "access")
                /\ w.highway \notin Pedestrian
    BY <2>1 DEF AccessForWay
  <2>. QED
    BY <1>1, <1>2, <2>2, MotorSays DEF IsNo, IsYes, Opens
<1>4. "motorcycle" \in AccessForWay(w) => Opens(w, "motorcycle")
  <2>1. "motorcycle" \in DefaultAccess(w) <=> w.highway \notin Pedestrian
    BY DEF DefaultAccess
  <2>2. "motorcycle" \in AccessForWay(w) =>
          /\ ~IsNo(w, "motorcycle")
          /\ \/ IsYes(w, "motor_vehicle")
             \/ /\ ~IsNo(w, "vehicle") /\ ~IsNo(w, "motor_vehicle") /\ ~IsNo(w, "access")
                /\ w.highway \notin Pedestrian
    BY <2>1 DEF AccessForWay
  <2>. QED
    BY <1>1, <1>2, <2>2, MotorSays DEF IsNo, IsYes, Opens
<1>5. "bus" \in AccessForWay(w) => Opens(w, "bus")
  <2>1. "bus" \in DefaultAccess(w) => w.highway \notin Pedestrian
    BY DEF DefaultAccess, NoBuses
  <2>2. "bus" \in AccessForWay(w) =>
          \/ IsYes(w, "bus")
          \/ /\ ~IsNo(w, "bus") /\ ~IsNo(w, "vehicle") /\ ~IsNo(w, "motor_vehicle") /\ ~IsNo(w, "access")
             /\ w.highway \notin Pedestrian
    BY <2>1 DEF AccessForWay
  <2>. QED
    BY <1>1, <1>2, <2>2, MotorSays DEF IsNo, IsYes, Opens
<1>6. "foot" \in AccessForWay(w) => Opens(w, "walking")
  <2>1. "foot" \in DefaultAccess(w) <=> w.highway \notin BlocksWalking
    BY DEF DefaultAccess
  <2>2. "foot" \in AccessForWay(w) =>
          \/ IsYes(w, "foot") \/ IsYes(w, "sidewalk")
          \/ /\ ~IsNo(w, "foot") /\ ~IsNo(w, "sidewalk") /\ ~IsNo(w, "access")
             /\ w.highway \notin BlocksWalking
    BY <2>1 DEF AccessForWay
  <2>. QED
    BY <1>1, <2>2, WalkingSays DEF IsNo, IsYes, Opens
<1>. QED
  BY <1>3, <1>4, <1>5, <1>6

-----------------------------------------------------------------------------
(* The road graph follows the map. *)

\* An edge at node a that follows a way of the map by every mode it lets pass.
Mapped(a, e) == \E w \in MapWays : \A mode \in RoadModes : EdgeAllowed(mode, e) => MayPass(w, mode, a, e.to)

\* Shorter than the straight line by half a grain at most.
NearlyStraight(a, e) == 2 * Haversine(a, e.to) <= 2 * e.km + Grain

\* The edges of the road graph, and all edges there can be.
RoadArcs == {ne \in Nodes \X Edge : NearlyStraight(ne[1], ne[2]) /\ Mapped(ne[1], ne[2])}

AnyArcs == Nodes \X Edge

\* Every graph over some edges is one over more.
LEMMA MoreEdges ==
    ASSUME NEW A, NEW B, A \subseteq B
    PROVE  GraphOver(A) \subseteq GraphOver(B)
BY DEF GraphOver, Listed

\* A mode that passes an edge with the flags of a way may use the way.
LEMMA FlagsGrantUse ==
    ASSUME NEW w \in Way, NEW e, NEW mode \in RoadModes, EdgeAllowed(mode, e), e.flags \subseteq AccessForWay(w)
    PROVE  MayUse(w, mode)
<1>1. /\ mode = "car" => "car" \in e.flags
      /\ mode = "motorcycle" => "motorcycle" \in e.flags
      /\ mode = "bus" => "car" \in e.flags \/ "bus" \in e.flags
      /\ mode = "walking" => "foot" \in e.flags
  BY DEF EdgeAllowed, ProfileFlags
<1>. QED
  BY <1>1, AccessIsGranted DEF MayUse, RoadModes

\* Node b follows node a on way w.
Along(w, a, b) == \E i \in 1 .. Len(w.refs) - 1 : w.refs[i] = a /\ w.refs[i + 1] = b

\* A way may be used in the direction its tags and the mode allow.
LEMMA MayPassAlong ==
    ASSUME NEW w \in Way, NEW mode, MayUse(w, mode), NEW a, NEW b,
           \/ Along(w, a, b) /\ w.oneway # "-1"
           \/ Along(w, b, a) /\ w.oneway # "yes"
           \/ Along(w, b, a) /\ mode = "walking" /\ w.highway \notin Pedestrian
           \/ Along(w, a, b) /\ mode = "walking" /\ w.highway \notin Pedestrian
    PROVE  MayPass(w, mode, a, b)
<1>1. w.oneway \in {"no", "yes", "-1"}
  BY DEF Way
<1>2. PICK i \in 1 .. Len(w.refs) - 1 :
        \/ w.refs[i] = a /\ w.refs[i + 1] = b /\ (w.oneway # "-1" \/ (mode = "walking" /\ w.highway \notin Pedestrian))
        \/ w.refs[i] = b /\ w.refs[i + 1] = a /\ (w.oneway # "yes" \/ (mode = "walking" /\ w.highway \notin Pedestrian))
  BY DEF Along
<1>. QED
  BY <1>1, <1>2 DEF MayPass, BothWays

\* The edges made of a row follow the way the row was cut from.
LEMMA RowFitsTheMap ==
    ASSUME NEW row \in MapRow, row.km > 0
    PROVE  RowFits(RoadArcs, row, row.flags, 400) /\ row.bidirectional \in BOOLEAN
<1> DEFINE e == RowEdge(row, row.flags, 400)
           back == [e EXCEPT !.to = row.from]
           walk == [back EXCEPT !.flags = {"foot"}]
<1>1. PICK w \in MapWays : w \in Way /\ RowOf(w, row)
  BY DEF MapRow
<1>2. /\ row.from \in Nodes /\ row.to \in Nodes /\ row.km \in Nat \ {0} /\ row.kind \in DOMAIN HighwaySpeed
      /\ row.speed \in Nat /\ row.name \in STRING /\ row.bidirectional \in BOOLEAN
      /\ row.flags \in SUBSET {"car", "motorcycle", "bus", "foot"}
  BY DEF MapRow, RoadSegment
<1>3. row.kind \in STRING /\ row.flags \in SUBSET Flags /\ {"foot"} \in SUBSET Flags
  <2>1. row.kind = w.highway /\ w.highway \in STRING
    BY <1>1 DEF RowOf, Way
  <2>. QED
    BY <1>2, <2>1 DEF Flags
<1>4. /\ e.to = row.to /\ e.km = row.km /\ e.kind = row.kind /\ e.flags = row.flags
      /\ back.to = row.from /\ back.km = row.km /\ back.kind = row.kind /\ back.flags = row.flags
      /\ walk.to = row.from /\ walk.km = row.km /\ walk.kind = row.kind /\ walk.flags = {"foot"}
      /\ e \in Edge /\ back \in Edge /\ walk \in Edge
  <2>1. /\ e.to = row.to /\ e.km = row.km /\ e.kind = row.kind /\ e.flags = row.flags /\ e \in Edge
    BY <1>2, <1>3 DEF RowEdge, Edge, Label
  <2> HIDE DEF e
  <2>2. /\ back.to = row.from /\ back.km = row.km /\ back.kind = row.kind /\ back.flags = row.flags /\ back \in Edge
    BY <1>2, <2>1 DEF Edge
  <2> HIDE DEF back
  <2>3. /\ walk.to = row.from /\ walk.km = row.km /\ walk.kind = row.kind /\ walk.flags = {"foot"} /\ walk \in Edge
    BY <1>3, <2>2 DEF Edge
  <2>. QED
    BY <2>1, <2>2, <2>3
<1>5. /\ row.km = RoundF(Haversine(row.from, row.to)) /\ row.flags = AccessForWay(w) /\ row.kind = w.highway
      /\ row.bidirectional = (w.oneway = "no")
  BY <1>1 DEF RowOf
<1>6. /\ 2 * Haversine(row.from, row.to) <= 2 * row.km + Grain
      /\ 2 * Haversine(row.to, row.from) <= 2 * row.km + Grain
  BY <1>2, <1>5, Metric, RoundFIsNear DEF Places
<1>7. IF w.oneway = "-1" THEN Along(w, row.to, row.from) ELSE Along(w, row.from, row.to)
  BY <1>1 DEF RowOf, Along
<1> HIDE DEF e, back, walk
<1>8. Mapped(row.from, e)
  <2> SUFFICES ASSUME NEW mode \in RoadModes, EdgeAllowed(mode, e) PROVE MayPass(w, mode, row.from, e.to)
    BY DEF Mapped
  <2>1. MayUse(w, mode)
    BY <1>1, <1>4, <1>5, FlagsGrantUse
  <2>2. (Along(w, row.from, row.to) /\ w.oneway # "-1") \/ (Along(w, row.to, row.from) /\ w.oneway # "yes")
    BY <1>7
  <2>. QED
    BY <1>1, <1>4, <2>1, <2>2, MayPassAlong
<1>9. row.bidirectional => Mapped(row.to, back)
  <2> SUFFICES ASSUME row.bidirectional, NEW mode \in RoadModes, EdgeAllowed(mode, back)
               PROVE  MayPass(w, mode, row.to, back.to)
    BY DEF Mapped
  <2>1. MayUse(w, mode)
    BY <1>1, <1>4, <1>5, FlagsGrantUse
  <2>2. Along(w, row.from, row.to) /\ w.oneway = "no"
    BY <1>5, <1>7
  <2>. QED
    BY <1>1, <1>4, <2>1, <2>2, MayPassAlong
<1>10. "foot" \in row.flags /\ AllowsPedestriansAgainstFlow(row.kind) => Mapped(row.to, walk)
  <2> SUFFICES ASSUME "foot" \in row.flags, AllowsPedestriansAgainstFlow(row.kind),
                      NEW mode \in RoadModes, EdgeAllowed(mode, walk)
               PROVE  MayPass(w, mode, row.to, walk.to)
    BY DEF Mapped
  <2>1. MayUse(w, mode)
    BY <1>1, <1>4, <1>5, FlagsGrantUse
  <2>2. mode = "walking" /\ w.highway \notin Pedestrian
    BY <1>4, <1>5 DEF EdgeAllowed, ProfileFlags, RoadModes, AllowsPedestriansAgainstFlow
  <2>3. Along(w, row.from, row.to) \/ Along(w, row.to, row.from)
    BY <1>7
  <2>. QED
    BY <1>1, <1>4, <2>1, <2>2, <2>3, MayPassAlong
<1>11. NearlyStraight(row.from, e) /\ NearlyStraight(row.to, back) /\ NearlyStraight(row.to, walk)
  BY <1>4, <1>6 DEF NearlyStraight
<1>12. /\ <<row.from, e>> \in RoadArcs /\ (row.bidirectional => <<row.to, back>> \in RoadArcs)
       /\ "foot" \in row.flags /\ AllowsPedestriansAgainstFlow(row.kind) => <<row.to, walk>> \in RoadArcs
  BY <1>2, <1>4, <1>8, <1>9, <1>10, <1>11 DEF RoadArcs
<1>. QED
  BY <1>2, <1>4, <1>12 DEF RowFits, e, back, walk

\* A server that loads a table keeps its road graph one of the map.
LEMMA LoadTableKeeps ==
    ASSUME NEW g \in GraphOver(RoadArcs), NEW rs \in Seq(MapRow)
    PROVE  LoadTable(g, rs) \in GraphOver(RoadArcs)
<1> DEFINE n == Len(rs)
           flags == [i \in DOMAIN rs |-> rs[i].flags]
<1>1. n \in Nat /\ DOMAIN rs = 1 .. n /\ \A i \in 1 .. n : rs[i] \in MapRow
  OBVIOUS
<1>2. \A i \in 1 .. n : flags[i] = rs[i].flags
  BY <1>1
<1> HIDE DEF n
<1>3. ASSUME NEW i \in 1 .. n
      PROVE  /\ rs[i].km > 0 => RowFits(RoadArcs, rs[i], flags[i], 400)
             /\ rs[i].bidirectional \in BOOLEAN
  <2>1. PICK row \in MapRow : row = rs[i]
    BY <1>1
  <2>2. row.bidirectional \in BOOLEAN
    BY DEF MapRow, RoadSegment
  <2>3. row.km > 0 => RowFits(RoadArcs, row, row.flags, 400)
    BY RowFitsTheMap
  <2>. QED
    BY <1>2, <2>1, <2>2, <2>3
<1>4. LoadTable(g, rs) = LoadRows(g, rs, flags, 400)
  BY DEF LoadTable
<1>5. Len(rs) = n
  BY DEF n
<1> HIDE DEF flags
<1>. QED
  BY <1>1, <1>3, <1>4, <1>5, LoadRowsKeeps

-----------------------------------------------------------------------------
(* Rail and transit graphs. *)

\* The rail graph.
LEMMA LoadRailKeeps ==
    LoadRail(RailRows) \in GraphOver(AnyArcs)
<1> DEFINE n == Len(RailRows)
           flags == [i \in DOMAIN RailRows |-> {"train"}]
<1>1. n \in Nat /\ DOMAIN RailRows = 1 .. n
  BY RailsAreTracks
<1>2. \A i \in 1 .. n : flags[i] = {"train"}
  BY <1>1
<1>3. EmptyGraph \in GraphOver(AnyArcs)
  BY GraphOfKeeps DEF EmptyGraph
<1>4. ASSUME NEW i \in 1 .. n
      PROVE  /\ RailRows[i].km > 0 => RowFits(AnyArcs, RailRows[i], flags[i], 800)
             /\ RailRows[i].bidirectional \in BOOLEAN
  <2>1. PICK row : row = RailRows[i]
    OBVIOUS
  <2>2. /\ row.from \in Nodes /\ row.to \in Nodes /\ row.km \in Nat /\ row.kind \in STRING
        /\ row.speed \in Nat /\ row.bidirectional \in BOOLEAN /\ row.name \in STRING
    <3> DEFINE R == [from : Nodes, to : Nodes, km : Nat, kind : STRING, speed : Nat,
                     bidirectional : BOOLEAN, name : STRING]
    <3>1. RailRows \in Seq(R)
      BY RailsAreTracks
    <3>2. row \in R => /\ row.from \in Nodes /\ row.to \in Nodes /\ row.km \in Nat /\ row.kind \in STRING
                       /\ row.speed \in Nat /\ row.bidirectional \in BOOLEAN /\ row.name \in STRING
      OBVIOUS
    <3> HIDE DEF R
    <3>3. row \in R
      BY <2>1, <3>1
    <3>. QED
      BY <3>2, <3>3
  <2>3. row.km > 0 => RowFits(AnyArcs, row, {"train"}, 800)
    <3> SUFFICES ASSUME row.km > 0 PROVE RowFits(AnyArcs, row, {"train"}, 800)
      OBVIOUS
    <3> DEFINE e == RowEdge(row, {"train"}, 800)
               back == [e EXCEPT !.to = row.from]
    <3>1. e \in Edge /\ e.to = row.to /\ e.km = row.km /\ e.flags = {"train"}
      BY <2>2 DEF RowEdge, Edge, Flags, Label
    <3> HIDE DEF e
    <3>2. back \in Edge /\ back.to = row.from /\ back.km = row.km
      BY <2>2, <3>1 DEF Edge
    <3>3. <<row.from, e>> \in AnyArcs /\ <<row.to, back>> \in AnyArcs
      BY <2>2, <3>1, <3>2 DEF AnyArcs
    <3>4. "foot" \notin {"train"}
      OBVIOUS
    <3>. QED
      BY <2>2, <3>1, <3>3, <3>4 DEF RowFits, e
  <2>. QED
    BY <1>2, <2>1, <2>2, <2>3
<1>5. LoadRail(RailRows) = LoadRows(EmptyGraph, RailRows, flags, 800)
  BY DEF LoadRail
<1>6. Len(RailRows) = n
  OBVIOUS
<1> HIDE DEF n, flags
<1>. QED
  BY <1>1, <1>3, <1>4, <1>5, <1>6, LoadRowsKeeps

\* A graph of edges between the stops N.
StopGraph(g, N) == g \in GraphOver(AnyArcs) /\ g.nodes = N

\* An edge added between two stops.
LEMMA AddTransitEdgeKeeps ==
    ASSUME NEW N \in SUBSET Nodes, NEW g, StopGraph(g, N), NEW a \in N, NEW b \in N,
           NEW kind \in Label, NEW speed \in Nat, NEW line \in Label
    PROVE  StopGraph(AddTransitEdge(g, a, b, kind, speed, line), N)
<1> DEFINE h == Haversine(a, b)
           km == (h * 6) \div 5
           e == [to |-> b, km |-> km, kind |-> kind, flags |-> {"transit"}, speed |-> speed, name |-> line]
<1>1. h \in Nat
  BY Metric DEF Places
<1>2. km \in Nat
  <2> HIDE DEF h
  <2>. QED
    BY <1>1
<1>3. CASE km = 0
  BY <1>3 DEF AddTransitEdge
<1>4. CASE km # 0
  <2>1. e \in Edge /\ e.to = b /\ e.km = km
    BY <1>2, <1>4 DEF Edge, Flags
  <2>2. AddTransitEdge(g, a, b, kind, speed, line) = AddEdge(g, a, e)
    BY <1>4 DEF AddTransitEdge
  <2> HIDE DEF e, km, h
  <2>3. <<a, e>> \in AnyArcs
    BY <2>1 DEF AnyArcs
  <2>. QED
    BY <2>1, <2>2, <2>3, AddEdgeKeeps DEF StopGraph
<1>. QED
  BY <1>3, <1>4

\* The line and the last known stop of it.
OnLine(acc, N) == StopGraph(acc.graph, N) /\ acc.prev \in N \cup {NoNode}

\* One stop of a line.
LEMMA NextStopKeeps ==
    ASSUME NEW N \in SUBSET Nodes, NEW acc, OnLine(acc, N), NEW line, line.name \in STRING,
           NEW stop \in Nodes
    PROVE  OnLine(NextStop(acc, line, stop), N)
<1> DEFINE kind == IF line.metro THEN "subway" ELSE "bus_route"
           speed == IF line.metro THEN 400 ELSE 200
           g == IF acc.prev = NoNode THEN acc.graph
                ELSE AddTransitEdge(acc.graph, acc.prev, stop, kind, speed, line.name)
<1>1. kind \in Label /\ speed \in Nat /\ line.name \in Label
  <2>1. CASE line.metro
    BY <2>1 DEF Label, TransitKinds
  <2>2. CASE ~line.metro
    BY <2>2 DEF Label, TransitKinds
  <2>. QED
    BY <2>1, <2>2
<1> HIDE DEF kind, speed
<1>2. stop \in N => StopGraph(g, N)
  BY <1>1, AddTransitEdgeKeeps DEF OnLine
<1>3. NextStop(acc, line, stop) = IF stop \notin acc.graph.nodes THEN acc ELSE [prev |-> stop, graph |-> g]
  BY DEF NextStop, kind, speed
<1> HIDE DEF g
<1>. QED
  BY <1>2, <1>3 DEF OnLine, StopGraph

StopStep(x, g, line, i) == NextStop(x, line, line.stops[i])

StopBody(f, g, line, n) == [i \in 0 .. n |-> IF i = 0 THEN [graph |-> g, prev |-> NoNode] ELSE StopStep(f[i - 1], g, line, i)]

StopLoop(g, line, n) == CHOOSE f : f = StopBody(f, g, line, n)

\* The loop of AddLine.
LEMMA StopRuns ==
    ASSUME NEW g, NEW line, NEW n \in Nat, 0 <= n
    PROVE  LET f == StopLoop(g, line, n)
           IN  /\ f[0] = [graph |-> g, prev |-> NoNode]
               /\ \A i \in 0 .. n : i > 0 => f[i] = StopStep(f[i - 1], g, line, i)
<1> DEFINE S == {k \in Nat : \E f : f = StopBody(f, g, line, k)}
<1>1. 0 \in S
  <2> DEFINE h == [i \in 0 .. 0 |-> [graph |-> g, prev |-> NoNode]]
  <2>1. h = StopBody(h, g, line, 0)
    BY DEF StopBody
  <2>. QED
    BY <2>1
<1>2. ASSUME NEW k \in 0 .. n, k > 0, k - 1 \in S PROVE k \in S
  <2>1. PICK was : was = StopBody(was, g, line, k - 1)
    BY <1>2
  <2> DEFINE h == [i \in 0 .. k |-> IF i = k THEN StopStep(was[k - 1], g, line, k) ELSE was[i]]
  <2>2. \A i \in 0 .. k - 1 : h[i] = was[i] /\ was[i] = IF i = 0 THEN [graph |-> g, prev |-> NoNode] ELSE StopStep(was[i - 1], g, line, i)
    BY <2>1 DEF StopBody
  <2>3. h[k] = StopStep(was[k - 1], g, line, k) /\ h[k - 1] = was[k - 1]
    BY <1>2
  <2>4. ASSUME NEW i \in 0 .. k PROVE h[i] = IF i = 0 THEN [graph |-> g, prev |-> NoNode] ELSE StopStep(h[i - 1], g, line, i)
    <3> HIDE DEF h
    <3>1. CASE i = k
      BY <3>1, <1>2, <2>3
    <3>2. CASE i = 0
      BY <3>2, <1>2, <2>2
    <3>3. CASE i # k /\ i # 0
      <4>1. i \in 0 .. k - 1 /\ i - 1 \in 0 .. k - 1
        BY <3>3, <1>2
      <4>. QED
        BY <3>3, <4>1, <2>2
    <3>. QED
      BY <3>1, <3>2, <3>3
  <2>5. h = StopBody(h, g, line, k)
    BY <2>4 DEF StopBody
  <2>6. k \in Nat
    OBVIOUS
  <2>. QED
    BY <2>5, <2>6
<1>3. n \in S
  <2> HIDE DEF S
  <2>. QED
    BY <1>1, <1>2, UpTo
<1> DEFINE f == StopLoop(g, line, n)
<1>4. f = StopBody(f, g, line, n)
  BY <1>3 DEF StopLoop
<1> HIDE DEF f
<1>5. f[0] = [graph |-> g, prev |-> NoNode] /\ \A i \in 0 .. n : i > 0 => f[i] = StopStep(f[i - 1], g, line, i)
  BY <1>4 DEF StopBody
<1>. QED
  BY <1>5 DEF f

\* The stops of a line.
LEMMA AddLineKeeps ==
    ASSUME NEW N \in SUBSET Nodes, NEW g, StopGraph(g, N), NEW line, line.name \in STRING,
           line.stops \in Seq(Nodes)
    PROVE  StopGraph(AddLine(g, line), N)
<1> DEFINE n == Len(line.stops)
           f == StopLoop(g, line, n)
<1>1. n \in Nat /\ \A i \in 1 .. n : line.stops[i] \in Nodes
  OBVIOUS
<1>2. AddLine(g, line) = f[n].graph
  BY DEF AddLine, StopLoop, StopBody, StopStep
<1>3. f[0] = [graph |-> g, prev |-> NoNode] /\ \A i \in 0 .. n : i > 0 => f[i] = StopStep(f[i - 1], g, line, i)
  BY <1>1, StopRuns
<1> HIDE DEF f, n
<1> DEFINE S == {i \in 0 .. n : OnLine(f[i], N)}
<1>4. 0 \in S
  BY <1>1, <1>3 DEF OnLine
<1>5. ASSUME NEW i \in 0 .. n, i > 0, i - 1 \in S PROVE i \in S
  <2>1. OnLine(f[i - 1], N) /\ line.stops[i] \in Nodes
    BY <1>1, <1>5
  <2>. QED
    BY <1>3, <1>5, <2>1, NextStopKeeps DEF StopStep
<1>6. \A i \in 0 .. n : i \in S
  <2> HIDE DEF S
  <2>. QED
    BY <1>1, <1>4, <1>5, UpTo
<1>. QED
  BY <1>1, <1>2, <1>6 DEF OnLine

LineStep(x, g, lines, i) == AddLine(x, lines[i])

LineBody(f, g, lines, n) == [i \in 0 .. n |-> IF i = 0 THEN g ELSE LineStep(f[i - 1], g, lines, i)]

LineLoop(g, lines, n) == CHOOSE f : f = LineBody(f, g, lines, n)

\* The loop of AddLines.
LEMMA LineRuns ==
    ASSUME NEW g, NEW lines, NEW n \in Nat, 0 <= n
    PROVE  LET f == LineLoop(g, lines, n)
           IN  /\ f[0] = g
               /\ \A i \in 0 .. n : i > 0 => f[i] = LineStep(f[i - 1], g, lines, i)
<1> DEFINE S == {k \in Nat : \E f : f = LineBody(f, g, lines, k)}
<1>1. 0 \in S
  <2> DEFINE h == [i \in 0 .. 0 |-> g]
  <2>1. h = LineBody(h, g, lines, 0)
    BY DEF LineBody
  <2>. QED
    BY <2>1
<1>2. ASSUME NEW k \in 0 .. n, k > 0, k - 1 \in S PROVE k \in S
  <2>1. PICK was : was = LineBody(was, g, lines, k - 1)
    BY <1>2
  <2> DEFINE h == [i \in 0 .. k |-> IF i = k THEN LineStep(was[k - 1], g, lines, k) ELSE was[i]]
  <2>2. \A i \in 0 .. k - 1 : h[i] = was[i] /\ was[i] = IF i = 0 THEN g ELSE LineStep(was[i - 1], g, lines, i)
    BY <2>1 DEF LineBody
  <2>3. h[k] = LineStep(was[k - 1], g, lines, k) /\ h[k - 1] = was[k - 1]
    BY <1>2
  <2>4. ASSUME NEW i \in 0 .. k PROVE h[i] = IF i = 0 THEN g ELSE LineStep(h[i - 1], g, lines, i)
    <3> HIDE DEF h
    <3>1. CASE i = k
      BY <3>1, <1>2, <2>3
    <3>2. CASE i = 0
      BY <3>2, <1>2, <2>2
    <3>3. CASE i # k /\ i # 0
      <4>1. i \in 0 .. k - 1 /\ i - 1 \in 0 .. k - 1
        BY <3>3, <1>2
      <4>. QED
        BY <3>3, <4>1, <2>2
    <3>. QED
      BY <3>1, <3>2, <3>3
  <2>5. h = LineBody(h, g, lines, k)
    BY <2>4 DEF LineBody
  <2>6. k \in Nat
    OBVIOUS
  <2>. QED
    BY <2>5, <2>6
<1>3. n \in S
  <2> HIDE DEF S
  <2>. QED
    BY <1>1, <1>2, UpTo
<1> DEFINE f == LineLoop(g, lines, n)
<1>4. f = LineBody(f, g, lines, n)
  BY <1>3 DEF LineLoop
<1> HIDE DEF f
<1>5. f[0] = g /\ \A i \in 0 .. n : i > 0 => f[i] = LineStep(f[i - 1], g, lines, i)
  BY <1>4 DEF LineBody
<1>. QED
  BY <1>5 DEF f

\* The lines of the overlay.
LEMMA AddLinesKeeps ==
    ASSUME NEW N \in SUBSET Nodes, NEW g, StopGraph(g, N)
    PROVE  StopGraph(AddLines(g, Lines), N)
<1> DEFINE n == Len(Lines)
           f == LineLoop(g, Lines, n)
<1>1. n \in Nat /\ \A i \in 1 .. n : Lines[i].name \in STRING /\ Lines[i].stops \in Seq(Nodes)
  <2> DEFINE R == [name : STRING, metro : BOOLEAN, stops : Seq(Nodes)]
  <2>1. Lines \in Seq(R)
    BY NetworkConstants
  <2>2. \A line \in R : line.name \in STRING /\ line.stops \in Seq(Nodes)
    OBVIOUS
  <2> HIDE DEF R
  <2>3. n \in Nat /\ \A i \in 1 .. n : Lines[i] \in R
    BY <2>1
  <2>. QED
    BY <2>2, <2>3
<1>2. AddLines(g, Lines) = f[n]
  BY DEF AddLines, LineLoop, LineBody, LineStep
<1>3. f[0] = g /\ \A i \in 0 .. n : i > 0 => f[i] = LineStep(f[i - 1], g, Lines, i)
  BY <1>1, LineRuns
<1> HIDE DEF f, n
<1> DEFINE S == {i \in 0 .. n : StopGraph(f[i], N)}
<1>4. 0 \in S
  BY <1>1, <1>3
<1>5. ASSUME NEW i \in 0 .. n, i > 0, i - 1 \in S PROVE i \in S
  <2>1. StopGraph(f[i - 1], N) /\ Lines[i].name \in STRING /\ Lines[i].stops \in Seq(Nodes)
    BY <1>1, <1>5
  <2>. QED
    BY <1>3, <1>5, <2>1, AddLineKeeps DEF LineStep
<1>6. \A i \in 0 .. n : i \in S
  <2> HIDE DEF S
  <2>. QED
    BY <1>1, <1>4, <1>5, UpTo
<1>. QED
  BY <1>1, <1>2, <1>6

\* The elements of a finite set in a row.
LEMMA SetToSeqParts ==
    ASSUME NEW S, IsFiniteSet(S)
    PROVE  /\ SetToSeq(S) \in [1 .. Cardinality(S) -> S] /\ Cardinality(S) \in Nat
           /\ Len(SetToSeq(S)) = Cardinality(S)
<1> DEFINE n == Cardinality(S)
<1>1. n \in Nat /\ ExistsBijection(1 .. n, S)
  BY FS_CardinalityType
<1>2. PICK f \in [1 .. n -> S] : IsInjective(f)
  <2>1. PICK f \in Bijection(1 .. n, S) : TRUE
    BY <1>1 DEF ExistsBijection
  <2>2. f \in [1 .. n -> S] /\ IsInjective(f)
    BY <2>1 DEF Bijection, Injection
  <2>. QED
    BY <2>2
<1>3. SetToSeq(S) \in [1 .. n -> S]
  BY <1>2 DEF SetToSeq
<1> HIDE DEF n
<1>4. Len(SetToSeq(S)) = n
  BY <1>1, <1>3
<1>. QED
  BY <1>1, <1>3, <1>4 DEF n

WalksStep(x, g, pairs, i) == Transfer(x, pairs[i][1], pairs[i][2])

WalksBody(f, g, pairs, n) == [i \in 0 .. n |-> IF i = 0 THEN g ELSE WalksStep(f[i - 1], g, pairs, i)]

WalksLoop(g, pairs, n) == CHOOSE f : f = WalksBody(f, g, pairs, n)

\* The loop of AddTransfers.
LEMMA WalksRuns ==
    ASSUME NEW g, NEW pairs, NEW n \in Nat, 0 <= n
    PROVE  LET f == WalksLoop(g, pairs, n)
           IN  /\ f[0] = g
               /\ \A i \in 0 .. n : i > 0 => f[i] = WalksStep(f[i - 1], g, pairs, i)
<1> DEFINE S == {k \in Nat : \E f : f = WalksBody(f, g, pairs, k)}
<1>1. 0 \in S
  <2> DEFINE h == [i \in 0 .. 0 |-> g]
  <2>1. h = WalksBody(h, g, pairs, 0)
    BY DEF WalksBody
  <2>. QED
    BY <2>1
<1>2. ASSUME NEW k \in 0 .. n, k > 0, k - 1 \in S PROVE k \in S
  <2>1. PICK was : was = WalksBody(was, g, pairs, k - 1)
    BY <1>2
  <2> DEFINE h == [i \in 0 .. k |-> IF i = k THEN WalksStep(was[k - 1], g, pairs, k) ELSE was[i]]
  <2>2. \A i \in 0 .. k - 1 : h[i] = was[i] /\ was[i] = IF i = 0 THEN g ELSE WalksStep(was[i - 1], g, pairs, i)
    BY <2>1 DEF WalksBody
  <2>3. h[k] = WalksStep(was[k - 1], g, pairs, k) /\ h[k - 1] = was[k - 1]
    BY <1>2
  <2>4. ASSUME NEW i \in 0 .. k PROVE h[i] = IF i = 0 THEN g ELSE WalksStep(h[i - 1], g, pairs, i)
    <3> HIDE DEF h
    <3>1. CASE i = k
      BY <3>1, <1>2, <2>3
    <3>2. CASE i = 0
      BY <3>2, <1>2, <2>2
    <3>3. CASE i # k /\ i # 0
      <4>1. i \in 0 .. k - 1 /\ i - 1 \in 0 .. k - 1
        BY <3>3, <1>2
      <4>. QED
        BY <3>3, <4>1, <2>2
    <3>. QED
      BY <3>1, <3>2, <3>3
  <2>5. h = WalksBody(h, g, pairs, k)
    BY <2>4 DEF WalksBody
  <2>6. k \in Nat
    OBVIOUS
  <2>. QED
    BY <2>5, <2>6
<1>3. n \in S
  <2> HIDE DEF S
  <2>. QED
    BY <1>1, <1>2, UpTo
<1> DEFINE f == WalksLoop(g, pairs, n)
<1>4. f = WalksBody(f, g, pairs, n)
  BY <1>3 DEF WalksLoop
<1> HIDE DEF f
<1>5. f[0] = g /\ \A i \in 0 .. n : i > 0 => f[i] = WalksStep(f[i - 1], g, pairs, i)
  BY <1>4 DEF WalksBody
<1>. QED
  BY <1>5 DEF f

\* Transfers between stops.
LEMMA AddTransfersKeeps ==
    ASSUME NEW N \in SUBSET Nodes, NEW g, StopGraph(g, N), NEW city
    PROVE  StopGraph(AddTransfers(g, city), N)
<1> DEFINE near == {ab \in g.nodes \X g.nodes : /\ ab[1] # ab[2]
                                                /\ city[ab[1]] = city[ab[2]]
                                                /\ Haversine(ab[1], ab[2]) \in 1 .. TransferMax}
           pairs == SetToSeq(near)
           n == Len(pairs)
           f == WalksLoop(g, pairs, n)
<1>1. IsFiniteSet(near)
  <2>1. IsFiniteSet(N)
    BY NodesAreFinite, FS_Subset
  <2>2. IsFiniteSet(N \X N) /\ near \in SUBSET (N \X N)
    BY <2>1, FS_Product DEF StopGraph
  <2>. QED
    BY <2>2, FS_Subset
<1>2. n \in Nat /\ \A i \in 1 .. n : pairs[i] \in near
  <2> HIDE DEF near
  <2>. QED
    BY <1>1, SetToSeqParts
<1>3. AddTransfers(g, city) = f[n]
  BY DEF AddTransfers, WalksLoop, WalksBody, WalksStep
<1>4. f[0] = g /\ \A i \in 0 .. n : i > 0 => f[i] = WalksStep(f[i - 1], g, pairs, i)
  BY <1>2, WalksRuns
<1>5. \A i \in 1 .. n : pairs[i][1] \in N /\ pairs[i][2] \in N /\ Haversine(pairs[i][1], pairs[i][2]) \in Nat \ {0}
  <2> SUFFICES ASSUME NEW i \in 1 .. n
               PROVE  pairs[i][1] \in N /\ pairs[i][2] \in N /\ Haversine(pairs[i][1], pairs[i][2]) \in Nat \ {0}
    OBVIOUS
  <2>1. PICK ab : ab = pairs[i]
    OBVIOUS
  <2>2. ab \in N \X N /\ Haversine(ab[1], ab[2]) \in 1 .. TransferMax
    BY <1>2, <2>1 DEF StopGraph
  <2>3. \A k \in 1 .. TransferMax : k \in Nat \ {0}
    BY SnapRadii
  <2>4. Haversine(ab[1], ab[2]) \in Nat \ {0}
    BY <2>2, <2>3
  <2>5. ab[1] \in N /\ ab[2] \in N
    BY <2>2
  <2>. QED
    BY <2>1, <2>4, <2>5, Zenon
<1> HIDE DEF f, n, pairs
<1> DEFINE S == {i \in 0 .. n : StopGraph(f[i], N)}
<1>6. 0 \in S
  BY <1>2, <1>4
<1>7. ASSUME NEW i \in 0 .. n, i > 0, i - 1 \in S PROVE i \in S
  <2>1. StopGraph(f[i - 1], N) /\ i \in 1 .. n
    BY <1>2, <1>7
  <2>2. PICK a \in N, b \in N : a = pairs[i][1] /\ b = pairs[i][2] /\ Haversine(a, b) \in Nat \ {0}
    BY <1>5, <2>1
  <2> DEFINE e == [to |-> b, km |-> Haversine(a, b), kind |-> "transfer", flags |-> {"transit"},
                   speed |-> 50, name |-> "transfer"]
  <2>3. e \in Edge /\ e.to = b /\ e.km = Haversine(a, b)
    <3>1. PICK km : km = Haversine(a, b)
      OBVIOUS
    <3>2. km \in Nat \ {0} /\ b \in Nodes /\ {"transit"} \in SUBSET Flags /\ "transfer" \in Label
      BY <2>2, <3>1 DEF Flags, Label, TransitKinds
    <3>. QED
      BY <3>1, <3>2 DEF Edge
  <2>4. f[i] = AddEdge(f[i - 1], a, e)
    BY <1>4, <1>7, <2>2 DEF WalksStep, Transfer
  <2> HIDE DEF e
  <2>5. <<a, e>> \in AnyArcs
    BY <2>2, <2>3 DEF AnyArcs
  <2>6. StopGraph(f[i], N)
    BY <2>1, <2>3, <2>4, <2>5, AddEdgeKeeps DEF StopGraph
  <2>. QED
    BY <2>6
<1>8. \A i \in 0 .. n : i \in S
  <2> HIDE DEF S
  <2>. QED
    BY <1>2, <1>6, <1>7, UpTo
<1>. QED
  BY <1>2, <1>3, <1>8

\* The overlay of lines and transfers.
LEMMA LoadTransitKeeps ==
    LoadTransit(Stops, Lines, City) \in GraphOver(AnyArcs)
<1>1. Stops \in SUBSET Nodes
  BY NetworkConstants
<1>2. StopGraph(GraphOf(Stops), Stops)
  BY <1>1, GraphOfKeeps DEF StopGraph
<1>3. StopGraph(AddTransfers(AddLines(GraphOf(Stops), Lines), City), Stops)
  BY <1>1, <1>2, AddLinesKeeps, AddTransfersKeeps
<1>. QED
  BY <1>3 DEF LoadTransit, StopGraph

-----------------------------------------------------------------------------
(* The import is exact. *)

ImportTypeOK ==
    /\ table \in [Regions -> Seq(MapRow)]
    /\ target \in Regions
    /\ before \in Seq(MapRow) /\ todo \in Seq(MapRow)
    /\ rows \in Seq(MapRow) /\ stage \in Seq(MapRow)
    /\ total \in Nat

\* The segments of the run.
Wanted == Segments(Extract[target])

\* What is in the table, in the batch and still to come is what the table held
\* and the extract, and the batch is in the stage exactly during a flush.
ImportAddsUp ==
    /\ step \in {"adding", "flushing", "copied", "ending"} =>
         /\ (table[target] \o rows) \o todo = before \o Wanted
         /\ total + Len(rows) + Len(todo) = Len(Wanted)
    /\ step = "inserted" =>
         /\ table[target] \o todo = before \o Wanted
         /\ total + Len(rows) + Len(todo) = Len(Wanted)
    /\ step \in {"adding", "flushing", "ending"} => stage = <<>>
    /\ step \in {"copied", "inserted"} => stage = rows
    /\ step = "ending" => rows = <<>> /\ todo = <<>>

\* The inductive invariant.
ImportInv == ImportTypeOK /\ ImportAddsUp /\ ImportedExactlyOnce

\* Lists of rows, put together.
LEMMA RowLists ==
    ASSUME NEW p \in Seq(MapRow), NEW q \in Seq(MapRow), NEW r \in Seq(MapRow)
    PROVE  /\ p \o q \in Seq(MapRow) /\ Len(p \o q) = Len(p) + Len(q)
           /\ p \o <<>> = p
           /\ <<>> \o p = p
           /\ (p \o q) \o r = p \o (q \o r)
OBVIOUS

\* What a segment that is added leaves behind.
LEMMA RowTypes ==
    ASSUME NEW q \in Seq(MapRow), NEW r \in Seq(MapRow), r # <<>>
    PROVE  /\ Head(r) \in MapRow /\ Tail(r) \in Seq(MapRow)
           /\ Append(q, Head(r)) \in Seq(MapRow)
OBVIOUS

\* A segment that is added moves from what is to come to the batch.
LEMMA NextRow ==
    ASSUME NEW p \in Seq(MapRow), NEW q \in Seq(MapRow), NEW r \in Seq(MapRow), r # <<>>
    PROVE  (p \o Append(q, Head(r))) \o Tail(r) = (p \o q) \o r
<1>1. /\ Head(r) \in MapRow /\ Tail(r) \in Seq(MapRow)
      /\ Append(q, Head(r)) \in Seq(MapRow)
  BY RowTypes
<1>. QED
  BY <1>1, SMTT(30)

\* And the number of rows in the two stays the same.
LEMMA NextRowCount ==
    ASSUME NEW q \in Seq(MapRow), NEW r \in Seq(MapRow), r # <<>>, NEW n \in Nat
    PROVE  n + Len(Append(q, Head(r))) + Len(Tail(r)) = n + Len(q) + Len(r)
<1>1. /\ Len(q) \in Nat /\ Len(r) \in Nat
      /\ Len(Append(q, Head(r))) = Len(q) + 1 /\ Len(Tail(r)) = Len(r) - 1
  OBVIOUS
<1>2. ASSUME NEW a \in Nat, NEW b \in Nat PROVE n + (a + 1) + (b - 1) = n + a + b
  OBVIOUS
<1>. QED
  BY <1>1, <1>2, Zenon

\* Every step of the importer keeps the tables and its own batch lists of rows.
LEMMA ImportTypeStep ==
    ASSUME ImportTypeOK, [Next]_netVars
    PROVE  ImportTypeOK'
<1> USE DEF ImportTypeOK
<1>1. ASSUME NEW r \in Regions, NEW truncate \in BOOLEAN, StartImport(r, truncate) PROVE ImportTypeOK'
  <2>1. table' \in [Regions -> Seq(MapRow)]
    BY <1>1 DEF StartImport
  <2>2. Segments(Extract[r]) \in Seq(MapRow)
    BY SegmentsAreMapped
  <2>. QED
    BY <1>1, <2>1, <2>2 DEF StartImport, NewRoadSegmentImporter
<1>2. CASE AddSegment
  BY <1>2, RowTypes DEF AddSegment
<1>3. CASE LastFlush
  BY <1>3 DEF LastFlush
<1>4. CASE CopyToStage
  BY <1>4, RowLists DEF CopyToStage
<1>5. CASE InsertFromStage
  BY <1>5, RowLists DEF InsertFromStage
<1>6. CASE TruncateStage
  BY <1>6 DEF TruncateStage
<1>7. CASE EndImport
  BY <1>7 DEF EndImport
<1>8. CASE ImportDies
  BY <1>8 DEF ImportDies
<1>9. CASE UNCHANGED importVars
  BY <1>9 DEF importVars
<1>. QED
  BY <1>1, <1>2, <1>3, <1>4, <1>5, <1>6, <1>7, <1>8, <1>9
     DEF Next, Import, ImportStep, StartServer, LoadRegion, LoadEnds, Answer, netVars

\* Every step of the importer accounts for every segment: what leaves one of
\* the lists arrives in the next, and a flush ends with an empty batch and an
\* empty stage.
LEMMA ImportSumStep ==
    ASSUME ImportInv, ImportTypeOK', [Next]_netVars
    PROVE  ImportAddsUp' /\ ImportedExactlyOnce'
<1> USE DEF ImportInv
<1>w. Wanted \in Seq(MapRow)
  BY SegmentsAreMapped DEF Wanted, ImportTypeOK
<1>t. table[target] \in Seq(MapRow)
  BY DEF ImportTypeOK
<1>1. ASSUME NEW r \in Regions, NEW truncate \in BOOLEAN, StartImport(r, truncate)
      PROVE  ImportAddsUp' /\ ImportedExactlyOnce'
  <2>1. /\ table'[target'] = before' /\ rows' = <<>> /\ stage' = <<>> /\ total' = 0
        /\ step' = "adding" /\ todo' = Wanted'
    BY <1>1 DEF StartImport, NewRoadSegmentImporter, Wanted
  <2>2. Wanted' \in Seq(MapRow) /\ before' \in Seq(MapRow)
    BY <1>1, SegmentsAreMapped DEF StartImport, Wanted, ImportTypeOK
  <2>3. before' \o <<>> = before' /\ Len(<<>>) = 0 /\ Len(Wanted') \in Nat
    BY <2>2
  <2>4. 0 + Len(<<>>) + Len(Wanted') = Len(Wanted')
    BY <2>3
  <2>. QED
    BY <2>1, <2>3, <2>4 DEF ImportAddsUp, ImportedExactlyOnce
<1>2. CASE AddSegment
  <2>1. rows \in Seq(MapRow) /\ todo \in Seq(MapRow) /\ todo # <<>> /\ total \in Nat
    BY <1>2 DEF AddSegment, ImportTypeOK
  <2>2. (table[target] \o Append(rows, Head(todo))) \o Tail(todo) = (table[target] \o rows) \o todo
    BY <2>1, <1>t, NextRow, Zenon
  <2>3. total + Len(Append(rows, Head(todo))) + Len(Tail(todo)) = total + Len(rows) + Len(todo)
    BY <2>1, NextRowCount, Zenon
  <2>4. /\ table' = table /\ target' = target /\ before' = before /\ stage' = stage /\ total' = total
        /\ rows' = Append(rows, Head(todo)) /\ todo' = Tail(todo) /\ Wanted' = Wanted
        /\ step = "adding" /\ step' \in {"adding", "flushing"}
    BY <1>2 DEF AddSegment, Wanted
  <2>5. /\ (table'[target'] \o rows') \o todo' = (table[target] \o rows) \o todo
        /\ total' + Len(rows') + Len(todo') = total + Len(rows) + Len(todo)
    BY <2>2, <2>3, <2>4, Zenon
  <2>. QED
    BY <2>4, <2>5 DEF ImportAddsUp, ImportedExactlyOnce
<1>3. CASE LastFlush
  <2>1. UNCHANGED <<table, before, target, todo, rows, stage, total>> /\ Wanted' = Wanted
    BY <1>3 DEF LastFlush, Wanted
  <2>. QED
    BY <1>3, <2>1 DEF LastFlush, ImportAddsUp, ImportedExactlyOnce
<1>4. CASE CopyToStage
  <2>1. UNCHANGED <<table, before, target, todo, rows, total>> /\ Wanted' = Wanted
    BY <1>4 DEF CopyToStage, Wanted
  <2>2. stage' = rows
    <3>1. stage = <<>> /\ stage' = stage \o rows
      BY <1>4 DEF CopyToStage, ImportAddsUp
    <3>. QED
      BY <3>1 DEF ImportTypeOK
  <2>. QED
    BY <1>4, <2>1, <2>2 DEF CopyToStage, ImportAddsUp, ImportedExactlyOnce
<1>5. CASE InsertFromStage
  <2>1. UNCHANGED <<before, target, todo, rows, stage, total>> /\ Wanted' = Wanted
    BY <1>5 DEF InsertFromStage, Wanted
  <2>2. stage = rows /\ step = "copied" /\ step' = "inserted"
    BY <1>5 DEF InsertFromStage, ImportAddsUp
  <2>3. table'[target] = table[target] \o rows
    BY <1>5, <2>2 DEF InsertFromStage, ImportTypeOK
  <2>. QED
    BY <2>1, <2>2, <2>3 DEF ImportAddsUp, ImportedExactlyOnce
<1>6. CASE TruncateStage
  <2>1. /\ UNCHANGED <<table, before, target, todo>> /\ Wanted' = Wanted
        /\ stage' = <<>> /\ rows' = <<>> /\ total' = total + Len(rows)
        /\ step = "inserted" /\ step' = "adding"
    BY <1>6 DEF TruncateStage, Wanted
  <2>2. table[target] \o <<>> = table[target]
    BY <1>t
  <2>3. /\ total \in Nat /\ Len(rows) \in Nat /\ Len(todo) \in Nat /\ Len(<<>>) = 0
    BY DEF ImportTypeOK
  <2>4. (table'[target'] \o rows') \o todo' = before' \o Wanted'
    BY <2>1, <2>2 DEF ImportAddsUp
  <2>5. total' + Len(rows') + Len(todo') = total + Len(rows) + Len(todo)
    BY <2>1, <2>3
  <2>. QED
    BY <2>1, <2>4, <2>5 DEF ImportAddsUp, ImportedExactlyOnce
<1>7. CASE EndImport
  <2>1. UNCHANGED <<table, before, target, todo, rows, stage, total>> /\ Wanted' = Wanted
    BY <1>7 DEF EndImport, Wanted
  <2>2. rows = <<>> /\ todo = <<>> /\ step = "ending" /\ step' \in {"failed", "done"}
    BY <1>7 DEF EndImport, ImportAddsUp
  <2>3. (table[target] \o <<>>) \o <<>> = table[target]
    BY <1>t
  <2>4. table[target] = before \o Wanted
    BY <2>2, <2>3 DEF ImportAddsUp
  <2>5. total = Len(Wanted)
    <3>1. total + Len(rows) + Len(todo) = Len(Wanted) /\ Len(<<>>) = 0 /\ total \in Nat
      BY <2>2 DEF ImportAddsUp, ImportTypeOK
    <3>. QED
      BY <3>1, <2>2
  <2>. QED
    BY <2>1, <2>2, <2>4, <2>5 DEF ImportAddsUp, ImportedExactlyOnce, Wanted
<1>8. CASE ImportDies
  BY <1>8 DEF ImportDies, ImportAddsUp, ImportedExactlyOnce
<1>9. CASE UNCHANGED importVars
  BY <1>9 DEF importVars, ImportAddsUp, ImportedExactlyOnce, Wanted
<1>. QED
  BY <1>1, <1>2, <1>3, <1>4, <1>5, <1>6, <1>7, <1>8, <1>9
     DEF Next, Import, ImportStep, StartServer, LoadRegion, LoadEnds, Answer, netVars

\* osm2postgis: whatever runs failed half way before it, whatever the batch
\* size and the extract, and whenever a server reads the tables, a run that
\* reports success has added every segment exactly once and counted them.
THEOREM ImportIsExact == Spec => []ImportedExactlyOnce
<1>1. Init => ImportInv
  BY DEF Init, ImportInit, ImportInv, ImportTypeOK, ImportAddsUp, ImportedExactlyOnce
<1>2. ImportInv /\ [Next]_netVars => ImportInv'
  BY ImportTypeStep, ImportSumStep DEF ImportInv
<1>3. ImportInv => ImportedExactlyOnce
  BY DEF ImportInv
<1>. QED
  BY <1>1, <1>2, <1>3, PTL DEF Spec

-----------------------------------------------------------------------------
(* Requests. *)

\* The graphs of the server: the road graph follows the map, and no edge of
\* any is shorter than the straight line.
GraphsOK ==
    /\ graph \in [Nets -> Graph]
    /\ graph["road"] \in GraphOver(RoadArcs)
    /\ graph["rail"] \in GraphOver(AnyArcs) /\ graph["transit"] \in GraphOver(AnyArcs)

\* The request that is being answered.
QueryOK ==
    phase \in {"first", "spurs", "spur", "done"} =>
      /\ query.net \in Nets
      /\ query.net = "road" => query.mode \in RoadModes
      /\ query.net = "transit" => query.algorithm = "astar"
      /\ \E a, b \in Places : query.places = <<a, b>>

\* A search runs only on a server that is up, so the graphs stand still.
ServerOK ==
    /\ server \in {"down", "loading", "up", "refused"} /\ toLoad \in Seq(Regions)
    /\ server # "up" => phase = "idle"

\* The loaded graphs are graphs of edges.
LEMMA GraphsAreLoaded ==
    ASSUME GraphsOK
    PROVE  /\ \A net \in Nets : graph[net] \in GraphOver(AnyArcs)
           /\ GraphTypes
<1>1. RoadArcs \subseteq AnyArcs /\ AnyArcs \subseteq Nodes \X Edge
  BY DEF RoadArcs, AnyArcs
<1>2. GraphOver(RoadArcs) \subseteq GraphOver(AnyArcs) /\ GraphOver(AnyArcs) \subseteq GraphOver(Nodes \X Edge)
  BY <1>1, MoreEdges
<1>3. \A net \in Nets : graph[net] \in GraphOver(AnyArcs)
  BY <1>2 DEF GraphsOK, Nets
<1>. QED
  BY <1>2, <1>3 DEF GraphTypes

\* A request that is refused leaves the graphs alone.
LEMMA RefuseQuery ==
    ASSUME SearchInv, Refuse
    PROVE  SearchInv' /\ QueryOK' /\ graph' = graph
BY RefuseKeeps DEF Refuse, QueryOK

\* A search begins on one of the loaded graphs.
LEMMA BeginQuery ==
    ASSUME SearchInv, GraphsOK, NEW net \in Nets, NEW mode \in Modes, net = "road" => mode \in RoadModes,
           NEW a \in Places, NEW b \in Places,
           NEW starts, NEW goals, starts \subseteq graph[net].nodes, goals \subseteq graph[net].nodes,
           NEW k, NEW heuristic \in BOOLEAN, NEW algorithm \in Algorithms,
           Begin(net, mode, <<a, b>>, starts, goals, k, heuristic, algorithm),
           algorithm = "astar" => query'.start # query'.goal, net = "transit" => algorithm = "astar"
    PROVE  SearchInv' /\ QueryOK' /\ graph' = graph
<1>1. SearchInv' /\ query'.places = <<a, b>> /\ query'.net = net /\ query'.mode = mode
  BY GraphsAreLoaded, BeginKeeps
<1>2. phase' = "first" /\ graph' = graph /\ query'.algorithm = algorithm
  BY DEF Begin
<1>. QED
  BY <1>1, <1>2 DEF QueryOK

\* A request on the road graph.
LEMMA RoadRequestKeeps ==
    ASSUME SearchInv, GraphsOK, NEW mode \in RoadModes, NEW a \in Places, NEW b \in Places, NEW k \in Nat,
           RoadRequest(mode, a, b, k)
    PROVE  SearchInv' /\ QueryOK' /\ graph' = graph
<1> DEFINE starts == Snap(graph["road"], mode, a)
           goals  == Snap(graph["road"], mode, b)
           j      == IF k > 1 /\ Haversine(a, b) > LongRoute THEN 1 ELSE k
<1>1. starts \subseteq graph["road"].nodes /\ goals \subseteq graph["road"].nodes
  BY DEF Snap, NearestWithin
<1>2. mode \in Modes /\ "road" \in Nets /\ "yen" \in Algorithms /\ TRUE \in BOOLEAN /\ "yen" # "astar"
      /\ "road" # "transit"
  BY ModeNames DEF RoadModes, Nets, Algorithms
<1>3. Begin("road", mode, <<a, b>>, starts, goals, j, TRUE, "yen") \/ Refuse
  BY DEF RoadRequest
<1> HIDE DEF starts, goals, j
<1>4. CASE Begin("road", mode, <<a, b>>, starts, goals, j, TRUE, "yen")
  BY <1>1, <1>2, <1>4, BeginQuery
<1>. QED
  BY <1>3, <1>4, RefuseQuery

\* A request on the rail graph or the overlay.
LEMMA BetweenStopsKeeps ==
    ASSUME SearchInv, GraphsOK, NEW net \in Nets, NEW mode \in Modes, net = "road" => mode \in RoadModes,
           NEW radius, NEW a \in Places, NEW b \in Places,
           NEW heuristic \in BOOLEAN, NEW algorithm \in Algorithms, net = "transit" => algorithm = "astar",
           BetweenStops(net, mode, radius, a, b, heuristic, algorithm)
    PROVE  SearchInv' /\ QueryOK' /\ graph' = graph
<1> DEFINE starts == NearestWithin(graph[net], mode, a, radius)
           goals  == NearestWithin(graph[net], mode, b, radius)
<1>1. starts \subseteq graph[net].nodes /\ goals \subseteq graph[net].nodes
  BY DEF NearestWithin
<1>2. \/ /\ Begin(net, mode, <<a, b>>, starts, goals, 1, heuristic, algorithm)
         /\ query'.start # query'.goal
      \/ Refuse
  BY DEF BetweenStops
<1> HIDE DEF starts, goals
<1>3. CASE Begin(net, mode, <<a, b>>, starts, goals, 1, heuristic, algorithm) /\ query'.start # query'.goal
  BY <1>1, <1>3, BeginQuery
<1>. QED
  BY <1>2, <1>3, RefuseQuery

\* What a search step leaves alone.
LEMMA StepKeepsQuery ==
    ASSUME SearchStep, QueryOK
    PROVE  QueryOK' /\ graph' = graph /\ phase # "idle" /\ phase # "done" /\ phase # "refused" /\ query' = query
<1>1. /\ graph' = graph /\ query' = query /\ phase \in {"first", "spurs", "spur"}
  <2>1. CASE DeadlinePasses
    BY <2>1 DEF DeadlinePasses, Searching
  <2>2. CASE SearchCancelled \/ SameNode \/ BidirEnds \/ AStarArrives \/ AStarGivesUp
    BY <2>2 DEF SearchCancelled, SameNode, BidirEnds, AStarArrives, AStarGivesUp, Running, Searching, Return
  <2>3. CASE ExpandForward \/ ExpandBackward \/ AStarExpands
    BY <2>3 DEF ExpandForward, ExpandBackward, AStarExpands, Running, Searching
  <2>4. CASE NextSpur \/ Accept \/ NoMoreCandidates
    BY <2>4 DEF NextSpur, Accept, NoMoreCandidates
  <2>. QED
    BY <2>1, <2>2, <2>3, <2>4 DEF SearchStep
<1>. QED
  BY <1>1 DEF QueryOK

\* The requests and the steps of the search, on a server that is up.
Served ==
    \/ \E j \in Journeys :
         \/ \E mode \in RoadModes, k \in 1 .. 3 : RoadRequest(mode, j[1], j[2], k)
         \/ TrainRequest(j[1], j[2])
         \/ TransitRequest(j[1], j[2])
    \/ \E net \in {"road", "rail"}, a, b \in Stops : PolylineRequest(net, a, b)
    \/ SearchStep

\* Every request and every step of a search.
LEMMA ServedKeeps ==
    ASSUME SearchInv, GraphsOK, QueryOK, Served
    PROVE  SearchInv' /\ QueryOK' /\ graph' = graph
<1>0. \A j \in Journeys : j[1] \in Places /\ j[2] \in Places
  BY NetworkConstants
<1>1. \A a \in Stops : a \in Places
  BY NetworkConstants DEF Places
<1>2. /\ "rail" \in Nets /\ "transit" \in Nets /\ "road" \in Nets /\ "rail" # "road" /\ "transit" # "road"
      /\ "rail" # "transit"
      /\ "train" \in Modes /\ "public_transport" \in Modes /\ "bus" \in Modes /\ "bus" \in RoadModes
      /\ "yen" \in Algorithms /\ "astar" \in Algorithms /\ TRUE \in BOOLEAN /\ FALSE \in BOOLEAN
  BY ModeNames DEF Nets, RoadModes, Algorithms
<1>3. ASSUME NEW j \in Journeys, NEW mode \in RoadModes, NEW k \in 1 .. 3, RoadRequest(mode, j[1], j[2], k)
      PROVE  SearchInv' /\ QueryOK' /\ graph' = graph
  BY <1>0, <1>3, RoadRequestKeeps
<1>4. ASSUME NEW j \in Journeys, TrainRequest(j[1], j[2])
      PROVE  SearchInv' /\ QueryOK' /\ graph' = graph
  BY <1>0, <1>2, <1>4, BetweenStopsKeeps DEF TrainRequest
<1>5. ASSUME NEW j \in Journeys, TransitRequest(j[1], j[2])
      PROVE  SearchInv' /\ QueryOK' /\ graph' = graph
  BY <1>0, <1>2, <1>5, BetweenStopsKeeps DEF TransitRequest
<1>6. ASSUME NEW net \in {"road", "rail"}, NEW a \in Stops, NEW b \in Stops, PolylineRequest(net, a, b)
      PROVE  SearchInv' /\ QueryOK' /\ graph' = graph
  <2>1. CASE net = "road"
    <3>1. BetweenStops("road", "bus", GeomSnap, a, b, TRUE, "astar")
      BY <1>6, <2>1 DEF PolylineRequest
    <3>. QED
      BY <1>1, <1>2, <3>1, BetweenStopsKeeps
  <2>2. CASE net = "rail"
    <3>1. BetweenStops("rail", "train", GeomSnap, a, b, TRUE, "astar")
      BY <1>6, <2>2 DEF PolylineRequest
    <3>. QED
      BY <1>1, <1>2, <3>1, BetweenStopsKeeps
  <2>. QED
    BY <2>1, <2>2
<1>7. CASE SearchStep
  BY <1>7, SearchStepKeeps, StepKeepsQuery
<1>. QED
  BY <1>3, <1>4, <1>5, <1>6, <1>7 DEF Served

-----------------------------------------------------------------------------
(* Import, loading and search together. *)

\* The inductive invariant of import, loading and search.
NetInv == ImportTypeOK /\ GraphsOK /\ QueryOK /\ ServerOK /\ SearchInv

\* Before the first request there is nothing to keep.
LEMMA IdleSearch ==
    ASSUME phase = "idle", spur \in Nat \ {0}, accepted = <<>>, candidates = {}
    PROVE  SearchInv /\ QueryOK
<1>1. accepted \in Seq(Path)
  OBVIOUS
<1>2. Shape
  BY <1>1 DEF Shape
<1>3. Paths
  BY DEF Paths
<1>4. Sides
  BY DEF Sides, Searching
<1>. QED
  BY <1>2, <1>3, <1>4 DEF SearchInv, QueryOK

\* The invariant holds before the first import.
LEMMA NetInit == Init => NetInv
<1> SUFFICES ASSUME Init PROVE NetInv
  OBVIOUS
<1>1. ImportTypeOK
  BY DEF Init, ImportInit, ImportTypeOK
<1>2. GraphsOK
  <2>1. /\ EmptyGraph \in GraphOver(RoadArcs) /\ LoadRail(RailRows) \in GraphOver(AnyArcs)
        /\ LoadTransit(Stops, Lines, City) \in GraphOver(AnyArcs)
    BY GraphOfKeeps, LoadRailKeeps, LoadTransitKeeps DEF EmptyGraph
  <2>2. graph = [road |-> EmptyGraph, rail |-> LoadRail(RailRows), transit |-> LoadTransit(Stops, Lines, City)]
    BY DEF Init, SearchInit
  <2>3. \A A : GraphOver(A) \subseteq Graph
    BY DEF GraphOver
  <2>4. \A r, t \in Graph : EmptyGraph \in Graph => [road |-> EmptyGraph, rail |-> r, transit |-> t] \in [Nets -> Graph]
    BY DEF Nets
  <2>. QED
    BY <2>1, <2>2, <2>3, <2>4 DEF GraphsOK
<1>3. SearchInv /\ QueryOK
  BY IdleSearch DEF Init, SearchInit
<1>4. ServerOK
  BY DEF Init, SearchInit, ServerOK
<1>. QED
  BY <1>1, <1>2, <1>3, <1>4 DEF NetInv

\* A step outside of the search happens before the first request.
LEMMA OutsideKeeps ==
    ASSUME NetInv, UNCHANGED <<phase, accepted, candidates, spur>>, server # "up"
    PROVE  SearchInv' /\ QueryOK'
<1>1. phase = "idle" /\ spur \in Nat \ {0} /\ accepted = <<>> /\ candidates = {}
  BY DEF NetInv, ServerOK, SearchInv, Shape
<1>2. phase' = "idle" /\ spur' \in Nat \ {0} /\ accepted' = <<>> /\ candidates' = {}
  BY <1>1
<1>3. accepted' \in Seq(Path)' /\ candidates' \in SUBSET Path'
  BY <1>2
<1>4. Shape'
  BY <1>2, <1>3 DEF Shape
<1>5. Paths'
  BY <1>2 DEF Paths
<1>6. Sides'
  BY <1>2 DEF Sides, Searching
<1>. QED
  BY <1>2, <1>4, <1>5, <1>6 DEF SearchInv, QueryOK

\* Every step of import, loading and search keeps the invariant.
LEMMA NetStep == NetInv /\ [Next]_netVars => NetInv'
<1> SUFFICES ASSUME NetInv, [Next]_netVars PROVE NetInv'
  OBVIOUS
<1>1. ImportTypeOK'
  BY ImportTypeStep DEF NetInv
<1>2. CASE Import \/ StartServer
  <2>1. server # "up" /\ UNCHANGED <<graph, phase, accepted, candidates, spur>>
    BY <1>2 DEF Import, StartServer, vars, yenVars
  <2>2. SearchInv' /\ QueryOK'
    BY <2>1, OutsideKeeps
  <2>3. ServerOK'
    BY <1>2, <2>1, NetworkConstants DEF NetInv, ServerOK, Import, StartServer
  <2>4. GraphsOK'
    BY <2>1 DEF NetInv, GraphsOK
  <2>. QED
    BY <1>1, <2>2, <2>3, <2>4 DEF NetInv
<1>3. CASE LoadRegion
  <2>1. /\ server = "loading" /\ toLoad # <<>> /\ UNCHANGED <<server, phase, accepted, candidates, spur>>
        /\ graph' = [graph EXCEPT !["road"] = LoadTable(@, table[Head(toLoad)])] /\ toLoad' = Tail(toLoad)
    BY <1>3 DEF LoadRegion, yenVars
  <2>2. SearchInv' /\ QueryOK'
    BY <2>1, OutsideKeeps
  <2>3. toLoad \in Seq(Regions) /\ Head(toLoad) \in Regions /\ Tail(toLoad) \in Seq(Regions)
    BY <2>1 DEF NetInv, ServerOK
  <2>4. ServerOK'
    BY <2>1, <2>3 DEF NetInv, ServerOK
  <2>5. LoadTable(graph["road"], table[Head(toLoad)]) \in GraphOver(RoadArcs)
    BY <2>3, LoadTableKeeps DEF NetInv, GraphsOK, ImportTypeOK
  <2>6. \A g : /\ g \in GraphOver(RoadArcs) /\ graph' = [graph EXCEPT !["road"] = g] => GraphsOK'
    BY DEF NetInv, GraphsOK, Nets, GraphOver
  <2>7. GraphsOK'
    BY <2>1, <2>5, <2>6
  <2>. QED
    BY <1>1, <2>2, <2>4, <2>7 DEF NetInv
<1>4. CASE LoadEnds
  <2>1. server = "loading" /\ server' \in {"refused", "up"} /\ toLoad' = toLoad
        /\ UNCHANGED <<graph, phase, accepted, candidates, spur>>
    BY <1>4 DEF LoadEnds, vars, yenVars
  <2>2. SearchInv' /\ QueryOK'
    BY <2>1, OutsideKeeps
  <2>3. ServerOK'
    BY <2>1 DEF NetInv, ServerOK
  <2>4. GraphsOK'
    BY <2>1 DEF NetInv, GraphsOK
  <2>. QED
    BY <1>1, <2>2, <2>3, <2>4 DEF NetInv
<1>5. CASE Answer
  <2>1. server = "up" /\ UNCHANGED <<server, toLoad>> /\ Served
    BY <1>5 DEF Answer, Served
  <2>2. SearchInv' /\ QueryOK' /\ graph' = graph
    BY <2>1, ServedKeeps DEF NetInv
  <2>3. GraphsOK' /\ ServerOK'
    BY <2>1, <2>2 DEF NetInv, GraphsOK, ServerOK
  <2>. QED
    BY <1>1, <2>2, <2>3 DEF NetInv
<1>6. CASE UNCHANGED netVars
  <2>1. /\ UNCHANGED <<graph, query, phase, fwd, bwd, best, from, blocked, accepted, candidates, seen, spur>>
        /\ UNCHANGED <<server, toLoad>>
    BY <1>6 DEF netVars, vars, searchVars, yenVars
  <2>2. /\ Shape' /\ Paths' /\ Free' = Free /\ ForwardLinks' = ForwardLinks /\ BackwardLinks' = BackwardLinks
        /\ (Searching' <=> Searching)
    BY <2>1, MovesKeep DEF NetInv
  <2>3. Sides'
    BY <2>1, <2>2 DEF NetInv, SearchInv, Sides
  <2>4. GraphsOK' /\ ServerOK' /\ QueryOK'
    BY <2>1 DEF NetInv, GraphsOK, ServerOK, QueryOK
  <2>. QED
    BY <1>1, <2>2, <2>3, <2>4 DEF NetInv, SearchInv
<1>. QED
  BY <1>2, <1>3, <1>4, <1>5, <1>6 DEF Next

\* The invariant always holds.
LEMMA NetAlways == Spec => []NetInv
<1>. QED
  BY NetInit, NetStep, PTL DEF Spec

\* Every path answered by KFastestPaths or AStar leads from the start of the
\* request to its goal over edges of the graph its profile allows, passes no
\* node twice, reports the sums over its edges, and is answered once: for
\* any map, any import that ran before, any graph and any order in which the
\* heaps give out equal items.
THEOREM PathsAreAlwaysSound == Spec => []PathsAreSound
<1>1. NetInv => PathsAreSound
  <2> SUFFICES ASSUME SearchInv, phase = "done", NEW i \in DOMAIN accepted
               PROVE  /\ SoundPath(accepted[i])
                      /\ \A j \in DOMAIN accepted : i # j => accepted[j].nodes # accepted[i].nodes
    BY DEF NetInv, PathsAreSound
  <2>1. GoodPath(accepted[i], query.start, query.goal)
    BY DEF SearchInv, Paths
  <2>2. SoundPath(accepted[i])
    BY <2>1 DEF GoodPath, IsPath, Passes, SoundPath
  <2>. QED
    BY <2>2 DEF SearchInv, Paths
<1>. QED
  BY <1>1, NetAlways, PTL

\* A path that is answered, on its graph.
LEMMA AnsweredPath ==
    ASSUME NetInv, phase = "done", NEW r \in DOMAIN accepted
    PROVE  /\ GoodPath(accepted[r], query.start, query.goal) /\ accepted[r] \in Path
           /\ SearchTypes /\ G \in GraphOver(AnyArcs)
           /\ query.net = "road" => G \in GraphOver(RoadArcs) /\ query.mode \in RoadModes
           /\ \A j \in 1 .. Len(accepted[r].nodes) - 1 :
                /\ accepted[r].nodes[j] \in Nodes /\ accepted[r].nodes[j + 1] \in Nodes
                /\ accepted[r].edges[j] \in Edge
                /\ accepted[r].edges[j].to = accepted[r].nodes[j + 1]
                /\ EdgeAllowed(query.mode, accepted[r].edges[j])
                /\ \A A : G \in GraphOver(A) => <<accepted[r].nodes[j], accepted[r].edges[j]>> \in A
<1>1. PICK p : p = accepted[r]
  OBVIOUS
<1>2. GoodPath(p, query.start, query.goal) /\ p \in Path
  BY <1>1 DEF NetInv, SearchInv, Paths, Shape
<1>3. SearchTypes
  BY DEF NetInv, SearchInv, Shape
<1>4. query.net \in Nets /\ (query.net = "road" => query.mode \in RoadModes)
  BY DEF NetInv, QueryOK
<1>5. G \in GraphOver(AnyArcs) /\ (query.net = "road" => G \in GraphOver(RoadArcs))
  BY <1>4, GraphsAreLoaded DEF NetInv, GraphsOK, G
<1>6. ASSUME NEW j \in 1 .. Len(p.nodes) - 1
      PROVE  /\ p.nodes[j] \in Nodes /\ p.nodes[j + 1] \in Nodes /\ p.edges[j] \in Edge
             /\ p.edges[j].to = p.nodes[j + 1]
             /\ EdgeAllowed(query.mode, p.edges[j])
             /\ \A A : G \in GraphOver(A) => <<p.nodes[j], p.edges[j]>> \in A
  <2>1. /\ p.nodes \in Seq(Nodes) /\ p.edges \in Seq(Edge) /\ Len(p.edges) = Len(p.nodes) - 1
        /\ Passes(p.nodes[j], p.edges[j], p.nodes[j + 1])
    BY <1>2 DEF GoodPath, IsPath
  <2>2. p.nodes[j] \in Nodes /\ p.nodes[j + 1] \in Nodes /\ p.edges[j] \in Edge
    BY <2>1
  <2>3. p.edges[j].to = p.nodes[j + 1] /\ EdgeAllowed(query.mode, p.edges[j]) /\ p.edges[j] \in Range(G.edges[p.nodes[j]])
    BY <2>1 DEF Passes
  <2>4. \A A : G \in GraphOver(A) => <<p.nodes[j], p.edges[j]>> \in A
    BY <2>2, <2>3 DEF GraphOver, Listed, Range
  <2>. QED
    BY <2>2, <2>3, <2>4
<1>. QED
  BY <1>1, <1>2, <1>3, <1>4, <1>5, <1>6

\* Every leg of a road route follows a way of the map in a direction and by a
\* mode its tags allow, for any map and whatever state the imports were in
\* when the server loaded the tables.
THEOREM RoutesAlwaysObeyTheMap == Spec => []RoutesObeyTheMap
<1>1. NetInv => RoutesObeyTheMap
  <2> SUFFICES ASSUME NetInv, phase = "done", query.net = "road", NEW i \in DOMAIN accepted,
                      NEW j \in 1 .. Len(accepted[i].nodes) - 1
               PROVE  \E r \in Regions : \E w \in Range(Extract[r].ways) :
                        MayPass(w, query.mode, accepted[i].nodes[j], accepted[i].nodes[j + 1])
    BY DEF RoutesObeyTheMap
  <2>1. PICK a, e, b : a = accepted[i].nodes[j] /\ e = accepted[i].edges[j] /\ b = accepted[i].nodes[j + 1]
    OBVIOUS
  <2>2. /\ query.mode \in RoadModes /\ G \in GraphOver(RoadArcs) /\ e.to = b /\ EdgeAllowed(query.mode, e)
        /\ \A A : G \in GraphOver(A) => <<a, e>> \in A
    BY <2>1, AnsweredPath
  <2>3. Mapped(a, e)
    BY <2>2 DEF RoadArcs
  <2>4. PICK w \in MapWays : MayPass(w, query.mode, a, b)
    BY <2>2, <2>3 DEF Mapped
  <2>. QED
    BY <2>1, <2>4 DEF MapWays
<1>. QED
  BY <1>1, NetAlways, PTL

-----------------------------------------------------------------------------
(* Lengths. *)

\* The way from a over s and t to b, in lengths, when s and t are km apart by
\* a path that may be cut short by the slack.
LEMMA Detour ==
    ASSUME NEW ab \in Nat, NEW a1 \in Nat, NEW sb \in Nat, NEW s1 \in Nat, NEW tb \in Nat,
           NEW km \in Nat, NEW slack \in Nat,
           2 * km + slack >= 2 * s1, ab <= a1 + sb, sb <= s1 + tb
    PROVE  2 * (km + a1 + tb) + slack >= 2 * ab
OBVIOUS

\* A path of the road graph is shorter than the straight line by half a grain
\* for each of its edges at most.
LEMMA PathIsLong ==
    ASSUME NetInv, phase = "done", query.net = "road", NEW r \in DOMAIN accepted
    PROVE  LET p == accepted[r]
           IN  /\ p.nodes[1] \in Nodes /\ Last(p.nodes) \in Nodes /\ p.km \in Nat /\ Len(p.edges) \in Nat
               /\ 2 * p.km + Grain * Len(p.edges) >= 2 * Haversine(p.nodes[1], Last(p.nodes))
<1>1. PICK p : p = accepted[r]
  OBVIOUS
<1> DEFINE n == Len(p.edges)
           kms == [i \in DOMAIN p.edges |-> p.edges[i].km]
           P == [i \in 1 .. n + 1 |-> 2 * Haversine(p.nodes[1], p.nodes[i])]
<1>2. /\ GoodPath(p, query.start, query.goal) /\ p \in Path /\ G \in GraphOver(RoadArcs)
      /\ \A j \in 1 .. Len(p.nodes) - 1 :
           /\ p.nodes[j] \in Nodes /\ p.nodes[j + 1] \in Nodes
           /\ p.edges[j] \in Edge /\ p.edges[j].to = p.nodes[j + 1]
           /\ \A A : G \in GraphOver(A) => <<p.nodes[j], p.edges[j]>> \in A
  BY <1>1, AnsweredPath
<1>3. /\ p.nodes \in Seq(Nodes) /\ Len(p.nodes) >= 1 /\ p.edges \in Seq(Edge) /\ Len(p.edges) = Len(p.nodes) - 1
      /\ p.km = TotalKm(p.edges)
  BY <1>2 DEF GoodPath, IsPath
<1>4. /\ n \in Nat /\ Len(p.nodes) = n + 1 /\ DOMAIN p.edges = 1 .. n /\ p.km \in Nat
      /\ \A i \in 1 .. n + 1 : p.nodes[i] \in Nodes
      /\ Last(p.nodes) = p.nodes[n + 1]
  BY <1>2, <1>3 DEF Path, Last
<1>5. p.km = Total(kms) /\ Len(kms) = n /\ \A i \in 1 .. n : kms[i] = p.edges[i].km
  BY <1>3, <1>4 DEF TotalKm
<1>6. \A i \in 1 .. n + 1 : P[i] = 2 * Haversine(p.nodes[1], p.nodes[i])
  OBVIOUS
<1> HIDE DEF n, kms, P
<1>7. ASSUME NEW i \in 1 .. n PROVE kms[i] \in Nat /\ P[i + 1] <= P[i] + 2 * kms[i] + Grain
  <2>1. PICK a, b, c, e : a = p.nodes[1] /\ b = p.nodes[i] /\ c = p.nodes[i + 1] /\ e = p.edges[i]
    OBVIOUS
  <2>2. i \in 1 .. Len(p.nodes) - 1 /\ i \in 1 .. n + 1 /\ i + 1 \in 1 .. n + 1 /\ 1 \in 1 .. n + 1
    BY <1>4
  <2>3. a \in Nodes /\ b \in Nodes /\ c \in Nodes /\ e \in Edge /\ e.to = c /\ <<b, e>> \in RoadArcs
    BY <1>2, <1>4, <2>1, <2>2
  <2>4. e.km \in Nat /\ 2 * Haversine(b, c) <= 2 * e.km + Grain /\ Grain \in Nat
    BY <2>3, LengthBounds DEF RoadArcs, NearlyStraight, Edge
  <2>5. /\ Haversine(a, c) <= Haversine(a, b) + Haversine(b, c)
        /\ Haversine(a, b) \in Nat /\ Haversine(a, c) \in Nat /\ Haversine(b, c) \in Nat
    BY <2>3, Metric DEF Places
  <2>6. P[i] = 2 * Haversine(a, b) /\ P[i + 1] = 2 * Haversine(a, c) /\ kms[i] = e.km
    BY <1>5, <1>6, <2>1, <2>2
  <2>. QED
    BY <2>4, <2>5, <2>6
<1>8. \A i \in 1 .. n + 1 : P[i] \in Int
  <2> SUFFICES ASSUME NEW i \in 1 .. n + 1 PROVE P[i] \in Int
    OBVIOUS
  <2>1. 1 \in 1 .. n + 1
    BY <1>4
  <2>2. Haversine(p.nodes[1], p.nodes[i]) \in Nat
    BY <1>4, <2>1, Metric DEF Places
  <2>. QED
    BY <1>6, <2>2
<1>9. StaysNear(P, kms, n, Grain)
  BY <1>7, <1>8 DEF StaysNear
<1>10. P[n + 1] - P[1] <= 2 * p.km + Grain * n
  BY <1>4, <1>5, <1>9, ClimbNear, LengthBounds
<1>11. P[1] = 0 /\ P[n + 1] = 2 * Haversine(p.nodes[1], p.nodes[n + 1]) /\ p.nodes[1] \in Nodes
       /\ p.nodes[n + 1] \in Nodes
  <2>1. 1 \in 1 .. n + 1 /\ n + 1 \in 1 .. n + 1
    BY <1>4
  <2>2. p.nodes[1] \in Nodes /\ p.nodes[n + 1] \in Nodes
    BY <1>4, <2>1
  <2>3. Haversine(p.nodes[1], p.nodes[1]) = 0
    BY <2>2, Metric DEF Places
  <2>. QED
    BY <1>6, <2>1, <2>2, <2>3
<1>12. 2 * p.km + Grain * n >= 2 * Haversine(p.nodes[1], Last(p.nodes))
  <2>1. PICK k, slack : k = P[n + 1] /\ slack = Grain * n
    OBVIOUS
  <2>2. k \in Int /\ slack \in Nat
    BY <1>4, <1>8, <2>1, LengthBounds
  <2>. QED
    BY <1>4, <1>10, <1>11, <2>1, <2>2
<1>. QED
  BY <1>1, <1>4, <1>11, <1>12 DEF n

\* No route is reported shorter than the straight line between the places
\* asked for, wherever they were snapped to, but for the importer's rounding
\* of the length of each of its edges.
THEOREM NoRouteEverBeatsTheStraightLine == Spec => []NoRouteBeatsTheStraightLine
<1>1. NetInv => NoRouteBeatsTheStraightLine
  <2> SUFFICES ASSUME NetInv, phase = "done", query.net = "road", NEW r \in DOMAIN accepted
               PROVE  2 * RouteKm(accepted[r], query.places[1], query.places[2]) + Grain * Len(accepted[r].edges)
                        >= 2 * Haversine(query.places[1], query.places[2])
    BY DEF NoRouteBeatsTheStraightLine, Guided
  <2>1. PICK p : p = accepted[r]
    OBVIOUS
  <2>2. PICK a, b \in Places : query.places = <<a, b>>
    BY DEF NetInv, QueryOK
  <2>3. PICK s, t : s = p.nodes[1] /\ t = Last(p.nodes)
    OBVIOUS
  <2>4. PICK slack \in Nat : /\ slack = Grain * Len(p.edges) /\ 2 * p.km + slack >= 2 * Haversine(s, t)
                            /\ s \in Places /\ t \in Places /\ p.km \in Nat
    BY <2>1, <2>3, PathIsLong, LengthBounds DEF Places
  <2>5. /\ Haversine(a, b) <= Haversine(a, s) + Haversine(s, b) /\ Haversine(s, b) <= Haversine(s, t) + Haversine(t, b)
        /\ Haversine(t, b) = Haversine(b, t)
        /\ Haversine(a, b) \in Nat /\ Haversine(a, s) \in Nat /\ Haversine(s, b) \in Nat
        /\ Haversine(s, t) \in Nat /\ Haversine(t, b) \in Nat
    BY <2>2, <2>4, Metric
  <2>6. RouteKm(p, a, b) = p.km + Haversine(a, s) + Haversine(b, t)
    BY <2>3 DEF RouteKm
  <2>7. query.places[1] = a /\ query.places[2] = b
    BY <2>2
  <2>8. 2 * RouteKm(p, a, b) + slack >= 2 * Haversine(a, b)
    <3>1. PICK km \in Nat : km = p.km
      BY <2>4
    <3>2. RouteKm(p, a, b) = km + Haversine(a, s) + Haversine(t, b)
      BY <2>5, <2>6, <3>1
    <3>3. 2 * (km + Haversine(a, s) + Haversine(t, b)) + slack >= 2 * Haversine(a, b)
      BY <2>4, <2>5, <3>1, Detour
    <3>. QED
      BY <3>2, <3>3
  <2>. QED
    BY <2>1, <2>4, <2>7, <2>8
<1>. QED
  BY <1>1, NetAlways, PTL

-----------------------------------------------------------------------------
(* The reference: fastest times. *)

TimesStep(x, s, i) == Relaxed(x)

TimesBody(f, s, n) == [i \in 0 .. n |-> IF i = 0 THEN [m \in {s} |-> 0] ELSE TimesStep(f[i - 1], s, i)]

TimesLoop(s, n) == CHOOSE f : f = TimesBody(f, s, n)

\* The loop of FastestTimes.
LEMMA TimesRuns ==
    ASSUME NEW s, NEW n \in Nat, 0 <= n
    PROVE  LET f == TimesLoop(s, n)
           IN  /\ f[0] = [m \in {s} |-> 0]
               /\ \A i \in 0 .. n : i > 0 => f[i] = TimesStep(f[i - 1], s, i)
<1> DEFINE S == {k \in Nat : \E f : f = TimesBody(f, s, k)}
<1>1. 0 \in S
  <2> DEFINE h == [i \in 0 .. 0 |-> [m \in {s} |-> 0]]
  <2>1. h = TimesBody(h, s, 0)
    BY DEF TimesBody
  <2>. QED
    BY <2>1
<1>2. ASSUME NEW k \in 0 .. n, k > 0, k - 1 \in S PROVE k \in S
  <2>1. PICK was : was = TimesBody(was, s, k - 1)
    BY <1>2
  <2> DEFINE h == [i \in 0 .. k |-> IF i = k THEN TimesStep(was[k - 1], s, k) ELSE was[i]]
  <2>2. \A i \in 0 .. k - 1 : h[i] = was[i] /\ was[i] = IF i = 0 THEN [m \in {s} |-> 0] ELSE TimesStep(was[i - 1], s, i)
    BY <2>1 DEF TimesBody
  <2>3. h[k] = TimesStep(was[k - 1], s, k) /\ h[k - 1] = was[k - 1]
    BY <1>2
  <2>4. ASSUME NEW i \in 0 .. k PROVE h[i] = IF i = 0 THEN [m \in {s} |-> 0] ELSE TimesStep(h[i - 1], s, i)
    <3> HIDE DEF h
    <3>1. CASE i = k
      BY <3>1, <1>2, <2>3
    <3>2. CASE i = 0
      BY <3>2, <1>2, <2>2
    <3>3. CASE i # k /\ i # 0
      <4>1. i \in 0 .. k - 1 /\ i - 1 \in 0 .. k - 1
        BY <3>3, <1>2
      <4>. QED
        BY <3>3, <4>1, <2>2
    <3>. QED
      BY <3>1, <3>2, <3>3
  <2>5. h = TimesBody(h, s, k)
    BY <2>4 DEF TimesBody
  <2>6. k \in Nat
    OBVIOUS
  <2>. QED
    BY <2>5, <2>6
<1>3. n \in S
  <2> HIDE DEF S
  <2>. QED
    BY <1>1, <1>2, UpTo
<1> DEFINE f == TimesLoop(s, n)
<1>4. f = TimesBody(f, s, n)
  BY <1>3 DEF TimesLoop
<1> HIDE DEF f
<1>5. f[0] = [m \in {s} |-> 0] /\ \A i \in 0 .. n : i > 0 => f[i] = TimesStep(f[i - 1], s, i)
  BY <1>4 DEF TimesBody
<1>. QED
  BY <1>5 DEF f

\* The reference, turn by turn.
LEMMA TimesLoopIs ==
    ASSUME SearchTypes, NEW s
    PROVE  LET n == Cardinality(G.nodes)
               f == TimesLoop(s, n)
           IN  /\ n \in Nat /\ FastestTimes(s) = f[n] /\ f[0] = [m \in {s} |-> 0]
               /\ \A i \in 0 .. n : i > 0 => f[i] = Relaxed(f[i - 1])
<1> DEFINE n == Cardinality(G.nodes)
           f == TimesLoop(s, n)
<1>1. n \in Nat
  BY FreeNodes, NodesAreFinite, FS_Subset, FS_CardinalityType
<1>2. FastestTimes(s) = f[n]
  BY DEF FastestTimes, TimesLoop, TimesBody, TimesStep
<1>3. f[0] = [m \in {s} |-> 0] /\ \A i \in 0 .. n : i > 0 => f[i] = TimesStep(f[i - 1], s, i)
  BY <1>1, TimesRuns
<1>. QED
  BY <1>1, <1>2, <1>3 DEF TimesStep

\* An edge of the mode leads from m to n in the given time.
Leads(m, n, time) ==
    \E i \in DOMAIN G.edges[m] : /\ G.edges[m][i].to = n /\ EdgeAllowed(query.mode, G.edges[m][i])
                                 /\ time = TravelTime(query.mode, G.edges[m][i])

\* An edge leads from a node of the graph to another and takes time.
LEMMA LeadsWhere ==
    ASSUME SearchTypes, NEW m \in Nodes, NEW n, NEW time, Leads(m, n, time)
    PROVE  m \in G.nodes /\ n \in G.nodes /\ time \in Nat \ {0} /\ \E e \in Range(G.edges[m]) : Passes(m, e, n) /\ time = TravelTime(query.mode, e)
<1>1. PICK i \in DOMAIN G.edges[m] : /\ G.edges[m][i].to = n /\ EdgeAllowed(query.mode, G.edges[m][i])
                                     /\ time = TravelTime(query.mode, G.edges[m][i])
  BY DEF Leads
<1>2. PICK e : e = G.edges[m][i]
  OBVIOUS
<1>3. e \in Range(G.edges[m])
  BY <1>1, <1>2 DEF Range
<1>4. e \in Edge /\ m \in G.nodes /\ n \in G.nodes
  BY <1>1, <1>2, <1>3, FreeNodes
<1>5. query.mode \in Modes
  BY DEF SearchTypes
<1>. QED
  BY <1>1, <1>2, <1>3, <1>4, <1>5, TravelTimeIsPositive DEF Passes

\* The arrivals at a node: those before, and those by one more edge.
LEMMA ArrivalsAre ==
    ASSUME NEW x, NEW n, NEW a
    PROVE  a \in Arrivals(x, n) <=>
             (n \in DOMAIN x /\ a = x[n]) \/ \E m \in DOMAIN x : \E time : Leads(m, n, time) /\ a = x[m] + time
<1> DEFINE into(m) == {i \in DOMAIN G.edges[m] : G.edges[m][i].to = n /\ EdgeAllowed(query.mode, G.edges[m][i])}
<1>1. Arrivals(x, n) = {x[m] : m \in {n} \cap DOMAIN x}
                       \cup UNION {{x[m] + TravelTime(query.mode, G.edges[m][i]) : i \in into(m)} : m \in DOMAIN x}
  BY DEF Arrivals
<1>2. a \in {x[m] : m \in {n} \cap DOMAIN x} <=> n \in DOMAIN x /\ a = x[n]
  OBVIOUS
<1>3. a \in UNION {{x[m] + TravelTime(query.mode, G.edges[m][i]) : i \in into(m)} : m \in DOMAIN x}
        <=> \E m \in DOMAIN x : \E i \in into(m) : a = x[m] + TravelTime(query.mode, G.edges[m][i])
  OBVIOUS
<1>4. \A m : (\E i \in into(m) : a = x[m] + TravelTime(query.mode, G.edges[m][i]))
               <=> \E time : Leads(m, n, time) /\ a = x[m] + time
  BY DEF Leads
<1> HIDE DEF into
<1>. QED
  BY <1>1, <1>2, <1>3, <1>4, Zenon

\* The times are numbers, and those of nodes of the graph.
AreTimes(x) == DOMAIN x \subseteq G.nodes /\ \A n \in DOMAIN x : x[n] \in Nat

\* One more round: no arrival is earlier, one is as early.
LEMMA RelaxedParts ==
    ASSUME SearchTypes, NEW x, AreTimes(x), NEW y, y = Relaxed(x)
    PROVE  /\ AreTimes(y)
           /\ \A n \in DOMAIN x : n \in DOMAIN y /\ y[n] <= x[n]
           /\ \A m \in DOMAIN x : \A n, time : Leads(m, n, time) => n \in DOMAIN y /\ y[n] <= x[m] + time
           /\ \A n \in DOMAIN y : \/ n \in DOMAIN x /\ y[n] = x[n]
                                  \/ \E m \in DOMAIN x : \E time : Leads(m, n, time) /\ y[n] = x[m] + time
<1>0. G.nodes \subseteq Nodes
  BY FreeNodes
<1>1. \A n : Arrivals(x, n) \in SUBSET Nat
  <2> SUFFICES ASSUME NEW n, NEW a \in Arrivals(x, n) PROVE a \in Nat
    OBVIOUS
  <2>1. CASE n \in DOMAIN x /\ a = x[n]
    BY <2>1 DEF AreTimes
  <2>2. ASSUME NEW m \in DOMAIN x, NEW time, Leads(m, n, time), a = x[m] + time PROVE a \in Nat
    <3>1. x[m] \in Nat /\ m \in Nodes
      BY <1>0 DEF AreTimes
    <3>2. time \in Nat
      BY <2>2, <3>1, LeadsWhere
    <3>. QED
      BY <2>2, <3>1, <3>2
  <2>. QED
    BY <2>1, <2>2, ArrivalsAre
<1>2. \A n : Arrivals(x, n) # {} => Min(Arrivals(x, n)) \in Arrivals(x, n) /\ \A a \in Arrivals(x, n) : Min(Arrivals(x, n)) <= a
  <2> SUFFICES ASSUME NEW n, Arrivals(x, n) # {}
               PROVE  Min(Arrivals(x, n)) \in Arrivals(x, n) /\ \A a \in Arrivals(x, n) : Min(Arrivals(x, n)) <= a
    OBVIOUS
  <2>1. PICK T : T = Arrivals(x, n)
    OBVIOUS
  <2>2. \E a \in T : \A b \in T : a <= b
    BY <1>1, <2>1, Smallest
  <2>3. Min(T) \in T /\ \A a \in T : Min(T) <= a
    BY <2>2 DEF Min
  <2>. QED
    BY <2>1, <2>3
<1>3. /\ DOMAIN y = {n \in G.nodes : Arrivals(x, n) # {}}
      /\ \A n \in DOMAIN y : y[n] = Min(Arrivals(x, n))
  BY DEF Relaxed
<1>4. \A n \in DOMAIN y : y[n] \in Arrivals(x, n) /\ y[n] \in Nat /\ \A a \in Arrivals(x, n) : y[n] <= a
  BY <1>1, <1>2, <1>3
<1>5. AreTimes(y)
  BY <1>3, <1>4 DEF AreTimes
<1>6. ASSUME NEW n \in DOMAIN x PROVE n \in DOMAIN y /\ y[n] <= x[n]
  <2>1. x[n] \in Arrivals(x, n) /\ n \in G.nodes
    BY ArrivalsAre DEF AreTimes
  <2>. QED
    BY <1>3, <1>4, <2>1
<1>7. ASSUME NEW m \in DOMAIN x, NEW n, NEW time, Leads(m, n, time) PROVE n \in DOMAIN y /\ y[n] <= x[m] + time
  <2>1. x[m] + time \in Arrivals(x, n)
    BY <1>7, ArrivalsAre
  <2>2. n \in G.nodes
    BY <1>0, <1>7, LeadsWhere DEF AreTimes
  <2>. QED
    BY <1>3, <1>4, <2>1, <2>2
<1>8. ASSUME NEW n \in DOMAIN y
      PROVE  \/ n \in DOMAIN x /\ y[n] = x[n]
             \/ \E m \in DOMAIN x : \E time : Leads(m, n, time) /\ y[n] = x[m] + time
  BY <1>4, ArrivalsAre
<1>. QED
  BY <1>5, <1>6, <1>7, <1>8

\* The reference before the first round.
LEMMA StartTimes ==
    ASSUME SearchTypes, NEW s \in G.nodes, NEW x, x = [m \in {s} |-> 0]
    PROVE  AreTimes(x) /\ DOMAIN x = {s} /\ x[s] = 0
BY DEF AreTimes

\* What cannot be left holds everything that can be reached.
ClosedUnder(S) == \A m \in G.nodes : \A n, time : m \in S /\ Leads(m, n, time) => n \in S

\* The reference reaches no node outside of a set that cannot be left.
LEMMA ReachedStaysIn ==
    ASSUME SearchTypes, NEW S, query.start \in S, ClosedUnder(S)
    PROVE  DOMAIN FastestTimes(query.start) \subseteq S
<1> DEFINE N == Cardinality(G.nodes)
           f == TimesLoop(query.start, N)
           Good(x) == AreTimes(x) /\ DOMAIN x \subseteq S
           T == {i \in 0 .. N : Good(f[i])}
<1>1. /\ N \in Nat /\ FastestTimes(query.start) = f[N] /\ f[0] = [m \in {query.start} |-> 0]
      /\ \A i \in 0 .. N : i > 0 => f[i] = Relaxed(f[i - 1])
  BY TimesLoopIs
<1> HIDE DEF N, f
<1>2. 0 \in T
  <2>1. AreTimes(f[0]) /\ DOMAIN f[0] = {query.start}
    BY <1>1, StartTimes DEF SearchTypes
  <2>2. 0 \in 0 .. N
    BY <1>1
  <2>. QED
    BY <2>1, <2>2
<1>3. ASSUME NEW i \in 0 .. N, i > 0, i - 1 \in T PROVE i \in T
  <2>1. PICK x, y : x = f[i - 1] /\ y = f[i]
    OBVIOUS
  <2>2. y = Relaxed(x) /\ AreTimes(x) /\ DOMAIN x \subseteq S
    BY <1>1, <1>3, <2>1
  <2>3. AreTimes(y) /\ \A n \in DOMAIN y : n \in DOMAIN x \/ \E m \in DOMAIN x : \E time : Leads(m, n, time)
    BY <2>2, RelaxedParts
  <2>4. DOMAIN y \subseteq S
    BY <2>2, <2>3 DEF ClosedUnder, AreTimes
  <2>. QED
    BY <2>1, <2>3, <2>4
<1>4. \A i \in 0 .. N : i \in T
  <2> HIDE DEF T
  <2>. QED
    BY <1>1, <1>2, <1>3, UpTo
<1>. QED
  BY <1>1, <1>4

\* A potential no edge climbs faster than its time stays below every time.
NeverAhead(P) ==
    /\ \A n \in G.nodes : P[n] \in Int
    /\ P[query.start] <= 0
    /\ \A m \in G.nodes : \A n, time : Leads(m, n, time) => P[n] <= P[m] + time

\* The times of the reference are no smaller than such a potential.
LEMMA TimesAreAhead ==
    ASSUME SearchTypes, NEW P, NeverAhead(P), NEW t \in DOMAIN FastestTimes(query.start)
    PROVE  P[t] <= FastestTimes(query.start)[t] /\ FastestTimes(query.start)[t] \in Nat
<1> DEFINE N == Cardinality(G.nodes)
           f == TimesLoop(query.start, N)
           Good(x) == AreTimes(x) /\ \A n \in DOMAIN x : P[n] <= x[n]
           T == {i \in 0 .. N : Good(f[i])}
<1>1. /\ N \in Nat /\ FastestTimes(query.start) = f[N] /\ f[0] = [m \in {query.start} |-> 0]
      /\ \A i \in 0 .. N : i > 0 => f[i] = Relaxed(f[i - 1])
  BY TimesLoopIs
<1> HIDE DEF N, f
<1>2. 0 \in T
  <2>1. AreTimes(f[0]) /\ DOMAIN f[0] = {query.start} /\ f[0][query.start] = 0
    BY <1>1, StartTimes DEF SearchTypes
  <2>2. 0 \in 0 .. N
    BY <1>1
  <2>. QED
    BY <2>1, <2>2 DEF NeverAhead
<1>3. ASSUME NEW i \in 0 .. N, i > 0, i - 1 \in T PROVE i \in T
  <2>1. PICK x, y : x = f[i - 1] /\ y = f[i]
    OBVIOUS
  <2>2. y = Relaxed(x) /\ AreTimes(x) /\ \A n \in DOMAIN x : P[n] <= x[n]
    BY <1>1, <1>3, <2>1
  <2>3. /\ AreTimes(y)
        /\ \A n \in DOMAIN y : \/ n \in DOMAIN x /\ y[n] = x[n]
                               \/ \E m \in DOMAIN x : \E time : Leads(m, n, time) /\ y[n] = x[m] + time
    BY <2>2, RelaxedParts
  <2>4. ASSUME NEW n \in DOMAIN y PROVE P[n] <= y[n]
    <3>1. CASE n \in DOMAIN x /\ y[n] = x[n]
      BY <3>1, <2>2
    <3>2. ASSUME NEW m \in DOMAIN x, NEW time, Leads(m, n, time), y[n] = x[m] + time PROVE P[n] <= y[n]
      <4>1. m \in G.nodes /\ m \in Nodes /\ x[m] \in Nat /\ n \in G.nodes
        BY <2>2, <2>3, FreeNodes DEF AreTimes
      <4>2. time \in Nat
        BY <3>2, <4>1, LeadsWhere
      <4>3. P[n] <= P[m] + time /\ P[m] \in Int /\ P[n] \in Int
        BY <3>2, <4>1 DEF NeverAhead
      <4>4. P[m] <= x[m]
        BY <2>2
      <4>. QED
        BY <3>2, <4>1, <4>2, <4>3, <4>4
    <3>. QED
      BY <2>3, <3>1, <3>2
  <2>. QED
    BY <2>1, <2>3, <2>4
<1>4. \A i \in 0 .. N : i \in T
  <2> HIDE DEF T
  <2>. QED
    BY <1>1, <1>2, <1>3, UpTo
<1>5. Good(f[N])
  BY <1>1, <1>4
<1>. QED
  BY <1>1, <1>5 DEF AreTimes

\* The times of the reference are numbers.
LEMMA TimesAreNumbers ==
    ASSUME SearchTypes, NEW t \in DOMAIN FastestTimes(query.start)
    PROVE  FastestTimes(query.start)[t] \in Nat
<1> DEFINE P == [n \in G.nodes |-> 0]
<1>1. ASSUME NEW m \in G.nodes, NEW n, NEW time, Leads(m, n, time) PROVE P[n] <= P[m] + time
  <2>1. n \in G.nodes /\ time \in Nat
    BY <1>1, FreeNodes, LeadsWhere
  <2>. QED
    BY <2>1
<1>2. NeverAhead(P)
  BY <1>1 DEF NeverAhead, SearchTypes
<1> HIDE DEF P
<1>. QED
  BY <1>2, TimesAreAhead

\* An edge that passes leads to its end.
LEMMA PassesLeads ==
    ASSUME NEW a, NEW e, NEW b, Passes(a, e, b)
    PROVE  Leads(a, b, TravelTime(query.mode, e))
<1>1. PICK i \in DOMAIN G.edges[a] : e = G.edges[a][i]
  BY DEF Passes, Range
<1>. QED
  BY <1>1 DEF Passes, Leads

\* A path passes nodes of the graph, and no more than there are.
LEMMA PathIsShort ==
    ASSUME SearchTypes, NEW nodes, NEW edges, IsPath(nodes, edges, query.start, query.goal)
    PROVE  /\ Len(nodes) - 1 \in 0 .. Cardinality(G.nodes)
           /\ \A i \in 1 .. Len(nodes) : nodes[i] \in G.nodes /\ nodes[i] \in Nodes
<1>1. /\ nodes \in Seq(Nodes) /\ Len(nodes) >= 1 /\ nodes[1] = query.start /\ nodes[Len(nodes)] = query.goal
      /\ \A j \in 1 .. Len(nodes) - 1 : Passes(nodes[j], edges[j], nodes[j + 1])
      /\ \A i, j \in 1 .. Len(nodes) : nodes[i] = nodes[j] => i = j
  BY DEF IsPath
<1>2. PICK n \in Nat : n = Len(nodes)
  BY <1>1
<1>3. \A i \in 1 .. n : nodes[i] \in Nodes
  BY <1>1, <1>2
<1>4. ASSUME NEW i \in 1 .. n PROVE nodes[i] \in G.nodes
  <2>1. CASE i = n
    BY <1>1, <1>2, <2>1 DEF SearchTypes
  <2>2. CASE i # n
    <3>1. Passes(nodes[i], edges[i], nodes[i + 1])
      BY <1>1, <1>2, <2>2
    <3>. QED
      BY <1>3, <3>1, FreeNodes DEF Passes
  <2>. QED
    BY <2>1, <2>2
<1>5. Cardinality(G.nodes) \in Nat /\ IsFiniteSet(G.nodes)
  BY FreeNodes, NodesAreFinite, FS_Subset, FS_CardinalityType
<1>6. n <= Cardinality(G.nodes)
  <2> DEFINE h == [i \in 1 .. n |-> nodes[i]]
  <2>1. h \in [1 .. n -> G.nodes]
    BY <1>4
  <2>2. IsFiniteSet(1 .. n) /\ Cardinality(1 .. n) = n
    <3>1. IsFiniteSet(1 .. n) /\ Cardinality(1 .. n) = IF 1 > n THEN 0 ELSE n - 1 + 1
      BY FS_Interval
    <3>. QED
      BY <3>1
  <2>3. \A i, j \in 1 .. n : h[i] = h[j] => i = j
    BY <1>1, <1>2
  <2> HIDE DEF h
  <2>4. ~(Cardinality(G.nodes) < n)
    BY <1>5, <2>1, <2>2, <2>3, FS_PigeonHole
  <2>. QED
    BY <1>5, <2>4
<1>. QED
  BY <1>1, <1>2, <1>3, <1>4, <1>5, <1>6

\* What j rounds know of a path with the sums f.
KnowsUpTo(x, nodes, f, n, j) ==
    \A i \in 0 .. n : i <= j => nodes[i + 1] \in DOMAIN x /\ x[nodes[i + 1]] <= f[i]

\* One more round knows one node more.
LEMMA KnowsMore ==
    ASSUME SearchTypes, NEW x, AreTimes(x), NEW y, y = Relaxed(x), NEW nodes, NEW f, NEW tt, NEW n \in Nat, IsSum(f, tt, n),
           \A i \in 1 .. n : tt[i] \in Nat /\ Leads(nodes[i], nodes[i + 1], tt[i]),
           NEW j \in Nat, j > 0, KnowsUpTo(x, nodes, f, n, j - 1)
    PROVE  KnowsUpTo(y, nodes, f, n, j)
<1>1. /\ AreTimes(y)
      /\ \A m \in DOMAIN x : m \in DOMAIN y /\ y[m] <= x[m]
      /\ \A m \in DOMAIN x : \A o, time : Leads(m, o, time) => o \in DOMAIN y /\ y[o] <= x[m] + time
  BY RelaxedParts
<1> SUFFICES ASSUME NEW i \in 0 .. n, i <= j PROVE nodes[i + 1] \in DOMAIN y /\ y[nodes[i + 1]] <= f[i]
  BY DEF KnowsUpTo
<1>2. f[i] \in Nat
  BY DEF IsSum
<1>3. CASE i <= j - 1
  <2>1. PICK m : m = nodes[i + 1]
    OBVIOUS
  <2>2. m \in DOMAIN x /\ x[m] <= f[i]
    BY <1>3, <2>1 DEF KnowsUpTo
  <2>3. m \in DOMAIN y /\ y[m] <= x[m] /\ y[m] \in Nat /\ x[m] \in Nat
    BY <1>1, <2>2 DEF AreTimes
  <2>. QED
    BY <1>2, <2>1, <2>2, <2>3
<1>4. CASE ~(i <= j - 1)
  <2>1. i = j /\ i \in 1 .. n /\ i - 1 \in 0 .. n /\ i - 1 <= j - 1 /\ (i - 1) + 1 = i
    BY <1>4
  <2>2. PICK m, o, time : m = nodes[i] /\ o = nodes[i + 1] /\ time = tt[i]
    OBVIOUS
  <2>3. m \in DOMAIN x /\ x[m] <= f[i - 1]
    BY <2>1, <2>2 DEF KnowsUpTo
  <2>4. Leads(m, o, time) /\ time \in Nat
    BY <2>1, <2>2
  <2>5. o \in DOMAIN y /\ y[o] <= x[m] + time
    BY <1>1, <2>3, <2>4
  <2>6. y[o] \in Nat /\ x[m] \in Nat
    BY <1>1, <2>3, <2>5 DEF AreTimes
  <2>7. f[i] = f[i - 1] + time /\ f[i - 1] \in Nat
    BY <2>1, <2>2 DEF IsSum
  <2>8. y[o] <= f[i]
    BY <1>2, <2>3, <2>4, <2>5, <2>6, <2>7
  <2>. QED
    BY <2>2, <2>5, <2>8
<1>. QED
  BY <1>3, <1>4

\* The reference is no slower than any path.
LEMMA PathIsNoFaster ==
    ASSUME SearchTypes, NEW p, GoodPath(p, query.start, query.goal)
    PROVE  /\ query.goal \in DOMAIN FastestTimes(query.start)
           /\ FastestTimes(query.start)[query.goal] <= p.time
<1>1. PICK nodes, edges, tt : nodes = p.nodes /\ edges = p.edges /\ tt = [i \in DOMAIN edges |-> TravelTime(query.mode, edges[i])]
  OBVIOUS
<1>2. IsPath(nodes, edges, query.start, query.goal) /\ p.time = Total(tt)
  BY <1>1 DEF GoodPath, TotalTime
<1>3. /\ nodes \in Seq(Nodes) /\ Len(nodes) >= 1 /\ edges \in Seq(Edge) /\ Len(edges) = Len(nodes) - 1
      /\ nodes[1] = query.start /\ nodes[Len(nodes)] = query.goal
      /\ \A j \in 1 .. Len(nodes) - 1 : Passes(nodes[j], edges[j], nodes[j + 1])
  BY <1>2 DEF IsPath
<1>4. PICK n \in Nat : n = Len(nodes) - 1 /\ Len(edges) = n /\ DOMAIN edges = 1 .. n /\ Len(nodes) = n + 1
  BY <1>3
<1>5. query.mode \in Modes
  BY DEF SearchTypes
<1>6. \A i \in 1 .. n : tt[i] = TravelTime(query.mode, edges[i]) /\ tt[i] \in Nat
  <2>1. \A i \in 1 .. n : edges[i] \in Edge
    BY <1>3, <1>4
  <2>. QED
    BY <1>1, <1>4, <1>5, <2>1, TravelTimeIsPositive
<1>7. Len(tt) = n
  <2>1. tt = [i \in 1 .. n |-> TravelTime(query.mode, edges[i])]
    BY <1>1, <1>4
  <2>. QED
    BY <2>1
<1>8. \A i \in 1 .. n : tt[i] \in Nat /\ Leads(nodes[i], nodes[i + 1], tt[i])
  BY <1>3, <1>4, <1>6, PassesLeads
<1>9. PICK f : IsSum(f, tt, n) /\ Total(tt) = f[n]
  BY <1>6, <1>7, TotalLoop
<1> DEFINE N == Cardinality(G.nodes)
           F == TimesLoop(query.start, N)
           T == {j \in 0 .. N : AreTimes(F[j]) /\ KnowsUpTo(F[j], nodes, f, n, j)}
<1>10. /\ N \in Nat /\ FastestTimes(query.start) = F[N] /\ F[0] = [m \in {query.start} |-> 0]
       /\ \A i \in 0 .. N : i > 0 => F[i] = Relaxed(F[i - 1])
  BY TimesLoopIs
<1>11. n \in 0 .. N
  BY <1>2, <1>4, PathIsShort
<1> HIDE DEF N, F
<1>12. 0 \in T
  <2>1. AreTimes(F[0]) /\ DOMAIN F[0] = {query.start} /\ F[0][query.start] = 0
    BY <1>10, StartTimes DEF SearchTypes
  <2>2. ASSUME NEW i \in 0 .. n, i <= 0 PROVE nodes[i + 1] \in DOMAIN F[0] /\ F[0][nodes[i + 1]] <= f[i]
    <3>1. i = 0 /\ i + 1 = 1
      BY <2>2
    <3>2. f[0] = 0
      BY <1>9 DEF IsSum
    <3>. QED
      BY <1>3, <2>1, <3>1, <3>2
  <2>3. KnowsUpTo(F[0], nodes, f, n, 0)
    BY <2>2 DEF KnowsUpTo
  <2>4. 0 \in 0 .. N
    BY <1>10
  <2>. QED
    BY <2>1, <2>3, <2>4
<1>13. ASSUME NEW j \in 0 .. N, j > 0, j - 1 \in T PROVE j \in T
  <2>1. PICK x, y : x = F[j - 1] /\ y = F[j]
    OBVIOUS
  <2>2. y = Relaxed(x) /\ AreTimes(x) /\ KnowsUpTo(x, nodes, f, n, j - 1)
    BY <1>10, <1>13, <2>1
  <2>3. AreTimes(y)
    BY <2>2, RelaxedParts
  <2>4. KnowsUpTo(y, nodes, f, n, j)
    BY <1>8, <1>9, <1>13, <2>2, KnowsMore
  <2>. QED
    BY <2>1, <2>3, <2>4
<1>14. \A j \in 0 .. N : j \in T
  <2> HIDE DEF T
  <2>. QED
    BY <1>10, <1>12, <1>13, UpTo
<1>15. KnowsUpTo(F[N], nodes, f, n, N)
  BY <1>10, <1>14
<1>16. nodes[n + 1] \in DOMAIN F[N] /\ F[N][nodes[n + 1]] <= f[n]
  BY <1>10, <1>11, <1>15 DEF KnowsUpTo
<1>. QED
  BY <1>2, <1>3, <1>4, <1>9, <1>10, <1>16

-----------------------------------------------------------------------------
(* What cannot be reached. *)

\* The reference for a given graph and mode.
ArrivalsOn(g, mode, times, n) ==
    LET into(m) == {i \in DOMAIN g.edges[m] : /\ g.edges[m][i].to = n
                                              /\ EdgeAllowed(mode, g.edges[m][i])}
    IN  {times[m] : m \in {n} \cap DOMAIN times}
        \cup UNION {{times[m] + TravelTime(mode, g.edges[m][i]) : i \in into(m)} : m \in DOMAIN times}

RelaxedOn(g, mode, times) ==
    [n \in {n \in g.nodes : ArrivalsOn(g, mode, times, n) # {}} |-> Min(ArrivalsOn(g, mode, times, n))]

TimesOn(g, mode, s) ==
    LET times[i \in 0 .. Cardinality(g.nodes)] ==
          IF i = 0 THEN [n \in {s} |-> 0] ELSE RelaxedOn(g, mode, times[i - 1])
    IN  times[Cardinality(g.nodes)]

\* The reference depends on the graph and the request alone.
LEMMA TimesStay ==
    ASSUME UNCHANGED <<graph, query>>
    PROVE  FastestTimes(query.start)' = FastestTimes(query.start) /\ query'.goal = query.goal
<1>1. FastestTimes(query.start) = TimesOn(G, query.mode, query.start)
  BY Zenon DEF FastestTimes, Relaxed, Arrivals, TimesOn, RelaxedOn, ArrivalsOn
<1>2. FastestTimes(query.start)' = TimesOn(G', query'.mode, query'.start)
  BY Zenon DEF FastestTimes, Relaxed, Arrivals, TimesOn, RelaxedOn, ArrivalsOn
<1>3. G' = G
  BY DEF G
<1>. QED
  BY <1>1, <1>2, <1>3, Zenon

\* In the first search nothing is blocked.
LEMMA FirstLinks ==
    ASSUME SearchTypes, blocked = [edges |-> {}, nodes |-> {}], NEW m \in G.nodes, NEW n, NEW time, Leads(m, n, time)
    PROVE  \E e : time = TravelTime(query.mode, e) /\ <<n, m, e>> \in ForwardLinks /\ <<m, n, e>> \in BackwardLinks
<1>1. m \in Nodes
  BY FreeNodes
<1>2. PICK e \in Range(G.edges[m]) : Passes(m, e, n) /\ time = TravelTime(query.mode, e)
  BY <1>1, LeadsWhere
<1>3. e \in Edge /\ n \in G.nodes /\ e.to = n
  BY <1>1, <1>2, FreeNodes DEF Passes
<1>4. Free = G.nodes
  BY DEF Free
<1>5. Open(m, e)
  BY <1>2 DEF Open, Passes
<1>6. <<n, m, e>> \in ForwardLinks
  BY <1>2, <1>3, <1>4, <1>5 DEF ForwardLinks
<1>7. <<m, n, e>> \in BackwardLinks
  BY <1>2, <1>3, <1>4, <1>5 DEF BackwardLinks
<1>. QED
  BY <1>2, <1>6, <1>7

\* A forward side whose heap is empty has reached all there is to reach.
LEMMA ForwardIsComplete ==
    ASSUME SearchTypes, blocked = [edges |-> {}, nodes |-> {}],
           SideOK(fwd, query.start, Free, ForwardLinks, query.mode), fwd.pq = {}
    PROVE  DOMAIN FastestTimes(query.start) \subseteq DOMAIN fwd.g
<1>1. /\ query.start \in DOMAIN fwd.g /\ \A x \in DOMAIN fwd.g : x \in fwd.closed
      /\ \A x, at, e : <<x, at, e>> \in ForwardLinks /\ at \in fwd.closed => x \in DOMAIN fwd.g
  BY DEF SideOK, Labels, Labelled, Queue, Followed, Covered
<1>2. ASSUME NEW m \in G.nodes, NEW n, NEW time, m \in DOMAIN fwd.g, Leads(m, n, time) PROVE n \in DOMAIN fwd.g
  <2>1. PICK e : <<n, m, e>> \in ForwardLinks
    BY <1>2, FirstLinks
  <2>. QED
    BY <1>1, <1>2, <2>1
<1>3. ClosedUnder(DOMAIN fwd.g)
  BY <1>2 DEF ClosedUnder
<1>. QED
  BY <1>1, <1>3, ReachedStaysIn

\* A backward side whose heap is empty has reached all that reaches the goal.
LEMMA BackwardIsComplete ==
    ASSUME SearchTypes, blocked = [edges |-> {}, nodes |-> {}],
           SideOK(bwd, query.goal, Free, BackwardLinks, query.mode), bwd.pq = {}, query.start \notin DOMAIN bwd.g
    PROVE  query.goal \notin DOMAIN FastestTimes(query.start)
<1> DEFINE S == G.nodes \ DOMAIN bwd.g
<1>1. /\ query.goal \in DOMAIN bwd.g /\ \A x \in DOMAIN bwd.g : x \in bwd.closed
      /\ \A x, at, e : <<x, at, e>> \in BackwardLinks /\ at \in bwd.closed => x \in DOMAIN bwd.g
  BY DEF SideOK, Labels, Labelled, Queue, Followed, Covered
<1>2. ASSUME NEW m \in G.nodes, NEW n, NEW time, m \in S, Leads(m, n, time) PROVE n \in S
  <2>1. PICK e : <<m, n, e>> \in BackwardLinks
    BY <1>2, FirstLinks
  <2>2. n \in G.nodes
    BY <1>2, LeadsWhere, FreeNodes
  <2>. QED
    BY <1>1, <1>2, <2>1, <2>2
<1>3. ClosedUnder(S)
  BY <1>2 DEF ClosedUnder
<1>4. query.start \in S
  BY DEF SearchTypes
<1>5. DOMAIN FastestTimes(query.start) \subseteq S
  <2> HIDE DEF S
  <2>. QED
    BY <1>3, <1>4, ReachedStaysIn
<1>. QED
  BY <1>1, <1>5

\* A search that returns nothing before the deadline had nothing to return.
LEMMA GivesUpRightly ==
    ASSUME SearchInv, SearchStep, phase' = "done", accepted' = <<>>, ~expired'
    PROVE  query.goal \notin DOMAIN FastestTimes(query.start)
<1>1. Shape /\ Paths /\ Sides
  BY DEF SearchInv
<1>2. ASSUME NEW p, Searching, Return(p), p = NotFound \/ Found(p) PROVE phase = "first" /\ p = NotFound
  <2>1. CASE phase = "first"
    <3>1. accepted' = IF p = NotFound THEN <<>> ELSE <<p>>
      BY <1>1, <1>2, <2>1, ReturnKeepsFirst
    <3>2. <<p>> # <<>>
      OBVIOUS
    <3>. QED
      BY <2>1, <3>1, <3>2
  <2>2. CASE phase = "spur"
    BY <1>1, <1>2, <2>2, ReturnKeepsSpur
  <2>. QED
    BY <1>2, <2>1, <2>2 DEF Searching
<1>3. phase = "first" => /\ SearchTypes /\ from = query.start /\ blocked = [edges |-> {}, nodes |-> {}]
                         /\ SideOK(fwd, query.start, Free, ForwardLinks, query.mode)
                         /\ query.start \in DOMAIN fwd.g
                         /\ \A x \in DOMAIN fwd.g \ fwd.closed : <<x, fwd.g[x]>> \in fwd.pq
  BY <1>1 DEF Shape, Sides, Searching, SideOK, Labels, Labelled, Queue
<1>4. CASE SearchCancelled
  BY <1>4 DEF SearchCancelled, Return
<1>5. CASE SameNode
  <2>1. PICK p : p = [nodes |-> <<from>>, edges |-> <<>>, time |-> 0, km |-> 0] /\ Return(p) /\ Searching
    BY <1>5 DEF SameNode
  <2>2. p # NotFound
    <3>1. p.nodes = <<from>> /\ NotFound.nodes = <<>>
      BY <2>1 DEF NotFound
    <3>2. <<from>> # <<>>
      OBVIOUS
    <3>. QED
      BY <3>1, <3>2
  <2>3. CASE phase = "first"
    <3>1. accepted' = <<p>>
      BY <2>1, <2>2, <2>3 DEF Return
    <3>. QED
      BY <3>1
  <2>4. CASE phase = "spur"
    BY <2>1, <2>4 DEF Return
  <2>. QED
    BY <2>1, <2>3, <2>4 DEF Searching
<1>6. CASE BidirEnds
  <2>1. /\ Searching /\ from # query.goal /\ query.algorithm = "yen"
        /\ \/ fwd.pq = {}
           \/ bwd.pq = {}
           \/ \E x \in FrontItems(fwd, query.goal), y \in FrontItems(bwd, from) : PohlStops(x, y)
        /\ Return(IF best.node = NoNode THEN NotFound
                  ELSE PathThrough(fwd, bwd, best.node, best.time, best.km))
    BY <1>6 DEF BidirEnds, Running
  <2>2. phase = "first" /\ best.node = NoNode
    <3>1. PICK p : /\ p = IF best.node = NoNode THEN NotFound ELSE PathThrough(fwd, bwd, best.node, best.time, best.km)
                   /\ Return(p)
      BY <2>1
    <3>2. CASE best.node = NoNode
      BY <1>2, <2>1, <3>1, <3>2
    <3>3. CASE best.node # NoNode
      <4>1. Found(p)
        BY <1>6, <3>1, <3>3, BidirFinds
      <4>2. p # NotFound
        BY <4>1 DEF Found
      <4>. QED
        BY <1>2, <2>1, <3>1, <4>1, <4>2
    <3>. QED
      BY <3>2, <3>3
  <2>3. /\ SideOK(bwd, query.goal, Free, BackwardLinks, query.mode) /\ DOMAIN fwd.g \cap DOMAIN bwd.g = {}
        /\ query.goal \in DOMAIN bwd.g
    BY <1>1, <2>1, <2>2 DEF Sides, BestOK, Meets, SideOK, Labels, Labelled
  <2>4. fwd.pq = {} \/ bwd.pq = {}
    BY <2>1, <2>2 DEF PohlStops
  <2>5. CASE fwd.pq = {}
    BY <1>3, <2>2, <2>3, <2>5, ForwardIsComplete
  <2>6. CASE bwd.pq = {}
    <3>1. query.start \notin DOMAIN bwd.g
      BY <1>3, <2>2, <2>3
    <3>. QED
      BY <1>3, <2>2, <2>3, <2>6, <3>1, BackwardIsComplete
  <2>. QED
    BY <2>4, <2>5, <2>6
<1>7. CASE AStarArrives
  <2>1. PICK p : Found(p) /\ Return(p)
    BY <1>7, AStarArrivesKeeps
  <2>2. Searching /\ p # NotFound
    BY <1>7, <2>1 DEF AStarArrives, Running, Found
  <2>. QED
    BY <1>2, <2>1, <2>2
<1>8. CASE AStarGivesUp
  <2>1. Searching /\ query.algorithm = "astar" /\ fwd.pq = {} /\ Return(NotFound)
    BY <1>8 DEF AStarGivesUp, Running
  <2>2. phase = "first"
    BY <1>2, <2>1
  <2>3. query.goal \notin fwd.closed
    BY <1>1, <2>1 DEF Sides
  <2>4. query.goal \notin DOMAIN fwd.g
    BY <1>3, <2>1, <2>2, <2>3
  <2>. QED
    BY <1>3, <2>1, <2>2, <2>4, ForwardIsComplete
<1>9. CASE DeadlinePasses \/ ExpandForward \/ ExpandBackward \/ AStarExpands
  BY <1>9 DEF DeadlinePasses, ExpandForward, ExpandBackward, AStarExpands, Running, Searching
<1>10. CASE NextSpur
  BY <1>10 DEF NextSpur
<1>11. CASE Accept
  BY <1>11, AcceptKeeps
<1>12. CASE NoMoreCandidates
  BY <1>12, NoMoreCandidatesKeeps
<1>. QED
  BY <1>4, <1>5, <1>6, <1>7, <1>8, <1>9, <1>10, <1>11, <1>12 DEF SearchStep

\* A step that ends in "done" is one of the search, or none.
LEMMA DoneStep ==
    ASSUME NetInv, [Next]_netVars, phase' = "done"
    PROVE  /\ UNCHANGED <<graph, query>>
           /\ SearchStep \/ UNCHANGED vars
<1>1. CASE Import \/ StartServer \/ LoadRegion \/ LoadEnds
  <2>1. server # "up" /\ phase' = phase
    BY <1>1 DEF Import, StartServer, LoadRegion, LoadEnds, vars
  <2>. QED
    BY <2>1 DEF NetInv, ServerOK
<1>2. CASE Answer
  <2>1. Served
    BY <1>2 DEF Answer, Served
  <2>2. CASE SearchStep
    BY <2>2, StepKeepsQuery DEF NetInv
  <2>3. CASE ~SearchStep
    <3>1. \A net, mode, places, starts, goals, k, heuristic, algorithm :
            Begin(net, mode, places, starts, goals, k, heuristic, algorithm) => phase' = "first"
      BY DEF Begin
    <3>2. Refuse => phase' = "refused"
      BY DEF Refuse
    <3>. QED
      BY <2>1, <2>3, <3>1, <3>2 DEF Served, RoadRequest, TrainRequest, TransitRequest, PolylineRequest, BetweenStops
  <2>. QED
    BY <2>2, <2>3
<1>3. CASE UNCHANGED netVars
  BY <1>3 DEF netVars, vars
<1>. QED
  BY <1>1, <1>2, <1>3 DEF Next

\* "No path" is only answered when no path leads to the goal, unless the
\* deadline has passed, though biAStar gives up when one of its two heaps is
\* empty and whatever the other one holds.
THEOREM NotFoundAlwaysMeansUnreachable == Spec => []NotFoundMeansUnreachable
<1>1. Init => NotFoundMeansUnreachable
  BY DEF Init, SearchInit, NotFoundMeansUnreachable
<1>2. NetInv /\ NotFoundMeansUnreachable /\ [Next]_netVars => NotFoundMeansUnreachable'
  <2> SUFFICES ASSUME NetInv, NotFoundMeansUnreachable, [Next]_netVars, phase' = "done", accepted' = <<>>, ~expired'
               PROVE  ~(query.goal \in DOMAIN FastestTimes(query.start))'
    BY DEF NotFoundMeansUnreachable
  <2>1. UNCHANGED <<graph, query>> /\ (SearchStep \/ UNCHANGED vars)
    BY DoneStep
  <2>2. query.goal \notin DOMAIN FastestTimes(query.start)
    <3>1. CASE SearchStep
      BY <3>1, GivesUpRightly DEF NetInv
    <3>2. CASE UNCHANGED vars
      BY <3>2 DEF vars, yenVars, NotFoundMeansUnreachable
    <3>. QED
      BY <2>1, <3>1, <3>2
  <2>. QED
    BY <2>1, <2>2, TimesStay
<1>. QED
  BY <1>1, <1>2, NetAlways, PTL DEF Spec

-----------------------------------------------------------------------------
(* aStar is optimal. *)

\* An estimate that is consistent on the links.
Costs(h, L, mode) ==
    /\ \A x \in Nodes : h[x] \in Nat
    /\ \A x, at, e : <<x, at, e>> \in L => h[at] <= TravelTime(mode, e) + h[x]

\* No node still open has a smaller f-cost than a settled one.
Ordered(side, h) ==
    \A c \in side.closed : \A x \in DOMAIN side.g \ side.closed : side.g[c] + h[c] <= side.g[x] + h[x]

\* No link from a settled node offers a better way, not to a settled node
\* either, though aStar never looks at those again.
Exact(side, L, mode) ==
    \A x, at, e : <<x, at, e>> \in L /\ at \in side.closed =>
      x \in DOMAIN side.g /\ side.g[x] <= side.g[at] + TravelTime(mode, e)

\* No open node has a smaller f-cost than n.
Frontmost(side, h, n) ==
    \A x \in DOMAIN side.g \ side.closed : side.g[n] + h[n] <= side.g[x] + h[x]

\* Side t is s after the open node n was settled and its links followed.
SettledFrom(s, t, n) ==
    /\ n \in DOMAIN s.g /\ n \notin s.closed /\ t.closed = s.closed \cup {n}
    /\ DOMAIN s.g \subseteq DOMAIN t.g
    /\ \A x \in DOMAIN s.g : t.g[x] <= s.g[x] /\ (x \in t.closed => t.g[x] = s.g[x])

\* Settling a frontmost node keeps the order and the exactness.
LEMMA SettlingKeeps ==
    ASSUME NEW s, NEW t, NEW root, NEW N \in SUBSET Nodes, NEW L, NEW mode, NEW h, NEW n,
           Labels(s, root, N, L, mode), SideOK(t, root, N, L, mode), AreLinks(L, N, mode), Costs(h, L, mode),
           SettledFrom(s, t, n), Frontmost(s, h, n), Ordered(s, h), Exact(s, L, mode)
    PROVE  Ordered(t, h) /\ Exact(t, L, mode)
<1>1. /\ DOMAIN s.g \subseteq Nodes /\ \A x \in DOMAIN s.g : s.g[x] \in Nat
      /\ root \in DOMAIN s.g /\ s.g[root] = 0 /\ s.closed \subseteq DOMAIN s.g
  BY DEF Labels, Labelled
<1>2. /\ DOMAIN t.g \subseteq Nodes /\ \A x \in DOMAIN t.g : t.g[x] \in Nat
      /\ t.g[root] = 0 /\ DOMAIN t.hop = DOMAIN t.g \ {root} /\ t.closed \subseteq DOMAIN t.g
  BY DEF SideOK, Labels, Labelled
<1>3. /\ n \in DOMAIN s.g /\ n \notin s.closed /\ t.closed = s.closed \cup {n}
      /\ DOMAIN s.g \subseteq DOMAIN t.g
      /\ \A x \in DOMAIN s.g : t.g[x] <= s.g[x] /\ (x \in t.closed => t.g[x] = s.g[x])
  BY DEF SettledFrom
<1>4. \A x \in Nodes : h[x] \in Nat
  BY DEF Costs
<1>5. ASSUME NEW c \in t.closed PROVE t.g[c] + h[c] <= s.g[n] + h[n]
  <2>1. c \in DOMAIN s.g /\ t.g[c] = s.g[c]
    BY <1>1, <1>3
  <2>2. CASE c = n
    <3>1. s.g[n] \in Nat /\ h[n] \in Nat
      BY <1>1, <1>3, <1>4
    <3>. QED
      BY <2>1, <2>2, <3>1
  <2>3. CASE c # n
    <3>1. s.g[c] + h[c] <= s.g[n] + h[n]
      BY <1>3, <2>3 DEF Ordered
    <3>. QED
      BY <2>1, <3>1
  <2>. QED
    BY <2>2, <2>3
<1>6. ASSUME NEW x, NEW at, NEW e, <<x, at, e>> \in L
      PROVE  TravelTime(mode, e) \in Nat /\ h[at] <= TravelTime(mode, e) + h[x]
  BY <1>6 DEF Costs, AreLinks
<1>7. ASSUME NEW x \in DOMAIN t.g \ t.closed PROVE s.g[n] + h[n] <= t.g[x] + h[x]
  <2>0. /\ x \in Nodes /\ h[x] \in Nat /\ h[n] \in Nat /\ t.g[x] \in Nat /\ s.g[n] \in Nat /\ x \notin s.closed
    BY <1>1, <1>2, <1>3, <1>4
  <2>1. ASSUME x \in DOMAIN s.g, s.g[x] <= t.g[x] PROVE s.g[n] + h[n] <= t.g[x] + h[x]
    <3>1. s.g[n] + h[n] <= s.g[x] + h[x] /\ s.g[x] \in Nat
      BY <1>1, <2>0, <2>1 DEF Frontmost
    <3>. QED
      BY <2>0, <2>1, <3>1
  <2>2. CASE x = root
    BY <1>1, <1>2, <2>1, <2>2
  <2>3. CASE x # root
    <3>1. PICK at, e : at = t.hop[x].at /\ e = t.hop[x].edge
      OBVIOUS
    <3>2. at \in t.closed /\ <<x, at, e>> \in L /\ t.g[x] = t.g[at] + TravelTime(mode, e)
      BY <1>2, <2>3, <3>1 DEF SideOK, Labels, Hops, HopTo
    <3>3. TravelTime(mode, e) \in Nat /\ h[at] <= TravelTime(mode, e) + h[x]
      BY <1>6, <3>2
    <3>4. at \in DOMAIN s.g /\ t.g[at] = s.g[at] /\ s.g[at] \in Nat /\ h[at] \in Nat
      BY <1>1, <1>3, <1>4, <3>2
    <3>5. CASE at = n
      BY <2>0, <3>2, <3>3, <3>4, <3>5
    <3>6. CASE at # n
      <4>1. x \in DOMAIN s.g /\ s.g[x] <= s.g[at] + TravelTime(mode, e)
        BY <1>3, <3>2, <3>6 DEF Exact
      <4>. QED
        BY <2>1, <3>2, <3>4, <4>1
    <3>. QED
      BY <3>5, <3>6
  <2>. QED
    BY <2>2, <2>3
<1>8. Ordered(t, h)
  <2> SUFFICES ASSUME NEW c \in t.closed, NEW x \in DOMAIN t.g \ t.closed PROVE t.g[c] + h[c] <= t.g[x] + h[x]
    BY DEF Ordered
  <2>1. t.g[c] \in Nat /\ h[c] \in Nat /\ t.g[x] \in Nat /\ h[x] \in Nat /\ s.g[n] \in Nat /\ h[n] \in Nat
    BY <1>1, <1>2, <1>3, <1>4
  <2>. QED
    BY <1>5, <1>7, <2>1
<1>9. Exact(t, L, mode)
  <2> SUFFICES ASSUME NEW x, NEW at, NEW e, <<x, at, e>> \in L, at \in t.closed
               PROVE  x \in DOMAIN t.g /\ t.g[x] <= t.g[at] + TravelTime(mode, e)
    BY DEF Exact
  <2>1. TravelTime(mode, e) \in Nat /\ h[at] <= TravelTime(mode, e) + h[x]
    BY <1>6
  <2>2. x \in DOMAIN t.g /\ (x \in t.closed \/ t.g[x] <= t.g[at] + TravelTime(mode, e))
    BY DEF SideOK, Followed, Covered
  <2>3. at \in DOMAIN s.g /\ t.g[at] = s.g[at] /\ s.g[at] \in Nat /\ h[at] \in Nat /\ t.g[x] \in Nat /\ h[x] \in Nat
    BY <1>1, <1>2, <1>3, <1>4, <2>2
  <2>4. CASE at # n
    <3>1. x \in DOMAIN s.g /\ s.g[x] <= s.g[at] + TravelTime(mode, e)
      BY <1>3, <2>4 DEF Exact
    <3>2. t.g[x] <= s.g[x] /\ s.g[x] \in Nat
      BY <1>1, <1>3, <3>1
    <3>. QED
      BY <2>1, <2>2, <2>3, <3>1, <3>2
  <2>5. CASE at = n /\ x \in t.closed
    <3>1. t.g[x] + h[x] <= s.g[n] + h[n]
      BY <1>5, <2>5
    <3>. QED
      BY <2>1, <2>2, <2>3, <2>5, <3>1
  <2>. QED
    BY <2>2, <2>4, <2>5
<1>. QED
  BY <1>8, <1>9

\* Times measured by a settled side never exceed the real ones: what is
\* settled has its time, what is not is at least as far as the front.
LEMMA FrontIsFastest ==
    ASSUME SearchTypes, blocked = [edges |-> {}, nodes |-> {}], NEW s, NEW h,
           Labels(s, query.start, Free, ForwardLinks, query.mode), Costs(h, ForwardLinks, query.mode),
           Ordered(s, h), Exact(s, ForwardLinks, query.mode),
           query.goal \in DOMAIN s.g \ s.closed, h[query.goal] = 0, Frontmost(s, h, query.goal),
           query.goal \in DOMAIN FastestTimes(query.start)
    PROVE  s.g[query.goal] <= FastestTimes(query.start)[query.goal]
<1>1. PICK C : C = s.g[query.goal]
  OBVIOUS
<1> DEFINE P == [m \in G.nodes |-> IF m \in s.closed THEN s.g[m] ELSE C - h[m]]
<1>2. /\ DOMAIN s.g \subseteq G.nodes /\ \A x \in DOMAIN s.g : s.g[x] \in Nat
      /\ query.start \in DOMAIN s.g /\ s.g[query.start] = 0 /\ s.closed \subseteq DOMAIN s.g
  BY DEF Labels, Labelled, Free
<1>3. C \in Nat /\ \A m \in G.nodes : h[m] \in Nat
  BY <1>1, <1>2, FreeNodes DEF Costs
<1>4. \A x \in DOMAIN s.g \ s.closed : C <= s.g[x] + h[x]
  BY <1>1, <1>3 DEF Frontmost
<1>5. ASSUME NEW c \in s.closed PROVE s.g[c] <= C - h[c]
  <2>1. s.g[c] + h[c] <= s.g[query.goal] + h[query.goal]
    BY DEF Ordered
  <2>2. s.g[c] \in Nat /\ h[c] \in Nat
    BY <1>2, <1>3
  <2>. QED
    BY <1>1, <1>3, <2>1, <2>2
<1>6. \A m \in G.nodes : P[m] \in Int
  BY <1>2, <1>3
<1>7. P[query.start] <= 0
  <2>1. query.start \in G.nodes
    BY DEF SearchTypes
  <2>2. CASE query.start \in s.closed
    BY <1>2, <2>1, <2>2
  <2>3. CASE query.start \notin s.closed
    <3>1. C <= 0 + h[query.start] /\ h[query.start] \in Nat
      BY <1>2, <1>3, <1>4, <2>1, <2>3
    <3>2. P[query.start] = C - h[query.start]
      BY <2>1, <2>3
    <3>. QED
      BY <1>3, <3>1, <3>2
  <2>. QED
    BY <2>2, <2>3
<1>8. ASSUME NEW m \in G.nodes, NEW n, NEW time, Leads(m, n, time) PROVE P[n] <= P[m] + time
  <2>1. n \in G.nodes /\ time \in Nat
    BY <1>8, FreeNodes, LeadsWhere
  <2>2. PICK e : time = TravelTime(query.mode, e) /\ <<n, m, e>> \in ForwardLinks
    BY <1>8, FirstLinks
  <2>3. h[m] <= time + h[n] /\ h[m] \in Nat /\ h[n] \in Nat
    BY <1>3, <2>1, <2>2 DEF Costs
  <2>4. P[n] <= C - h[n] /\ P[n] \in Int
    <3>1. CASE n \in s.closed
      BY <1>5, <1>6, <2>1, <3>1
    <3>2. CASE n \notin s.closed
      BY <1>3, <1>6, <2>1, <2>3, <3>2
    <3>. QED
      BY <3>1, <3>2
  <2>5. CASE m \notin s.closed
    <3>1. P[m] = C - h[m]
      BY <2>5
    <3> HIDE DEF P
    <3>. QED
      BY <1>3, <2>1, <2>3, <2>4, <3>1
  <2>6. CASE m \in s.closed
    <3>1. P[m] = s.g[m] /\ s.g[m] \in Nat
      BY <1>2, <2>6
    <3>2. n \in DOMAIN s.g /\ s.g[n] <= s.g[m] + time
      BY <2>2, <2>6 DEF Exact
    <3>3. s.g[n] \in Nat
      BY <1>2, <3>2
    <3>4. P[n] <= s.g[n]
      <4>1. CASE n \in s.closed
        BY <2>1, <3>3, <4>1
      <4>2. CASE n \notin s.closed
        <5>1. C <= s.g[n] + h[n] /\ P[n] = C - h[n]
          BY <1>4, <2>1, <3>2, <4>2
        <5>. QED
          BY <1>3, <2>3, <3>3, <5>1
      <4>. QED
        BY <4>1, <4>2
    <3> HIDE DEF P
    <3>. QED
      BY <2>1, <2>4, <3>1, <3>2, <3>3, <3>4
  <2>. QED
    BY <2>5, <2>6
<1>9. P[query.goal] = C
  <2>1. query.goal \in G.nodes
    BY DEF SearchTypes
  <2>. QED
    BY <1>3, <2>1
<1> HIDE DEF P
<1>10. NeverAhead(P)
  BY <1>6, <1>7, <1>8 DEF NeverAhead
<1>. QED
  BY <1>1, <1>9, <1>10, TimesAreAhead

\* What aStar estimates for each node.
Guess == [n \in Nodes |-> Estimate(query.mode, query.heuristic, n, query.goal)]

\* A consistent estimate costs no edge of the search more than it takes.
LEMMA GuessIsConsistent ==
    ASSUME SearchTypes, Consistent
    PROVE  Costs(Guess, ForwardLinks, query.mode) /\ Guess[query.goal] = 0
<1>0. query.mode \in Modes /\ query.heuristic \in BOOLEAN /\ query.goal \in Nodes
  BY FreeNodes DEF SearchTypes
<1>1. \A n \in Nodes : Guess[n] = Estimate(query.mode, query.heuristic, n, query.goal) /\ Guess[n] \in Nat
  BY <1>0, EstimateIsNat DEF Guess
<1>2. Guess[query.goal] = 0
  BY <1>0, <1>1, EstimateIsNat
<1>3. ASSUME NEW x, NEW at, NEW e, <<x, at, e>> \in ForwardLinks
      PROVE  Guess[at] <= TravelTime(query.mode, e) + Guess[x]
  <2>1. /\ x \in Free /\ at \in G.nodes /\ e \in Edge /\ e \in Range(G.edges[at]) /\ e.to = x
        /\ EdgeAllowed(query.mode, e)
    BY <1>3 DEF ForwardLinks, Open
  <2>2. at \in Nodes /\ x \in Nodes
    BY <2>1, FreeNodes
  <2>3. PICK i \in DOMAIN G.edges[at] : e = G.edges[at][i]
    BY <2>1 DEF Range
  <2>4. Estimate(query.mode, query.heuristic, at, query.goal)
          <= TravelTime(query.mode, e) + Estimate(query.mode, query.heuristic, e.to, query.goal)
    BY <2>1, <2>3 DEF Consistent
  <2>. QED
    BY <1>1, <2>1, <2>2, <2>4
<1>. QED
  BY <1>1, <1>2, <1>3 DEF Costs

\* While aStar runs, its settled nodes are settled at their least cost.
AStarInv ==
    phase = "first" /\ query.algorithm = "astar" /\ Consistent =>
      Ordered(fwd, Guess) /\ Exact(fwd, ForwardLinks, query.mode)

\* The first search, on its graph.
LEMMA FirstSearch ==
    ASSUME NetInv, phase = "first", query.algorithm = "astar"
    PROVE  /\ SearchTypes /\ G \in GraphOver(AnyArcs)
           /\ from = query.start /\ blocked = [edges |-> {}, nodes |-> {}] /\ query.start # query.goal
           /\ SideOK(fwd, query.start, Free, ForwardLinks, query.mode) /\ query.goal \notin fwd.closed
<1>1. Shape /\ Sides /\ Searching
  BY DEF NetInv, SearchInv, Searching
<1>2. query.net \in Nets
  BY DEF NetInv, QueryOK
<1>3. G \in GraphOver(AnyArcs)
  BY <1>2, GraphsAreLoaded DEF NetInv, G
<1>. QED
  BY <1>1, <1>3 DEF Shape, Sides

\* The item at the front of the heap has the least f-cost of the open nodes.
LEMMA FrontIsFrontmost ==
    ASSUME NetInv, phase = "first", query.algorithm = "astar", NEW x \in FrontItems(fwd, query.goal),
           x[2] = fwd.g[x[1]], x[1] \in DOMAIN fwd.g
    PROVE  Frontmost(fwd, Guess, x[1])
<1>1. Labelled(fwd, query.start, Free) /\ Queue(fwd) /\ Free \in SUBSET Nodes
  BY FirstSearch, FreeNodes DEF SideOK, Labels
<1>2. DOMAIN fwd.g \subseteq Nodes
  BY <1>1 DEF Labelled
<1>3. ASSUME NEW y \in DOMAIN fwd.g \ fwd.closed PROVE fwd.g[x[1]] + Guess[x[1]] <= fwd.g[y] + Guess[y]
  <2>1. <<y, fwd.g[y]>> \in fwd.pq
    BY <1>1 DEF Queue
  <2>2. FCost(x, query.goal) <= FCost(<<y, fwd.g[y]>>, query.goal)
    BY <2>1 DEF FrontItems
  <2>3. /\ FCost(x, query.goal) = fwd.g[x[1]] + Guess[x[1]]
        /\ FCost(<<y, fwd.g[y]>>, query.goal) = fwd.g[y] + Guess[y]
    BY <1>2 DEF FCost, Guess
  <2>. QED
    BY <2>2, <2>3
<1>. QED
  BY <1>3 DEF Frontmost

\* An iteration of aStar keeps what it knows.
LEMMA AStarInvExpands ==
    ASSUME NetInv, AStarInv, AStarExpands
    PROVE  AStarInv'
<1>1. /\ Searching /\ query.algorithm = "astar" /\ UNCHANGED <<graph, query, phase, from, blocked>>
  BY AStarMoves DEF NetInv
<1>2. phase = "first"
  BY <1>1 DEF Searching, NetInv, SearchInv, Shape
<1>3. ForwardLinks' = ForwardLinks /\ Guess' = Guess /\ (Consistent' <=> Consistent)
  BY <1>1, LinksStay DEF Guess, Consistent, G
<1>4. SUFFICES ASSUME Consistent
               PROVE  Ordered(fwd', Guess) /\ Exact(fwd', ForwardLinks, query.mode)
  BY <1>1, <1>3 DEF AStarInv, Ordered, Exact
<1>5. Ordered(fwd, Guess) /\ Exact(fwd, ForwardLinks, query.mode)
  BY <1>1, <1>2, <1>4 DEF AStarInv
<1>6. /\ SearchTypes /\ G \in GraphOver(AnyArcs) /\ from = query.start
      /\ SideOK(fwd, query.start, Free, ForwardLinks, query.mode)
      /\ Costs(Guess, ForwardLinks, query.mode)
      /\ AreLinks(ForwardLinks, Free, query.mode) /\ Free \in SUBSET Nodes
  BY <1>1, <1>2, <1>4, FirstSearch, GuessIsConsistent, TheLinks, FreeNodes
<1>7. PICK x \in FrontItems(fwd, query.goal) :
        /\ SideOK(fwd', from, Free, ForwardLinks, query.mode)
        /\ \/ fwd'.g = fwd.g /\ fwd'.closed = fwd.closed
           \/ /\ fwd'.closed = fwd.closed \cup {x[1]} /\ Grows(Settle(fwd, x), fwd')
              /\ x[1] \in DOMAIN fwd.g /\ x[1] \notin fwd.closed /\ x[2] = fwd.g[x[1]]
              /\ x[1] # query.goal
  BY AStarMoves DEF NetInv
<1>8. CASE fwd'.g = fwd.g /\ fwd'.closed = fwd.closed
  BY <1>5, <1>8 DEF Ordered, Exact
<1>9. CASE ~(fwd'.g = fwd.g /\ fwd'.closed = fwd.closed)
  <2>1. /\ fwd'.closed = fwd.closed \cup {x[1]} /\ Grows(Settle(fwd, x), fwd')
        /\ x[1] \in DOMAIN fwd.g /\ x[1] \notin fwd.closed /\ x[2] = fwd.g[x[1]]
    BY <1>7, <1>9
  <2>2. Frontmost(fwd, Guess, x[1])
    BY <1>1, <1>2, <2>1, FrontIsFrontmost
  <2>3. Labels(fwd, query.start, Free, ForwardLinks, query.mode) /\ IsSide(fwd)
    BY <1>6 DEF SideOK, Labels
  <2>4. Settle(fwd, x).g = fwd.g /\ Settle(fwd, x).closed = fwd.closed \cup {x[1]}
    BY <2>3 DEF Settle, IsSide
  <2>5. SettledFrom(fwd, fwd', x[1])
    BY <2>1, <2>4 DEF SettledFrom, Grows
  <2>6. SideOK(fwd', query.start, Free, ForwardLinks, query.mode)
    BY <1>6, <1>7
  <2>. QED
    BY <1>5, <1>6, <2>2, <2>3, <2>5, <2>6, SettlingKeeps
<1>. QED
  BY <1>8, <1>9

\* The goal at the front of the heap has been reached in the least time.
LEMMA ArrivesFirst ==
    ASSUME NetInv, AStarInv, AStarArrives, Consistent
    PROVE  \E p : Found(p) /\ Return(p) /\ phase = "first" /\ IsFastest(p)
<1>1. Searching /\ query.algorithm = "astar"
  BY DEF AStarArrives, Running
<1>2. phase = "first"
  BY <1>1 DEF Searching, NetInv, SearchInv, Shape
<1>3. PICK p : Found(p) /\ p.time = fwd.g[query.goal] /\ Return(p)
  BY AStarArrivesKeeps DEF NetInv
<1>4. /\ SearchTypes /\ G \in GraphOver(AnyArcs) /\ from = query.start /\ blocked = [edges |-> {}, nodes |-> {}]
      /\ SideOK(fwd, query.start, Free, ForwardLinks, query.mode) /\ query.goal \notin fwd.closed
      /\ Costs(Guess, ForwardLinks, query.mode) /\ Guess[query.goal] = 0
  BY <1>1, <1>2, FirstSearch, GuessIsConsistent
<1>5. Labels(fwd, query.start, Free, ForwardLinks, query.mode) /\ Queue(fwd) /\ Labelled(fwd, query.start, Free)
  BY <1>4 DEF SideOK, Labels
<1>6. PICK x \in FrontItems(fwd, query.goal) : ~Stale(fwd, x) /\ x[1] = query.goal
  BY DEF AStarArrives
<1>7. x \in fwd.pq /\ x[1] \in DOMAIN fwd.g /\ x[2] \in Nat /\ fwd.g[x[1]] <= x[2] /\ fwd.g[x[1]] \in Nat
  BY <1>5, <1>6 DEF FrontItems, Queue, Labelled
<1>8. x[2] = fwd.g[x[1]]
  BY <1>6, <1>7 DEF Stale
<1>9. Frontmost(fwd, Guess, query.goal) /\ query.goal \in DOMAIN fwd.g \ fwd.closed
  BY <1>1, <1>2, <1>4, <1>6, <1>7, <1>8, FrontIsFrontmost
<1>10. Ordered(fwd, Guess) /\ Exact(fwd, ForwardLinks, query.mode)
  BY <1>1, <1>2 DEF AStarInv
<1>11. GoodPath(p, query.start, query.goal)
  BY <1>3, <1>4 DEF Found
<1>12. /\ query.goal \in DOMAIN FastestTimes(query.start)
       /\ FastestTimes(query.start)[query.goal] <= p.time
  BY <1>4, <1>11, PathIsNoFaster
<1>13. fwd.g[query.goal] <= FastestTimes(query.start)[query.goal]
  BY <1>4, <1>5, <1>9, <1>10, <1>12, FrontIsFastest
<1>14. FastestTimes(query.start)[query.goal] \in Nat
  BY <1>4, <1>12, TimesAreNumbers
<1>15. p.time = FastestTimes(query.start)[query.goal]
  <2>1. fwd.g[query.goal] \in Nat
    BY <1>6, <1>7
  <2>. QED
    BY <1>3, <1>12, <1>13, <1>14, <2>1
<1>. QED
  BY <1>2, <1>3, <1>12, <1>15 DEF IsFastest

\* The invariant is about the graph, the request and the side alone.
LEMMA AStarInvStays ==
    ASSUME AStarInv, UNCHANGED <<graph, query, phase, blocked, fwd>>
    PROVE  AStarInv'
<1>1. ForwardLinks' = ForwardLinks /\ Guess' = Guess /\ (Consistent' <=> Consistent)
  BY LinksStay DEF Guess, Consistent, G
<1>. QED
  BY <1>1 DEF AStarInv, Ordered, Exact

\* Every step keeps the invariant of aStar.
LEMMA AStarInvStep ==
    ASSUME NetInv, AStarInv, [Next]_netVars
    PROVE  AStarInv'
<1> SUFFICES ASSUME phase' = "first", query'.algorithm = "astar" PROVE AStarInv'
  BY DEF AStarInv
<1>1. CASE Import \/ StartServer \/ LoadRegion \/ LoadEnds
  <2>1. server # "up" /\ phase' = phase
    BY <1>1 DEF Import, StartServer, LoadRegion, LoadEnds, vars
  <2>. QED
    BY <2>1 DEF NetInv, ServerOK
<1>2. CASE Answer
  <2>1. Served
    BY <1>2 DEF Answer, Served
  <2>2. ASSUME fwd'.closed = {} PROVE AStarInv'
    BY <2>2 DEF AStarInv, Ordered, Exact
  <2>3. \A net, mode, places, starts, goals, k, heuristic, algorithm :
          Begin(net, mode, places, starts, goals, k, heuristic, algorithm) => fwd'.closed = {}
    BY DEF Begin, StartSearch, StartSide
  <2>4. Refuse => phase' = "refused"
    BY DEF Refuse
  <2>5. CASE ~SearchStep
    <3>1. fwd'.closed = {}
      BY <2>1, <2>3, <2>4, <2>5 DEF Served, RoadRequest, TrainRequest, TransitRequest, PolylineRequest, BetweenStops
    <3>. QED
      BY <2>2, <3>1
  <2>6. CASE SearchStep
    <3>1. query' = query
      BY <2>6, StepKeepsQuery DEF NetInv
    <3>2. CASE SearchCancelled \/ SameNode \/ BidirEnds \/ AStarArrives \/ AStarGivesUp
      <4>1. \A p : Return(p) => phase' # "first"
        BY DEF Return
      <4>. QED
        BY <3>2, <4>1 DEF SearchCancelled, SameNode, BidirEnds, AStarArrives, AStarGivesUp
    <3>3. CASE ExpandForward \/ ExpandBackward
      BY <3>1, <3>3 DEF ExpandForward, ExpandBackward
    <3>4. CASE AStarExpands
      BY <3>4, AStarInvExpands
    <3>5. CASE DeadlinePasses
      <4>1. UNCHANGED <<graph, query, phase, blocked, fwd>>
        BY <3>5 DEF DeadlinePasses, searchVars
      <4>. QED
        BY <4>1, AStarInvStays
    <3>6. CASE NextSpur \/ Accept \/ NoMoreCandidates
      BY <3>6 DEF NextSpur, Accept, NoMoreCandidates
    <3>. QED
      BY <2>6, <3>2, <3>3, <3>4, <3>5, <3>6 DEF SearchStep
  <2>. QED
    BY <2>5, <2>6
<1>3. CASE UNCHANGED netVars
  <2>1. UNCHANGED <<graph, query, phase, blocked, fwd>>
    BY <1>3 DEF netVars, vars, searchVars
  <2>. QED
    BY <2>1, AStarInvStays
<1>. QED
  BY <1>1, <1>2, <1>3 DEF Next

\* AStar answers with a path no slower than any other, by the reference of
\* Bellman and Ford, wherever its estimate is consistent on the graph searched.
THEOREM AStarIsAlwaysFastest == Spec => []AStarIsFastest
<1>1. Init => AStarInv /\ AStarIsFastest
  BY DEF Init, SearchInit, AStarInv, AStarIsFastest
<1>2. NetInv /\ AStarInv /\ [Next]_netVars => AStarInv'
  BY AStarInvStep
<1>3. NetInv /\ AStarInv /\ AStarIsFastest /\ [Next]_netVars => AStarIsFastest'
  <2> SUFFICES ASSUME NetInv, AStarInv, AStarIsFastest, [Next]_netVars, phase' = "done", accepted' # <<>>,
                      query'.algorithm = "astar", Consistent'
               PROVE  IsFastest(accepted[1])'
    BY DEF AStarIsFastest
  <2>1. UNCHANGED <<graph, query>> /\ (SearchStep \/ UNCHANGED vars)
    BY DoneStep
  <2>2. query.algorithm = "astar" /\ Consistent
    BY <2>1 DEF Consistent, G
  <2>3. PICK p : p = accepted'[1]
    OBVIOUS
  <2>4. IsFastest(p)
    <3>1. CASE UNCHANGED vars
      BY <2>2, <2>3, <3>1 DEF vars, yenVars, AStarIsFastest
    <3>2. CASE AStarArrives
      <4>1. PICK q : Found(q) /\ Return(q) /\ phase = "first" /\ IsFastest(q)
        BY <2>2, <3>2, ArrivesFirst
      <4>2. accepted' = <<q>>
        BY <4>1 DEF Return, Found
      <4>. QED
        BY <2>3, <4>1, <4>2
    <3>3. CASE SearchCancelled \/ AStarGivesUp
      <4>1. Searching /\ Return(NotFound)
        BY <3>3 DEF SearchCancelled, AStarGivesUp, Running
      <4>2. phase = "first"
        BY <2>2, <4>1 DEF Searching, NetInv, SearchInv, Shape
      <4>. QED
        BY <4>1, <4>2 DEF Return
    <3>4. CASE SameNode
      <4>1. Searching /\ from = query.goal
        BY <3>4 DEF SameNode
      <4>2. phase = "first"
        BY <2>2, <4>1 DEF Searching, NetInv, SearchInv, Shape
      <4>. QED
        BY <2>2, <4>1, <4>2, FirstSearch
    <3>5. CASE BidirEnds \/ ExpandForward \/ ExpandBackward
      BY <2>2, <3>5 DEF BidirEnds, ExpandForward, ExpandBackward
    <3>6. CASE DeadlinePasses \/ AStarExpands
      BY <3>6 DEF DeadlinePasses, AStarExpands, Running, Searching
    <3>7. CASE NextSpur
      BY <3>7 DEF NextSpur
    <3>8. CASE Accept \/ NoMoreCandidates
      BY <2>2, <3>8, AcceptKeeps, NoMoreCandidatesKeeps DEF NetInv
    <3>. QED
      BY <2>1, <3>1, <3>2, <3>3, <3>4, <3>5, <3>6, <3>7, <3>8 DEF SearchStep
  <2>5. IsFastest(p)'
    BY <2>1, <2>4, TimesStay DEF IsFastest
  <2>. QED
    BY <2>3, <2>5 DEF IsFastest
<1>. QED
  BY <1>1, <1>2, <1>3, NetAlways, PTL DEF Spec

\* An edge brings the search no nearer to its goal, by the flat distance, than
\* it is long: so it is everywhere when degrees of longitude are no shorter at
\* the edges than at the goal, up to the importer's rounding.
Unstretched ==
    \A n \in G.nodes : \A i \in DOMAIN G.edges[n] :
      EdgeAllowed(query.mode, G.edges[n][i]) =>
        FlatDistKm(n, query.goal) <= G.edges[n][i].km + FlatDistKm(G.edges[n][i].to, query.goal)

\* When the estimate is consistent: in a search without the heuristic always,
\* and with it where no edge is faster than heuristicHours assumes and none is
\* shorter than what it takes off the flat distance to the goal.
THEOREM WhenTheEstimateIsConsistent ==
    ASSUME NetInv, phase \in {"first", "spurs", "spur", "done"},
           query.heuristic => NoEdgeTooFast /\ Unstretched
    PROVE  Consistent
<1>1. SearchTypes
  BY DEF NetInv, SearchInv, Shape
<1>2. query.mode \in Modes /\ query.heuristic \in BOOLEAN /\ query.goal \in Nodes
  BY <1>1, FreeNodes DEF SearchTypes
<1>3. ASSUME NEW n \in G.nodes, NEW i \in DOMAIN G.edges[n], EdgeAllowed(query.mode, G.edges[n][i])
      PROVE  Estimate(query.mode, query.heuristic, n, query.goal)
               <= TravelTime(query.mode, G.edges[n][i])
                    + Estimate(query.mode, query.heuristic, G.edges[n][i].to, query.goal)
  <2>1. PICK e : e = G.edges[n][i]
    OBVIOUS
  <2>2. n \in Nodes /\ e \in Edge
    BY <1>1, <2>1, FreeNodes DEF Range
  <2>3. query.heuristic => /\ ProfileSpeed(query.mode, e) <= HeuristicSpeed[query.mode]
                           /\ FlatDistKm(n, query.goal) <= e.km + FlatDistKm(e.to, query.goal)
    BY <1>3, <2>1 DEF NoEdgeTooFast, Unstretched
  <2>. QED
    BY <1>2, <2>1, <2>2, <2>3, EstimateIsConsistent
<1>. QED
  BY <1>3 DEF Consistent

\* Without the heuristic nothing is asked of the graph: aStar is Dijkstra's
\* search and answers with a fastest path.
THEOREM ExactSearchIsFastest ==
    Spec => [](phase = "done" /\ accepted # <<>> /\ query.algorithm = "astar" /\ ~query.heuristic =>
                 IsFastest(accepted[1]))
<1>1. /\ NetInv /\ AStarIsFastest
      => (phase = "done" /\ accepted # <<>> /\ query.algorithm = "astar" /\ ~query.heuristic =>
            IsFastest(accepted[1]))
  BY WhenTheEstimateIsConsistent DEF AStarIsFastest
<1>. QED
  BY <1>1, NetAlways, AStarIsAlwaysFastest, PTL

-----------------------------------------------------------------------------
(* Slices of a path and what they measure. *)

IsSlice(S, r, s, a, b) == r \in Seq(S) /\ Len(r) = b - a /\ \A i \in 1 .. b - a : r[i] = s[a + i - 1]

\* What SubSeq cuts out of a list.
LEMMA Slice ==
    ASSUME NEW S, NEW s \in Seq(S), NEW a \in 1 .. Len(s) + 1, NEW b \in a .. Len(s) + 1
    PROVE  IsSlice(S, SubSeq(s, a, b - 1), s, a, b)
<1>1. SubSeq(s, a, b - 1) = [i \in 1 .. (b - a) |-> s[a + i - 1]]
  OBVIOUS
<1>2. \A i \in 1 .. b - a : s[a + i - 1] \in S
  OBVIOUS
<1>3. b - a \in Nat
  OBVIOUS
<1>4. [i \in 1 .. (b - a) |-> s[a + i - 1]] \in Seq(S) /\ Len([i \in 1 .. (b - a) |-> s[a + i - 1]]) = b - a
  BY <1>2, <1>3
<1>. QED
  BY <1>1, <1>4 DEF IsSlice

\* Two lists with the same elements are the same.
LEMMA SameLists ==
    ASSUME NEW S, NEW p \in Seq(S), NEW q \in Seq(S), Len(p) = Len(q), \A i \in 1 .. Len(p) : p[i] = q[i]
    PROVE  p = q
  OBVIOUS

\* The beginning of a list and the slice behind it.
LEMMA Glue ==
    ASSUME NEW S, NEW s \in Seq(S), NEW a \in 1 .. Len(s) + 1, NEW b \in a .. Len(s) + 1
    PROVE  SubSeq(s, 1, a - 1) \o SubSeq(s, a, b - 1) = SubSeq(s, 1, b - 1)
<1>1. PICK p, q, r : p = SubSeq(s, 1, a - 1) /\ q = SubSeq(s, a, b - 1) /\ r = SubSeq(s, 1, b - 1)
  OBVIOUS
<1>2. IsSlice(S, p, s, 1, a) /\ IsSlice(S, q, s, a, b) /\ IsSlice(S, r, s, 1, b)
  <2>1. 1 \in 1 .. Len(s) + 1 /\ a \in 1 .. Len(s) + 1 /\ b \in 1 .. Len(s) + 1
    OBVIOUS
  <2>. QED
    BY <1>1, <2>1, Slice
<1>3. PICK c : c = p \o q
  OBVIOUS
<1>4. IsConcat(S, c, p, q, a - 1, b - a)
  <2>1. a - 1 \in Nat /\ b - a \in Nat /\ p \in Seq(S) /\ Len(p) = a - 1 /\ q \in Seq(S) /\ Len(q) = b - a
    BY <1>2 DEF IsSlice
  <2>. QED
    BY <1>3, <2>1, Concat
<1>5. c \in Seq(S) /\ r \in Seq(S) /\ Len(c) = b - 1 /\ Len(r) = b - 1
  BY <1>2, <1>4 DEF IsSlice, IsConcat
<1>6. ASSUME NEW i \in 1 .. b - 1 PROVE c[i] = r[i]
  <2>0. r[i] = s[i]
    BY <1>2 DEF IsSlice
  <2>1. CASE i <= a - 1
    <3>1. c[i] = p[i] /\ p[i] = s[i]
      BY <1>2, <1>4, <2>1 DEF IsSlice, IsConcat
    <3>. QED
      BY <3>1, <2>0
  <2>2. CASE i > a - 1
    <3>1. c[i] = q[i - (a - 1)]
      BY <1>4, <2>2 DEF IsConcat
    <3>2. q[i - (a - 1)] = s[a + (i - (a - 1)) - 1]
      BY <1>2, <2>2 DEF IsSlice
    <3>. QED
      BY <2>0, <3>1, <3>2
  <2>. QED
    BY <2>1, <2>2
<1>. QED
  BY <1>1, <1>3, <1>5, <1>6, SameLists

-----------------------------------------------------------------------------
\* Potentials whose differences are the sums over the slices of a path.
Measures(P, Q, mode, edges, n) ==
    /\ \A i \in 1 .. n + 1 : P[i] \in Int /\ Q[i] \in Int
    /\ TotalTime(mode, edges) = P[n + 1] - P[1] /\ TotalKm(edges) = Q[n + 1] - Q[1]
    /\ \A a \in 1 .. n + 1 : \A b \in a .. n + 1 :
         /\ TotalTime(mode, SubSeq(edges, a, b - 1)) = P[b] - P[a]
         /\ TotalKm(SubSeq(edges, a, b - 1)) = Q[b] - Q[a]

\* Every path has such potentials.
LEMMA Measured ==
    ASSUME NEW mode \in Modes, NEW edges \in Seq(Edge), NEW n \in Nat, Len(edges) = n
    PROVE  \E P, Q : Measures(P, Q, mode, edges, n)
<1> DEFINE times == [i \in DOMAIN edges |-> TravelTime(mode, edges[i])]
           kms   == [i \in DOMAIN edges |-> edges[i].km]
<1>1. \A i \in 1 .. n : edges[i] \in Edge /\ edges[i].km \in Nat /\ TravelTime(mode, edges[i]) \in Nat
  <2>1. \A e \in Edge : e.km \in Nat /\ TravelTime(mode, e) \in Nat
    BY TravelTimeIsPositive DEF Edge
  <2>2. \A i \in 1 .. n : edges[i] \in Edge
    OBVIOUS
  <2>. QED
    BY <2>1, <2>2
<1>2. Len(times) = n /\ Len(kms) = n /\ \A i \in 1 .. n : times[i] = TravelTime(mode, edges[i]) /\ kms[i] = edges[i].km
  OBVIOUS
<1> HIDE DEF times, kms
<1>3. PICK f : IsSum(f, times, n)
  <2>1. \A i \in 1 .. n : times[i] \in Nat
    BY <1>1, <1>2
  <2>. QED
    BY <1>2, <2>1, TotalLoop
<1>4. PICK h : IsSum(h, kms, n)
  <2>1. \A i \in 1 .. n : kms[i] \in Nat
    BY <1>1, <1>2
  <2>. QED
    BY <1>2, <2>1, TotalLoop
<1> DEFINE P == [i \in 1 .. n + 1 |-> f[i - 1]]
           Q == [i \in 1 .. n + 1 |-> h[i - 1]]
<1>5. \A i \in 1 .. n + 1 : P[i] \in Int /\ Q[i] \in Int
  <2>1. \A i \in 0 .. n : f[i] \in Nat /\ h[i] \in Nat
    BY <1>3, <1>4 DEF IsSum
  <2>. QED
    BY <2>1
<1>6. \A i \in 1 .. n : P[i + 1] = P[i] + TravelTime(mode, edges[i]) /\ Q[i + 1] = Q[i] + edges[i].km
  <2> SUFFICES ASSUME NEW i \in 1 .. n
               PROVE  P[i + 1] = P[i] + TravelTime(mode, edges[i]) /\ Q[i + 1] = Q[i] + edges[i].km
    OBVIOUS
  <2>1. f[i] = f[i - 1] + times[i] /\ h[i] = h[i - 1] + kms[i]
    BY <1>3, <1>4 DEF IsSum
  <2>2. P[i + 1] = f[i] /\ P[i] = f[i - 1] /\ Q[i + 1] = h[i] /\ Q[i] = h[i - 1]
    OBVIOUS
  <2>. QED
    BY <1>2, <2>1, <2>2
<1> HIDE DEF P, Q
<1>7. ASSUME NEW a \in 1 .. n + 1, NEW b \in a .. n + 1
      PROVE  /\ TotalTime(mode, SubSeq(edges, a, b - 1)) = P[b] - P[a]
             /\ TotalKm(SubSeq(edges, a, b - 1)) = Q[b] - Q[a]
  <2>1. PICK r : r = SubSeq(edges, a, b - 1)
    OBVIOUS
  <2>2. IsSlice(Edge, r, edges, a, b)
    BY <2>1, Slice
  <2> DEFINE V == [i \in 1 .. b - a + 1 |-> P[a + i - 1]]
             W == [i \in 1 .. b - a + 1 |-> Q[a + i - 1]]
  <2>3. b - a \in Nat /\ r \in Seq(Edge) /\ Len(r) = b - a
    BY <2>2 DEF IsSlice
  <2>4. \A i \in 1 .. b - a + 1 : V[i] \in Int /\ W[i] \in Int
    BY <1>5
  <2>5. ASSUME NEW i \in 1 .. b - a
        PROVE  V[i + 1] = V[i] + TravelTime(mode, r[i]) /\ W[i + 1] = W[i] + r[i].km
    <3>1. PICK j : j = a + i - 1
      OBVIOUS
    <3>2. j \in 1 .. n /\ j + 1 = a + (i + 1) - 1 /\ i \in 1 .. b - a + 1 /\ i + 1 \in 1 .. b - a + 1
      BY <3>1
    <3>3. r[i] = edges[j]
      BY <2>2, <3>1 DEF IsSlice
    <3>4. V[i] = P[j] /\ V[i + 1] = P[j + 1] /\ W[i] = Q[j] /\ W[i + 1] = Q[j + 1]
      BY <3>1, <3>2
    <3> HIDE DEF V, W
    <3>. QED
      BY <1>6, <3>2, <3>3, <3>4
  <2>6. V[b - a + 1] = P[b] /\ V[1] = P[a] /\ W[b - a + 1] = Q[b] /\ W[1] = Q[a]
    <3>1. b - a + 1 \in 1 .. b - a + 1 /\ 1 \in 1 .. b - a + 1 /\ a + (b - a + 1) - 1 = b /\ a + 1 - 1 = a
      OBVIOUS
    <3>. QED
      BY <3>1
  <2> HIDE DEF V, W
  <2>7. AddUp(V, W, mode, r, b - a)
    BY <2>4, <2>5 DEF AddUp
  <2>8. TotalTime(mode, r) = V[b - a + 1] - V[1] /\ TotalKm(r) = W[b - a + 1] - W[1]
    BY <2>3, <2>7, EdgeSums
  <2>. QED
    BY <2>1, <2>6, <2>8
<1>8. AddUp(P, Q, mode, edges, n)
  BY <1>5, <1>6 DEF AddUp
<1>9. TotalTime(mode, edges) = P[n + 1] - P[1] /\ TotalKm(edges) = Q[n + 1] - Q[1]
  BY <1>8, EdgeSums
<1>10. Measures(P, Q, mode, edges, n)
  BY <1>5, <1>7, <1>9 DEF Measures
<1>. QED
  BY <1>10

-----------------------------------------------------------------------------
(* The legs of an itinerary. *)

FlattenStep(x, seqs, i) == x \o seqs[i]

FlattenBody(f, seqs, n) == [i \in 1 .. n |-> IF i = 1 THEN seqs[i] ELSE FlattenStep(f[i - 1], seqs, i)]

FlattenLoop(seqs, n) == CHOOSE f : f = FlattenBody(f, seqs, n)

\* The loop of FlattenSeq.
LEMMA FlattenRuns ==
    ASSUME NEW seqs, NEW n \in Nat, 1 <= n
    PROVE  LET f == FlattenLoop(seqs, n)
           IN  /\ f[1] = seqs[1]
               /\ \A i \in 1 .. n : i > 1 => f[i] = FlattenStep(f[i - 1], seqs, i)
<1> DEFINE S == {k \in Nat : \E f : f = FlattenBody(f, seqs, k)}
<1>1. 1 \in S
  <2> DEFINE h == [i \in 1 .. 1 |-> seqs[1]]
  <2>1. h = FlattenBody(h, seqs, 1)
    BY DEF FlattenBody
  <2>. QED
    BY <2>1
<1>2. ASSUME NEW k \in 1 .. n, k > 1, k - 1 \in S PROVE k \in S
  <2>1. PICK was : was = FlattenBody(was, seqs, k - 1)
    BY <1>2
  <2> DEFINE h == [i \in 1 .. k |-> IF i = k THEN FlattenStep(was[k - 1], seqs, k) ELSE was[i]]
  <2>2. \A i \in 1 .. k - 1 : h[i] = was[i] /\ was[i] = IF i = 1 THEN seqs[1] ELSE FlattenStep(was[i - 1], seqs, i)
    BY <2>1 DEF FlattenBody
  <2>3. h[k] = FlattenStep(was[k - 1], seqs, k) /\ h[k - 1] = was[k - 1]
    BY <1>2
  <2>4. ASSUME NEW i \in 1 .. k PROVE h[i] = IF i = 1 THEN seqs[1] ELSE FlattenStep(h[i - 1], seqs, i)
    <3> HIDE DEF h
    <3>1. CASE i = k
      BY <3>1, <1>2, <2>3
    <3>2. CASE i = 1
      BY <3>2, <1>2, <2>2
    <3>3. CASE i # k /\ i # 1
      <4>1. i \in 1 .. k - 1 /\ i - 1 \in 1 .. k - 1
        BY <3>3, <1>2
      <4>. QED
        BY <3>3, <4>1, <2>2
    <3>. QED
      BY <3>1, <3>2, <3>3
  <2>5. h = FlattenBody(h, seqs, k)
    BY <2>4 DEF FlattenBody
  <2>6. k \in Nat
    OBVIOUS
  <2>. QED
    BY <2>5, <2>6
<1>3. n \in S
  <2> HIDE DEF S
  <2>. QED
    BY <1>1, <1>2, UpTo
<1> DEFINE f == FlattenLoop(seqs, n)
<1>4. f = FlattenBody(f, seqs, n)
  BY <1>3 DEF FlattenLoop
<1> HIDE DEF f
<1>5. f[1] = seqs[1] /\ \A i \in 1 .. n : i > 1 => f[i] = FlattenStep(f[i - 1], seqs, i)
  BY <1>4 DEF FlattenBody
<1>. QED
  BY <1>5 DEF f

SplitStep(x, path, i) == CutLeg(path, x, i)

SplitBody(f, path, n) == [i \in 1 .. n |-> IF i = 1 THEN [start |-> 1, legs |-> <<>>] ELSE SplitStep(f[i - 1], path, i)]

SplitLoop(path, n) == CHOOSE f : f = SplitBody(f, path, n)

\* The loop of SplitTransitLegs.
LEMMA SplitRuns ==
    ASSUME NEW path, NEW n \in Nat, 1 <= n
    PROVE  LET f == SplitLoop(path, n)
           IN  /\ f[1] = [start |-> 1, legs |-> <<>>]
               /\ \A i \in 1 .. n : i > 1 => f[i] = SplitStep(f[i - 1], path, i)
<1> DEFINE S == {k \in Nat : \E f : f = SplitBody(f, path, k)}
<1>1. 1 \in S
  <2> DEFINE h == [i \in 1 .. 1 |-> [start |-> 1, legs |-> <<>>]]
  <2>1. h = SplitBody(h, path, 1)
    BY DEF SplitBody
  <2>. QED
    BY <2>1
<1>2. ASSUME NEW k \in 1 .. n, k > 1, k - 1 \in S PROVE k \in S
  <2>1. PICK was : was = SplitBody(was, path, k - 1)
    BY <1>2
  <2> DEFINE h == [i \in 1 .. k |-> IF i = k THEN SplitStep(was[k - 1], path, k) ELSE was[i]]
  <2>2. \A i \in 1 .. k - 1 : h[i] = was[i] /\ was[i] = IF i = 1 THEN [start |-> 1, legs |-> <<>>] ELSE SplitStep(was[i - 1], path, i)
    BY <2>1 DEF SplitBody
  <2>3. h[k] = SplitStep(was[k - 1], path, k) /\ h[k - 1] = was[k - 1]
    BY <1>2
  <2>4. ASSUME NEW i \in 1 .. k PROVE h[i] = IF i = 1 THEN [start |-> 1, legs |-> <<>>] ELSE SplitStep(h[i - 1], path, i)
    <3> HIDE DEF h
    <3>1. CASE i = k
      BY <3>1, <1>2, <2>3
    <3>2. CASE i = 1
      BY <3>2, <1>2, <2>2
    <3>3. CASE i # k /\ i # 1
      <4>1. i \in 1 .. k - 1 /\ i - 1 \in 1 .. k - 1
        BY <3>3, <1>2
      <4>. QED
        BY <3>3, <4>1, <2>2
    <3>. QED
      BY <3>1, <3>2, <3>3
  <2>5. h = SplitBody(h, path, k)
    BY <2>4 DEF SplitBody
  <2>6. k \in Nat
    OBVIOUS
  <2>. QED
    BY <2>5, <2>6
<1>3. n \in S
  <2> HIDE DEF S
  <2>. QED
    BY <1>1, <1>2, UpTo
<1> DEFINE f == SplitLoop(path, n)
<1>4. f = SplitBody(f, path, n)
  BY <1>3 DEF SplitLoop
<1> HIDE DEF f
<1>5. f[1] = [start |-> 1, legs |-> <<>>] /\ \A i \in 1 .. n : i > 1 => f[i] = SplitStep(f[i - 1], path, i)
  BY <1>4 DEF SplitBody
<1>. QED
  BY <1>5 DEF f

\* The edges at a and p are of one line and one mode.
OneLine(path, a, p) ==
    path.edges[p].name = path.edges[a].name /\ EdgeMode(path.edges[p].kind) = EdgeMode(path.edges[a].kind)

\* A leg from a to b, which ends where the line does.
WholeLeg(path, leg, a, b) ==
    /\ a < b /\ leg = TransitSegmentLeg(path, a, b) /\ BreakHere(path, a, b)
    /\ \A p \in a .. b - 1 : OneLine(path, a, p)

Cuts(path) == 1 .. Len(path.edges) + 1

LegsOf(path) == {TransitSegmentLeg(path, a, b) : a \in Cuts(path), b \in Cuts(path)}

\* The legs are cut at c, and the edges behind the last one up to i are of
\* one line.
CutAt(path, acc, c, i) ==
    /\ acc.legs \in Seq(LegsOf(path)) /\ c \in Seq(Cuts(path)) /\ Len(c) = Len(acc.legs) + 1
    /\ c[1] = 1 /\ c[Len(c)] = acc.start /\ acc.start \in 1 .. i
    /\ \A l \in 1 .. Len(acc.legs) : WholeLeg(path, acc.legs[l], c[l], c[l + 1])
    /\ \A p \in acc.start .. i : p <= Len(path.edges) => OneLine(path, acc.start, p)

\* One turn of the loop of SplitTransitLegs, the last one included.
LEMMA CutLegKeeps ==
    ASSUME NEW path, path.edges \in Seq(Edge), NEW i \in 2 .. Len(path.edges) + 1, NEW acc, NEW c,
           CutAt(path, acc, c, i - 1)
    PROVE  /\ \E d : CutAt(path, CutLeg(path, acc, i), d, i)
           /\ i = Len(path.edges) + 1 => CutLeg(path, acc, i).start = i
<1>0. /\ acc.legs \in Seq(LegsOf(path)) /\ c \in Seq(Cuts(path)) /\ Len(c) = Len(acc.legs) + 1
      /\ c[1] = 1 /\ c[Len(c)] = acc.start /\ acc.start \in 1 .. i - 1
      /\ \A l \in 1 .. Len(acc.legs) : WholeLeg(path, acc.legs[l], c[l], c[l + 1])
      /\ \A p \in acc.start .. i - 1 : p <= Len(path.edges) => OneLine(path, acc.start, p)
  BY DEF CutAt
<1>1. CASE ~BreakHere(path, acc.start, i)
  <2>1. CutLeg(path, acc, i) = acc
    BY <1>1 DEF CutLeg
  <2>2. i # Len(path.edges) + 1 /\ OneLine(path, acc.start, i)
    BY <1>1 DEF BreakHere, OneLine
  <2>3. \A p \in acc.start .. i : p <= Len(path.edges) => OneLine(path, acc.start, p)
    BY <1>0, <2>2
  <2>4. acc.start \in 1 .. i
    BY <1>0
  <2>5. CutAt(path, acc, c, i)
    BY <1>0, <2>3, <2>4 DEF CutAt
  <2>. QED
    BY <2>1, <2>2, <2>5
<1>2. CASE BreakHere(path, acc.start, i)
  <2>1. PICK a, leg, k : a = acc.start /\ leg = TransitSegmentLeg(path, a, i) /\ k = Len(acc.legs)
    OBVIOUS
  <2>2. PICK legs, d : legs = Append(acc.legs, leg) /\ d = Append(c, i)
    OBVIOUS
  <2>3. PICK new : new = CutLeg(path, acc, i)
    OBVIOUS
  <2>4. new.start = i /\ new.legs = legs
    BY <1>2, <2>1, <2>2, <2>3 DEF CutLeg
  <2>5. i \in Cuts(path) /\ a \in Cuts(path) /\ leg \in LegsOf(path)
    BY <1>0, <2>1 DEF Cuts, LegsOf
  <2>6. k \in Nat /\ Len(c) = k + 1
    BY <1>0, <2>1
  <2>7. legs \in Seq(LegsOf(path)) /\ Len(legs) = k + 1 /\ legs[k + 1] = leg /\ \A l \in 1 .. k : legs[l] = acc.legs[l]
    <3> HIDE DEF LegsOf
    <3>. QED
      BY <1>0, <2>1, <2>2, <2>5
  <2>8. d \in Seq(Cuts(path)) /\ Len(d) = k + 2 /\ d[k + 2] = i /\ \A l \in 1 .. k + 1 : d[l] = c[l]
    BY <1>0, <2>2, <2>5, <2>6
  <2>9. WholeLeg(path, leg, a, i)
    <3>1. \A p \in a .. i - 1 : OneLine(path, a, p)
      BY <1>0, <2>1
    <3>. QED
      BY <1>0, <1>2, <2>1, <3>1 DEF WholeLeg
  <2>10. ASSUME NEW l \in 1 .. k + 1 PROVE WholeLeg(path, legs[l], d[l], d[l + 1])
    <3>1. CASE l = k + 1
      <4>1. legs[l] = leg /\ d[l] = a /\ d[l + 1] = i
        BY <1>0, <2>1, <2>6, <2>7, <2>8, <3>1
      <4>. QED
        BY <2>9, <4>1
    <3>2. CASE l # k + 1
      <4>1. l \in 1 .. k /\ l \in 1 .. k + 1 /\ l + 1 \in 1 .. k + 1
        BY <2>6, <3>2
      <4>2. legs[l] = acc.legs[l] /\ d[l] = c[l] /\ d[l + 1] = c[l + 1]
        BY <2>7, <2>8, <4>1
      <4>. QED
        BY <1>0, <2>1, <4>1, <4>2
    <3>. QED
      BY <3>1, <3>2
  <2>11. OneLine(path, i, i)
    BY DEF OneLine
  <2>12. CutAt(path, new, d, i)
    <3>1. d[1] = 1 /\ d[Len(d)] = i /\ Len(d) = Len(legs) + 1
      BY <1>0, <2>6, <2>7, <2>8
    <3>2. i \in 1 .. i
      OBVIOUS
    <3>3. \A p \in i .. i : OneLine(path, i, p)
      BY <2>11
    <3>. QED
      BY <2>4, <2>7, <2>8, <2>10, <3>1, <3>2, <3>3 DEF CutAt
  <2>. QED
    BY <2>3, <2>4, <2>12
<1>. QED
  BY <1>1, <1>2

\* The legs tile the path.
Tiled(path, legs, c) ==
    /\ legs \in Seq(LegsOf(path)) /\ Len(legs) >= 1 /\ c \in Seq(Cuts(path)) /\ Len(c) = Len(legs) + 1
    /\ c[1] = 1 /\ c[Len(c)] = Len(path.edges) + 1
    /\ \A l \in 1 .. Len(legs) : WholeLeg(path, legs[l], c[l], c[l + 1])

\* SplitTransitLegs tiles the path.
LEMMA LegsTile ==
    ASSUME NEW path, path.edges \in Seq(Edge), Len(path.edges) >= 1
    PROVE  \E c : Tiled(path, SplitTransitLegs(path), c)
<1> DEFINE n == Len(path.edges) + 1
           f == SplitLoop(path, n)
           S == {i \in 1 .. n : \E c : CutAt(path, f[i], c, i)}
<1>0. n \in Nat /\ n >= 2
  OBVIOUS
<1>1. SplitTransitLegs(path) = f[n].legs
  BY DEF SplitTransitLegs, SplitLoop, SplitBody, SplitStep
<1>2. f[1] = [start |-> 1, legs |-> <<>>] /\ \A i \in 1 .. n : i > 1 => f[i] = SplitStep(f[i - 1], path, i)
  BY <1>0, SplitRuns
<1> HIDE DEF f
<1>3. 1 \in S
  <2>1. f[1].start = 1 /\ f[1].legs = <<>>
    BY <1>2
  <2>2. <<1>> \in Seq(Cuts(path)) /\ Len(<<1>>) = 1 /\ <<1>>[1] = 1
    BY DEF Cuts
  <2>3. OneLine(path, 1, 1)
    BY DEF OneLine
  <2>4. <<>> \in Seq(LegsOf(path)) /\ Len(<<>>) = 0
    OBVIOUS
  <2>5. CutAt(path, f[1], <<1>>, 1)
    BY <2>1, <2>2, <2>3, <2>4 DEF CutAt
  <2>. QED
    BY <1>0, <2>5
<1>4. ASSUME NEW i \in 1 .. n, i > 1, i - 1 \in S PROVE i \in S /\ (i = n => f[i].start = n)
  <2>1. PICK c : CutAt(path, f[i - 1], c, i - 1)
    BY <1>4
  <2>2. f[i] = CutLeg(path, f[i - 1], i) /\ i \in 2 .. Len(path.edges) + 1
    BY <1>2, <1>4 DEF SplitStep
  <2>3. /\ \E d : CutAt(path, f[i], d, i)
        /\ i = Len(path.edges) + 1 => f[i].start = i
    BY <2>1, <2>2, CutLegKeeps
  <2>. QED
    BY <2>3
<1>5. \A i \in 1 .. n : i \in S
  <2> HIDE DEF S, n
  <2>. QED
    BY <1>0, <1>3, <1>4, UpTo
<1>6. PICK c : CutAt(path, f[n], c, n)
  BY <1>0, <1>5
<1>7. f[n].start = n
  <2>1. n \in 1 .. n /\ n > 1 /\ n - 1 \in 1 .. n
    BY <1>0
  <2> HIDE DEF S, n
  <2>. QED
    BY <1>4, <1>5, <2>1
<1>8. PICK legs : legs = f[n].legs
  OBVIOUS
<1>9. /\ legs \in Seq(LegsOf(path)) /\ c \in Seq(Cuts(path)) /\ Len(c) = Len(legs) + 1
      /\ c[1] = 1 /\ c[Len(c)] = n
      /\ \A l \in 1 .. Len(legs) : WholeLeg(path, legs[l], c[l], c[l + 1])
  BY <1>6, <1>7, <1>8 DEF CutAt
<1>10. Len(legs) >= 1
  <2>1. Len(legs) \in Nat
    BY <1>9
  <2>2. Len(legs) # 0
    BY <1>0, <1>9
  <2>. QED
    BY <2>1, <2>2
<1>11. Tiled(path, legs, c)
  BY <1>9, <1>10 DEF Tiled
<1>. QED
  BY <1>1, <1>8, <1>11

\* The parts of a leg.
LEMMA LegParts ==
    ASSUME NEW path, path.edges \in Seq(Edge), NEW a \in Cuts(path), NEW b \in Cuts(path), NEW leg,
           WholeLeg(path, leg, a, b)
    PROVE  /\ leg.edges = SubSeq(path.edges, a, b - 1) /\ IsSlice(Edge, leg.edges, path.edges, a, b) /\ b - a >= 1
           /\ leg.from = path.nodes[a] /\ leg.to = path.nodes[b] /\ leg.km = TotalKm(leg.edges)
           /\ leg.line = path.edges[a].name /\ leg.mode = EdgeMode(path.edges[a].kind)
<1>1. a \in 1 .. Len(path.edges) + 1 /\ b \in a .. Len(path.edges) + 1 /\ a < b
  BY DEF Cuts, WholeLeg
<1>2. PICK r : r = SubSeq(path.edges, a, b - 1)
  OBVIOUS
<1>3. IsSlice(Edge, r, path.edges, a, b)
  BY <1>1, <1>2, Slice
<1>4. r[1] = path.edges[a] /\ b - a >= 1
  <2>1. 1 \in 1 .. b - a /\ a + 1 - 1 = a
    BY <1>1
  <2>. QED
    BY <1>1, <1>3, <2>1 DEF IsSlice
<1>5. leg = [mode |-> EdgeMode(r[1].kind), line |-> r[1].name, edges |-> r,
             from |-> path.nodes[a], to |-> path.nodes[b], km |-> TotalKm(r)]
  BY <1>2 DEF WholeLeg, TransitSegmentLeg, Length
<1>6. leg.mode = EdgeMode(r[1].kind) /\ leg.line = r[1].name /\ leg.edges = r /\ leg.from = path.nodes[a]
      /\ leg.to = path.nodes[b] /\ leg.km = TotalKm(r)
  BY <1>5
<1>. QED
  BY <1>2, <1>3, <1>4, <1>6

\* The cuts of a tiled path grow from its start to its end.
LEMMA CutsOf ==
    ASSUME NEW path, path.edges \in Seq(Edge), NEW legs, NEW c, Tiled(path, legs, c)
    PROVE  /\ Len(legs) \in Nat /\ Len(legs) >= 1 /\ DOMAIN legs = 1 .. Len(legs)
           /\ c[1] = 1 /\ c[Len(legs) + 1] = Len(path.edges) + 1
           /\ \A l \in 1 .. Len(legs) : /\ c[l] \in Cuts(path) /\ c[l + 1] \in Cuts(path) /\ c[l] < c[l + 1]
                                        /\ WholeLeg(path, legs[l], c[l], c[l + 1])
<1>1. /\ legs \in Seq(LegsOf(path)) /\ Len(legs) >= 1 /\ c \in Seq(Cuts(path)) /\ Len(c) = Len(legs) + 1
      /\ c[1] = 1 /\ c[Len(c)] = Len(path.edges) + 1
      /\ \A l \in 1 .. Len(legs) : WholeLeg(path, legs[l], c[l], c[l + 1])
  BY DEF Tiled
<1>2. Len(legs) \in Nat /\ DOMAIN legs = 1 .. Len(legs)
  BY <1>1
<1>3. \A l \in 1 .. Len(legs) : c[l] \in Cuts(path) /\ c[l + 1] \in Cuts(path)
  BY <1>1, <1>2
<1>4. \A l \in 1 .. Len(legs) : c[l] < c[l + 1]
  BY <1>1 DEF WholeLeg
<1>. QED
  BY <1>1, <1>2, <1>3, <1>4

\* Put together, the legs are the path.
LEMMA LegsFlatten ==
    ASSUME NEW path, path.edges \in Seq(Edge), NEW legs, NEW c, Tiled(path, legs, c)
    PROVE  FlattenSeq([l \in DOMAIN legs |-> legs[l].edges]) = path.edges
<1> DEFINE seqs == [l \in DOMAIN legs |-> legs[l].edges]
           m == Len(legs)
           f == FlattenLoop(seqs, m)
           S == {l \in 1 .. m : f[l] = SubSeq(path.edges, 1, c[l + 1] - 1)}
<1>1. /\ m \in Nat /\ m >= 1 /\ DOMAIN legs = 1 .. m
      /\ c[1] = 1 /\ c[m + 1] = Len(path.edges) + 1
      /\ \A l \in 1 .. m : /\ c[l] \in Cuts(path) /\ c[l + 1] \in Cuts(path) /\ c[l] < c[l + 1]
                           /\ WholeLeg(path, legs[l], c[l], c[l + 1])
  BY CutsOf
<1>2. Len(seqs) = m /\ \A l \in 1 .. m : seqs[l] = legs[l].edges
  BY <1>1
<1> HIDE DEF seqs, m
<1>3. FlattenSeq(seqs) = f[m]
  BY <1>1, <1>2 DEF FlattenSeq, FlattenLoop, FlattenBody, FlattenStep
<1>4. f[1] = seqs[1] /\ \A l \in 1 .. m : l > 1 => f[l] = FlattenStep(f[l - 1], seqs, l)
  BY <1>1, FlattenRuns
<1> HIDE DEF f
<1>5. ASSUME NEW l \in 1 .. m PROVE seqs[l] = SubSeq(path.edges, c[l], c[l + 1] - 1)
  <2>1. c[l] \in Cuts(path) /\ c[l + 1] \in Cuts(path) /\ WholeLeg(path, legs[l], c[l], c[l + 1])
    BY <1>1
  <2>2. legs[l].edges = SubSeq(path.edges, c[l], c[l + 1] - 1)
    BY <2>1, LegParts
  <2>. QED
    BY <1>2, <2>2
<1>6. 1 \in S
  <2>1. 1 \in 1 .. m
    BY <1>1
  <2>. QED
    BY <1>1, <1>4, <1>5, <2>1
<1>7. ASSUME NEW l \in 1 .. m, l > 1, l - 1 \in S PROVE l \in S
  <2>1. PICK a, b : a = c[l] /\ b = c[l + 1]
    OBVIOUS
  <2>2. a \in 1 .. Len(path.edges) + 1 /\ b \in a .. Len(path.edges) + 1
    BY <1>1, <2>1 DEF Cuts
  <2>3. f[l - 1] = SubSeq(path.edges, 1, a - 1)
    <3>1. f[l - 1] = SubSeq(path.edges, 1, c[(l - 1) + 1] - 1) /\ (l - 1) + 1 = l
      BY <1>7
    <3>. QED
      BY <2>1, <3>1
  <2>4. f[l] = f[l - 1] \o seqs[l] /\ seqs[l] = SubSeq(path.edges, a, b - 1)
    BY <1>4, <1>5, <1>7, <2>1 DEF FlattenStep
  <2>5. f[l] = SubSeq(path.edges, 1, b - 1)
    BY <2>2, <2>3, <2>4, Glue
  <2>. QED
    BY <2>1, <2>5
<1>8. \A l \in 1 .. m : l \in S
  <2> HIDE DEF S
  <2>. QED
    BY <1>1, <1>6, <1>7, UpTo
<1>9. f[m] = SubSeq(path.edges, 1, Len(path.edges))
  <2>1. m \in S
    BY <1>1, <1>8
  <2>2. c[m + 1] - 1 = Len(path.edges)
    BY <1>1
  <2>. QED
    BY <2>1, <2>2
<1>10. SubSeq(path.edges, 1, Len(path.edges)) = path.edges
  OBVIOUS
<1>. QED
  BY <1>3, <1>9, <1>10 DEF seqs

\* The lengths of the legs add up.
LEMMA LegsAddUp ==
    ASSUME NEW mode \in Modes, NEW path, path.edges \in Seq(Edge), NEW legs, NEW c, Tiled(path, legs, c)
    PROVE  TotalKm(legs) = TotalKm(path.edges)
<1> DEFINE m == Len(legs)
           n == Len(path.edges)
           kms == [l \in DOMAIN legs |-> legs[l].km]
<1>1. /\ m \in Nat /\ m >= 1 /\ DOMAIN legs = 1 .. m
      /\ c[1] = 1 /\ c[m + 1] = n + 1
      /\ \A l \in 1 .. m : /\ c[l] \in Cuts(path) /\ c[l + 1] \in Cuts(path) /\ c[l] < c[l + 1]
                           /\ WholeLeg(path, legs[l], c[l], c[l + 1])
  BY CutsOf
<1>2. n \in Nat
  OBVIOUS
<1>3. PICK P, Q : Measures(P, Q, mode, path.edges, n)
  BY <1>2, Measured
<1>4. Len(kms) = m /\ TotalKm(legs) = Total(kms) /\ \A l \in 1 .. m : kms[l] = legs[l].km
  BY <1>1 DEF TotalKm
<1> DEFINE V == [l \in 1 .. m + 1 |-> Q[c[l]]]
<1>5. \A l \in 1 .. m + 1 : V[l] = Q[c[l]] /\ c[l] \in 1 .. n + 1
  <2> SUFFICES ASSUME NEW l \in 1 .. m + 1 PROVE c[l] \in 1 .. n + 1
    OBVIOUS
  <2>1. CASE l = m + 1
    BY <1>1, <1>2, <2>1
  <2>2. CASE l # m + 1
    BY <1>1, <2>2 DEF Cuts
  <2>. QED
    BY <2>1, <2>2
<1>6. \A l \in 1 .. m + 1 : V[l] \in Int
  BY <1>3, <1>5 DEF Measures
<1> HIDE DEF kms, V, m, n
<1>7. ASSUME NEW l \in 1 .. m PROVE kms[l] \in Nat /\ V[l + 1] = V[l] + kms[l]
  <2>1. PICK a, b, leg : a = c[l] /\ b = c[l + 1] /\ leg = legs[l]
    OBVIOUS
  <2>2. a \in Cuts(path) /\ b \in Cuts(path) /\ a < b /\ WholeLeg(path, leg, a, b)
    BY <1>1, <2>1
  <2>3. leg.edges = SubSeq(path.edges, a, b - 1) /\ IsSlice(Edge, leg.edges, path.edges, a, b)
        /\ leg.km = TotalKm(leg.edges)
    BY <2>2, LegParts
  <2>4. a \in 1 .. n + 1 /\ b \in a .. n + 1
    BY <2>2 DEF Cuts, n
  <2>5. leg.km = Q[b] - Q[a] /\ Q[a] \in Int /\ Q[b] \in Int
    <3>1. b \in 1 .. n + 1
      BY <2>4, <1>2
    <3>2. TotalKm(SubSeq(path.edges, a, b - 1)) = Q[b] - Q[a]
      BY <1>3, <2>4 DEF Measures
    <3>3. Q[a] \in Int /\ Q[b] \in Int
      BY <1>3, <2>4, <3>1 DEF Measures
    <3>. QED
      BY <2>3, <3>2, <3>3
  <2>6. TotalKm(leg.edges) \in Nat
    <3>1. PICK es : es = leg.edges
      OBVIOUS
    <3>2. es \in Seq(Edge)
      BY <2>3, <3>1 DEF IsSlice
    <3>3. \A e \in Edge : e.km \in Nat
      BY DEF Edge
    <3> DEFINE ks == [j \in DOMAIN es |-> es[j].km]
    <3>4. Len(ks) \in Nat /\ \A j \in 1 .. Len(ks) : ks[j] \in Nat
      BY <3>2, <3>3
    <3>5. TotalKm(es) = Total(ks)
      BY DEF TotalKm
    <3> HIDE DEF ks
    <3>. QED
      BY <3>1, <3>4, <3>5, TotalIsNat
  <2>7. V[l] = Q[a] /\ V[l + 1] = Q[b] /\ kms[l] = leg.km
    <3>1. l \in 1 .. m + 1 /\ l + 1 \in 1 .. m + 1
      BY <1>1
    <3>. QED
      BY <1>4, <1>5, <2>1, <3>1
  <2>. QED
    BY <2>3, <2>5, <2>6, <2>7
<1>8. Follows(V, kms, m)
  BY <1>6, <1>7 DEF Follows
<1>9. Total(kms) = V[m + 1] - V[1]
  BY <1>1, <1>4, <1>8, Telescope
<1>10. V[m + 1] = Q[n + 1] /\ V[1] = Q[1]
  <2>1. 1 \in 1 .. m + 1 /\ m + 1 \in 1 .. m + 1
    BY <1>1
  <2>. QED
    BY <1>1, <1>5, <2>1
<1>11. TotalKm(path.edges) = Q[n + 1] - Q[1]
  BY <1>3 DEF Measures
<1>. QED
  BY <1>4, <1>9, <1>10, <1>11

OnItsLine(legs, l) ==
    /\ \A e \in Range(legs[l].edges) : e.name = legs[l].line /\ EdgeMode(e.kind) = legs[l].mode
    /\ l < Len(legs) => /\ legs[l].to = legs[l + 1].from
                        /\ ~(/\ legs[l + 1].edges[1].name = legs[l].line
                             /\ EdgeMode(legs[l + 1].edges[1].kind) = legs[l].mode)

\* A leg stays on its line, and the next one is another.
LEMMA LegsAreLines ==
    ASSUME NEW path, path.edges \in Seq(Edge), NEW legs, NEW c, Tiled(path, legs, c), NEW l \in 1 .. Len(legs)
    PROVE  OnItsLine(legs, l)
<1>1. /\ Len(legs) \in Nat /\ c[Len(legs) + 1] = Len(path.edges) + 1
      /\ \A k \in 1 .. Len(legs) : /\ c[k] \in Cuts(path) /\ c[k + 1] \in Cuts(path) /\ c[k] < c[k + 1]
                                   /\ WholeLeg(path, legs[k], c[k], c[k + 1])
  BY CutsOf
<1>2. PICK a, b, leg : a = c[l] /\ b = c[l + 1] /\ leg = legs[l]
  OBVIOUS
<1>3. a \in Cuts(path) /\ b \in Cuts(path) /\ a < b /\ WholeLeg(path, leg, a, b)
  BY <1>1, <1>2
<1>4. /\ IsSlice(Edge, leg.edges, path.edges, a, b) /\ leg.to = path.nodes[b]
      /\ leg.line = path.edges[a].name /\ leg.mode = EdgeMode(path.edges[a].kind)
  BY <1>3, LegParts
<1>5. ASSUME NEW e \in Range(leg.edges) PROVE e.name = leg.line /\ EdgeMode(e.kind) = leg.mode
  <2>1. leg.edges \in Seq(Edge) /\ Len(leg.edges) = b - a
    BY <1>4 DEF IsSlice
  <2>2. PICK i \in 1 .. b - a : e = leg.edges[i]
    BY <2>1 DEF Range
  <2>3. e = path.edges[a + i - 1]
    BY <1>4, <2>2 DEF IsSlice
  <2>4. a + i - 1 \in a .. b - 1
    BY <1>3 DEF Cuts
  <2>5. OneLine(path, a, a + i - 1)
    BY <1>3, <2>4 DEF WholeLeg
  <2>. QED
    BY <1>4, <2>3, <2>5 DEF OneLine
<1>6. ASSUME l < Len(legs)
      PROVE  /\ leg.to = legs[l + 1].from
             /\ ~(/\ legs[l + 1].edges[1].name = leg.line /\ EdgeMode(legs[l + 1].edges[1].kind) = leg.mode)
  <2>1. PICK d, next : d = c[(l + 1) + 1] /\ next = legs[l + 1]
    OBVIOUS
  <2>2. l + 1 \in 1 .. Len(legs)
    BY <1>1, <1>6
  <2>3. d \in Cuts(path) /\ b < d /\ WholeLeg(path, next, b, d)
    BY <1>1, <1>2, <2>1, <2>2
  <2>4. IsSlice(Edge, next.edges, path.edges, b, d) /\ next.from = path.nodes[b] /\ d - b >= 1
    BY <1>3, <2>3, LegParts
  <2>5. next.edges[1] = path.edges[b]
    <3>1. 1 \in 1 .. d - b /\ b + 1 - 1 = b
      BY <1>3, <2>3 DEF Cuts
    <3>. QED
      BY <2>4, <3>1 DEF IsSlice
  <2>6. b # Len(path.edges) + 1
    BY <1>3, <2>3 DEF Cuts
  <2>7. BreakHere(path, a, b)
    BY <1>3 DEF WholeLeg
  <2>8. ~OneLine(path, a, b)
    BY <2>6, <2>7 DEF BreakHere, OneLine
  <2>. QED
    BY <1>4, <2>1, <2>4, <2>5, <2>8 DEF OneLine
<1>. QED
  BY <1>2, <1>5, <1>6 DEF OnItsLine

\* A transit itinerary is the path cut into legs, nothing lost or twice, each
\* on one line and the next on another: for any overlay of lines and stops.
THEOREM LegsAreAlwaysTheItinerary == Spec => []LegsAreTheItinerary
<1>1. NetInv => LegsAreTheItinerary
  <2> SUFFICES ASSUME NetInv, phase = "done", query.net = "transit", NEW r \in DOMAIN accepted
               PROVE  LET path == accepted[r]
                          legs == SplitTransitLegs(path)
                          same(e, leg) == e.name = leg.line /\ EdgeMode(e.kind) = leg.mode
                      IN  /\ FlattenSeq([l \in DOMAIN legs |-> legs[l].edges]) = path.edges
                          /\ legs[1].from = query.start /\ Last(legs).to = query.goal
                          /\ \A l \in DOMAIN legs : \A e \in Range(legs[l].edges) : same(e, legs[l])
                          /\ \A l \in 1 .. Len(legs) - 1 : /\ legs[l].to = legs[l + 1].from
                                                           /\ ~same(legs[l + 1].edges[1], legs[l])
                          /\ TotalKm(legs) = path.km
    BY DEF LegsAreTheItinerary
  <2>1. PICK path : path = accepted[r]
    OBVIOUS
  <2>2. PICK legs : legs = SplitTransitLegs(path)
    OBVIOUS
  <2>3. GoodPath(path, query.start, query.goal) /\ query.mode \in Modes
    BY <2>1, AnsweredPath DEF SearchTypes
  <2>4. /\ path.nodes \in Seq(Nodes) /\ Len(path.nodes) >= 1 /\ path.edges \in Seq(Edge)
        /\ Len(path.edges) = Len(path.nodes) - 1 /\ path.km = TotalKm(path.edges)
        /\ path.nodes[1] = query.start /\ path.nodes[Len(path.nodes)] = query.goal
    BY <2>3 DEF GoodPath, IsPath
  <2>5. query.start # query.goal
    BY DEF NetInv, QueryOK, SearchInv, Shape
  <2>6. Len(path.edges) >= 1 /\ Len(path.edges) + 1 = Len(path.nodes)
    BY <2>4, <2>5
  <2>7. PICK c : Tiled(path, legs, c)
    BY <2>2, <2>4, <2>6, LegsTile
  <2>8. /\ Len(legs) \in Nat /\ Len(legs) >= 1 /\ DOMAIN legs = 1 .. Len(legs)
        /\ c[1] = 1 /\ c[Len(legs) + 1] = Len(path.edges) + 1
        /\ \A l \in 1 .. Len(legs) : /\ c[l] \in Cuts(path) /\ c[l + 1] \in Cuts(path)
                                     /\ WholeLeg(path, legs[l], c[l], c[l + 1])
    BY <2>4, <2>7, CutsOf
  <2>9. FlattenSeq([l \in DOMAIN legs |-> legs[l].edges]) = path.edges
    BY <2>4, <2>7, LegsFlatten
  <2>10. TotalKm(legs) = path.km
    BY <2>3, <2>4, <2>7, LegsAddUp
  <2>11. \A l \in 1 .. Len(legs) : legs[l].from = path.nodes[c[l]] /\ legs[l].to = path.nodes[c[l + 1]]
    BY <2>4, <2>8, LegParts
  <2>12. legs[1].from = query.start /\ legs[Len(legs)].to = query.goal
    <3>1. 1 \in 1 .. Len(legs) /\ Len(legs) \in 1 .. Len(legs)
      BY <2>8
    <3>. QED
      BY <2>4, <2>6, <2>8, <2>11, <3>1
  <2>13. Last(legs) = legs[Len(legs)]
    BY DEF Last
  <2>14. ASSUME NEW l \in 1 .. Len(legs) PROVE OnItsLine(legs, l)
    BY <2>4, <2>7, LegsAreLines
  <2>15. \A l \in 1 .. Len(legs) - 1 : l \in 1 .. Len(legs) /\ l < Len(legs)
    BY <2>8
  <2>. QED
    BY <2>1, <2>2, <2>8, <2>9, <2>10, <2>12, <2>13, <2>14, <2>15 DEF OnItsLine
<1>. QED
  BY <1>1, NetAlways, PTL

-----------------------------------------------------------------------------
(* The instructions of a route: single maneuvers. *)

Kinds == {"depart", "arrive", "continue", "turn", "uturn"}

\* A record as ManeuverType makes it.
Modifiers == {ManeuverType(delta).modifier : delta \in Int} \cup {<<"uturn">>, <<"straight">>}

Streets == Label \cup {""}

Maneuvers(n) == [node : 1 .. n, type : Kinds, modifier : Modifiers, street : Streets]

\* ManeuverType calls every sharp change of direction a turn.
LEMMA Turning ==
    ASSUME NEW delta \in Int
    PROVE  /\ Degrees(delta) \in Nat
           /\ ManeuverType(delta).type \in {"continue", "turn", "uturn"}
           /\ Degrees(delta) >= 25 => ManeuverType(delta).type \in {"turn", "uturn"}
           /\ ManeuverType(delta).modifier \in Modifiers
<1>1. PICK d : d = Degrees(delta)
  OBVIOUS
<1>2. d \in Nat
  BY <1>1 DEF Degrees
<1>3. PICK m : m = ManeuverType(delta)
  OBVIOUS
<1>4. CASE d >= 155
  <2>1. m.type = "uturn"
    BY <1>1, <1>2, <1>3, <1>4 DEF ManeuverType
  <2>. QED
    BY <1>1, <1>2, <1>3, <2>1 DEF Modifiers
<1>5. CASE d < 25
  <2>1. m.type = "continue"
    BY <1>1, <1>2, <1>3, <1>5 DEF ManeuverType
  <2>. QED
    BY <1>1, <1>2, <1>3, <1>5, <2>1 DEF Modifiers
<1>6. CASE d >= 25 /\ d < 55
  <2>1. m.type = "turn"
    BY <1>1, <1>2, <1>3, <1>6 DEF ManeuverType
  <2>. QED
    BY <1>1, <1>2, <1>3, <2>1 DEF Modifiers
<1>7. CASE d >= 55 /\ d < 125
  <2>1. m.type = "turn"
    BY <1>1, <1>2, <1>3, <1>7 DEF ManeuverType
  <2>. QED
    BY <1>1, <1>2, <1>3, <2>1 DEF Modifiers
<1>8. CASE d >= 125 /\ d < 155
  <2>1. m.type = "turn"
    BY <1>1, <1>2, <1>3, <1>8 DEF ManeuverType
  <2>. QED
    BY <1>1, <1>2, <1>3, <2>1 DEF Modifiers
<1>. QED
  BY <1>2, <1>4, <1>5, <1>6, <1>7, <1>8

\* A path the instructions are made for.
Walk(path, n) ==
    /\ path.nodes \in Seq(Nodes) /\ Len(path.nodes) = n /\ n >= 1
    /\ path.edges \in Seq(Edge) /\ Len(path.edges) = n - 1

\* A bearing is a number.
LEMMA BearingsAreNumbers ==
    ASSUME NEW a \in Nodes, NEW b \in Nodes
    PROVE  BearingDegrees(a, b) \in Int
<1>1. <<a, b>> \in Nodes \X Nodes
  OBVIOUS
<1>2. Bearing[<<a, b>>] \in 0 .. 359
  BY <1>1, BearingsAreDegrees
<1>3. Bearing[<<a, b>>] \in Int
  BY <1>2
<1>. QED
  BY <1>3, Zenon DEF BearingDegrees

\* The change of direction at a node is a number.
LEMMA Turns ==
    ASSUME NEW path, NEW n \in Nat, Walk(path, n), NEW i \in 2 .. n - 1
    PROVE  Delta(path, i) \in Int
<1>1. path.nodes[i - 1] \in Nodes /\ path.nodes[i] \in Nodes /\ path.nodes[i + 1] \in Nodes
  BY DEF Walk
<1>2. \A a, b \in Nodes : BearingDegrees(a, b) \in Int
  BY BearingsAreNumbers
<1>3. (i - 1) + 1 = i
  OBVIOUS
<1>4. Heading(path, i - 1) \in Int /\ Heading(path, i) \in Int
  BY <1>1, <1>2, <1>3 DEF Heading
<1>5. \A a, b \in Int : TurnAngle(a, b) \in Int
  BY DEF TurnAngle
<1>. QED
  BY <1>4, <1>5 DEF Delta

\* So is the change over a chain of ramps.
LEMMA ChainTurns ==
    ASSUME NEW path, NEW n \in Nat, Walk(path, n), NEW i \in 2 .. n - 1, NEW j \in i .. n
    PROVE  ChainDelta(path, i, j) \in Int
<1>1. path.nodes[i - 1] \in Nodes /\ path.nodes[i] \in Nodes /\ path.nodes[j] \in Nodes
      /\ (j < n => path.nodes[j + 1] \in Nodes)
  BY DEF Walk
<1>2. \A a, b \in Nodes : BearingDegrees(a, b) \in Int
  BY BearingsAreNumbers
<1>3. (i - 1) + 1 = i
  OBVIOUS
<1>4. Heading(path, i - 1) \in Int /\ (j < n => Heading(path, j) \in Int)
      /\ BearingDegrees(path.nodes[i], path.nodes[j]) \in Int
  BY <1>1, <1>2, <1>3 DEF Heading
<1>5. \A a, b \in Int : TurnAngle(a, b) \in Int
  BY DEF TurnAngle
<1>6. Len(path.nodes) = n
  BY DEF Walk
<1>. QED
  BY <1>4, <1>5, <1>6 DEF ChainDelta

\* The street a maneuver names is a label, or none.
LEMMA StreetsAreLabels ==
    ASSUME NEW path, NEW n \in Nat, Walk(path, n), NEW i
    PROVE  StreetName(path, i) \in Streets
<1>1. CASE i \in DOMAIN path.edges
  <2>1. path.edges[i] \in Edge
    BY <1>1 DEF Walk
  <2>2. path.edges[i].name \in Label
    BY <2>1 DEF Edge
  <2>. QED
    BY <1>1, <2>2 DEF StreetName, Streets
<1>2. CASE i \notin DOMAIN path.edges
  BY <1>2 DEF StreetName, Streets
<1>. QED
  BY <1>1, <1>2

\* What a maneuver is made of.
LEMMA ManeuverTypes ==
    ASSUME NEW n, NEW i \in 1 .. n, NEW m, m.type \in Kinds, m.modifier \in Modifiers, NEW street \in Streets
    PROVE  /\ Maneuver(i, m, street) \in Maneuvers(n)
           /\ Maneuver(i, m, street).node = i /\ Maneuver(i, m, street).type = m.type
  BY DEF Maneuver, Maneuvers

\* The ramps that begin with edge i end at node j.
LEMMA ChainEnds ==
    ASSUME NEW path, NEW n \in Nat, Walk(path, n), NEW i \in 2 .. n - 1,
           NEW j, j = UnnamedLinkChain(path, i)
    PROVE  /\ j \in i .. n /\ \A p \in i .. j - 1 : IsUnnamedLink(path.edges[p])
           /\ j = i => ~IsUnnamedLink(path.edges[i])
<1> DEFINE S == {k \in i .. Len(path.nodes) : k \in DOMAIN path.edges => ~IsUnnamedLink(path.edges[k])}
<1>1. Len(path.nodes) = n /\ DOMAIN path.edges = 1 .. n - 1
  BY DEF Walk
<1>2. n \in S /\ S \in SUBSET Nat /\ S # {} /\ S \in SUBSET Int
  <2>1. n \in i .. n /\ n \notin 1 .. n - 1
    OBVIOUS
  <2>2. n \in S
    BY <1>1, <2>1
  <2>3. S \subseteq i .. n
    BY <1>1
  <2> HIDE DEF S
  <2>. QED
    BY <2>2, <2>3
<1>3. j = Min(S)
  BY DEF UnnamedLinkChain
<1>4. \A k \in i .. n : k \notin S => IsUnnamedLink(path.edges[k]) /\ k \in 1 .. n - 1
  BY <1>1
<1>5. \A k \in S : k \in i .. n /\ (k \in 1 .. n - 1 => ~IsUnnamedLink(path.edges[k]))
  BY <1>1
<1> HIDE DEF S
<1>6. PICK k \in S : \A x \in S : k <= x
  BY <1>2, Smallest
<1>7. j = k
  BY <1>2, <1>3, <1>6, MinIs
<1>8. j \in S /\ j \in i .. n /\ \A x \in S : j <= x
  BY <1>5, <1>6, <1>7
<1>9. ASSUME NEW p \in i .. j - 1 PROVE IsUnnamedLink(path.edges[p])
  <2>1. p \in i .. n /\ p < j
    BY <1>8
  <2>2. p \notin S
    BY <1>8, <2>1
  <2>. QED
    BY <1>4, <2>1, <2>2
<1>. QED
  BY <1>5, <1>8, <1>9

InnerStep(x, path, i) == IF i = Len(path.nodes) THEN x ELSE AtNode(path, x, i)

InnerBody(f, path, n) == [i \in 1 .. n |-> IF i = 1 THEN [next |-> 2, out |-> <<>>] ELSE InnerStep(f[i - 1], path, i)]

InnerLoop(path, n) == CHOOSE f : f = InnerBody(f, path, n)

\* The loop of InnerManeuvers.
LEMMA InnerRuns ==
    ASSUME NEW path, NEW n \in Nat, 1 <= n
    PROVE  LET f == InnerLoop(path, n)
           IN  /\ f[1] = [next |-> 2, out |-> <<>>]
               /\ \A i \in 1 .. n : i > 1 => f[i] = InnerStep(f[i - 1], path, i)
<1> DEFINE S == {k \in Nat : \E f : f = InnerBody(f, path, k)}
<1>1. 1 \in S
  <2> DEFINE h == [i \in 1 .. 1 |-> [next |-> 2, out |-> <<>>]]
  <2>1. h = InnerBody(h, path, 1)
    BY DEF InnerBody
  <2>. QED
    BY <2>1
<1>2. ASSUME NEW k \in 1 .. n, k > 1, k - 1 \in S PROVE k \in S
  <2>1. PICK was : was = InnerBody(was, path, k - 1)
    BY <1>2
  <2> DEFINE h == [i \in 1 .. k |-> IF i = k THEN InnerStep(was[k - 1], path, k) ELSE was[i]]
  <2>2. \A i \in 1 .. k - 1 : h[i] = was[i] /\ was[i] = IF i = 1 THEN [next |-> 2, out |-> <<>>] ELSE InnerStep(was[i - 1], path, i)
    BY <2>1 DEF InnerBody
  <2>3. h[k] = InnerStep(was[k - 1], path, k) /\ h[k - 1] = was[k - 1]
    BY <1>2
  <2>4. ASSUME NEW i \in 1 .. k PROVE h[i] = IF i = 1 THEN [next |-> 2, out |-> <<>>] ELSE InnerStep(h[i - 1], path, i)
    <3> HIDE DEF h
    <3>1. CASE i = k
      BY <3>1, <1>2, <2>3
    <3>2. CASE i = 1
      BY <3>2, <1>2, <2>2
    <3>3. CASE i # k /\ i # 1
      <4>1. i \in 1 .. k - 1 /\ i - 1 \in 1 .. k - 1
        BY <3>3, <1>2
      <4>. QED
        BY <3>3, <4>1, <2>2
    <3>. QED
      BY <3>1, <3>2, <3>3
  <2>5. h = InnerBody(h, path, k)
    BY <2>4 DEF InnerBody
  <2>6. k \in Nat
    OBVIOUS
  <2>. QED
    BY <2>5, <2>6
<1>3. n \in S
  <2> HIDE DEF S
  <2>. QED
    BY <1>1, <1>2, UpTo
<1> DEFINE f == InnerLoop(path, n)
<1>4. f = InnerBody(f, path, n)
  BY <1>3 DEF InnerLoop
<1> HIDE DEF f
<1>5. f[1] = [next |-> 2, out |-> <<>>] /\ \A i \in 1 .. n : i > 1 => f[i] = InnerStep(f[i - 1], path, i)
  BY <1>4 DEF InnerBody
<1>. QED
  BY <1>5 DEF f

\* A turn into a street, and its maneuver.
TurnsOff(path, i) == Degrees(Delta(path, i)) >= 25 /\ ~IsUnnamedLink(path.edges[i])

Announced(ms, i) == \E k \in DOMAIN ms : ms[k].node = i /\ ms[k].type \in {"turn", "uturn"}

\* Neighbours are at least d nodes apart.
Spaced(ms, d) == \A k \in 1 .. Len(ms) - 1 : ms[k].node + d <= ms[k + 1].node

NodesIn(ms, S) == \A k \in 1 .. Len(ms) : ms[k].node \in S

\* What a list is after an Append.
LEMMA AppendParts ==
    ASSUME NEW S, NEW s \in Seq(S), NEW x \in S
    PROVE  /\ Append(s, x) \in Seq(S) /\ Len(Append(s, x)) = Len(s) + 1 /\ Append(s, x)[Len(s) + 1] = x
           /\ \A k \in 1 .. Len(s) : Append(s, x)[k] = s[k]
           /\ DOMAIN Append(s, x) = 1 .. Len(s) + 1 /\ DOMAIN s = 1 .. Len(s)
           /\ Len(s) \in Nat /\ (Len(s) # 0 <=> s # <<>>)
           /\ s \o <<x>> = Append(s, x)
  OBVIOUS

\* The list ms, and m behind it.
IsNext(new, ms, m, n, d) ==
    /\ new \in Seq(Maneuvers(n)) /\ Spaced(new, d) /\ Len(new) = Len(ms) + 1 /\ new[Len(new)] = m
    /\ \A k \in 1 .. Len(ms) : new[k] = ms[k]
    /\ \A i : Announced(ms, i) => Announced(new, i)
    /\ m.type \in {"turn", "uturn"} => Announced(new, m.node)

\* A maneuver far enough behind the last one extends the list.
LEMMA NextManeuver ==
    ASSUME NEW n \in Nat, NEW ms \in Seq(Maneuvers(n)), NEW m \in Maneuvers(n), NEW d \in Nat, Spaced(ms, d),
           NEW new, new = Append(ms, m), ms # <<>> => ms[Len(ms)].node + d <= m.node
    PROVE  IsNext(new, ms, m, n, d)
<1> DEFINE k0 == Len(ms)
<1>1. /\ new \in Seq(Maneuvers(n)) /\ Len(new) = k0 + 1 /\ k0 \in Nat /\ new[k0 + 1] = m
      /\ \A k \in 1 .. k0 : new[k] = ms[k]
      /\ DOMAIN new = 1 .. k0 + 1 /\ DOMAIN ms = 1 .. k0 /\ (k0 # 0 => ms # <<>>)
  BY AppendParts
<1> HIDE DEF k0
<1>2. ASSUME NEW k \in 1 .. Len(new) - 1 PROVE new[k].node + d <= new[k + 1].node
  <2>1. CASE k = k0
    <3>1. new[k] = ms[k0] /\ new[k + 1] = m /\ ms # <<>>
      BY <1>1, <2>1
    <3>. QED
      BY <3>1 DEF k0
  <2>2. CASE k # k0
    <3>1. k \in 1 .. k0 - 1 /\ k \in 1 .. k0 /\ k + 1 \in 1 .. k0
      BY <1>1, <2>2
    <3>2. ms[k].node + d <= ms[k + 1].node
      BY <3>1 DEF Spaced, k0
    <3>. QED
      BY <1>1, <3>1, <3>2
  <2>. QED
    BY <2>1, <2>2
<1>3. Spaced(new, d)
  BY <1>2 DEF Spaced
<1>4. ASSUME NEW i, Announced(ms, i) PROVE Announced(new, i)
  <2>1. PICK k \in 1 .. k0 : ms[k].node = i /\ ms[k].type \in {"turn", "uturn"}
    BY <1>1, <1>4 DEF Announced
  <2>2. k \in 1 .. k0 + 1 /\ new[k] = ms[k]
    BY <1>1, <2>1
  <2>. QED
    BY <1>1, <2>1, <2>2 DEF Announced
<1>5. ASSUME m.type \in {"turn", "uturn"} PROVE Announced(new, m.node)
  <2>1. k0 + 1 \in DOMAIN new
    BY <1>1
  <2>. QED
    BY <1>1, <1>5, <2>1 DEF Announced
<1>. QED
  BY <1>1, <1>3, <1>4, <1>5 DEF k0, IsNext

\* At most one maneuver for node i follows those of the nodes before it.
LEMMA NextManeuvers ==
    ASSUME NEW n \in Nat, NEW i \in 2 .. n, NEW out \in Seq(Maneuvers(n)), Spaced(out, 1),
           NodesIn(out, 2 .. i - 1), NEW more,
           more = <<>> \/ \E m \in Maneuvers(n) : more = <<m>> /\ m.node = i
    PROVE  /\ out \o more \in Seq(Maneuvers(n)) /\ Spaced(out \o more, 1) /\ NodesIn(out \o more, 2 .. i)
           /\ \A p : Announced(out, p) => Announced(out \o more, p)
           /\ \A m \in Maneuvers(n) : more = <<m>> /\ m.node = i /\ m.type \in {"turn", "uturn"} => Announced(out \o more, i)
<1>1. CASE more = <<>>
  <2>1. out \o more = out
    <3> HIDE DEF Maneuvers
    <3>. QED
      BY <1>1
  <2>2. \A m \in Maneuvers(n) : more # <<m>>
    BY <1>1
  <2>3. NodesIn(out, 2 .. i)
    <3>1. \A x \in 2 .. i - 1 : x \in 2 .. i
      OBVIOUS
    <3>. QED
      BY <3>1 DEF NodesIn
  <2>. QED
    BY <2>1, <2>2, <2>3
<1>2. ASSUME NEW m \in Maneuvers(n), more = <<m>>, m.node = i
      PROVE  /\ out \o more \in Seq(Maneuvers(n)) /\ Spaced(out \o more, 1) /\ NodesIn(out \o more, 2 .. i)
             /\ \A p : Announced(out, p) => Announced(out \o more, p)
             /\ m.type \in {"turn", "uturn"} => Announced(out \o more, i)
  <2>1. PICK new : new = Append(out, m)
    OBVIOUS
  <2>2. out \o more = new
    <3> HIDE DEF Maneuvers
    <3>. QED
      BY <1>2, <2>1
  <2>3. ASSUME out # <<>> PROVE out[Len(out)].node + 1 <= m.node
    <3>1. Len(out) \in 1 .. Len(out)
      BY <2>3
    <3>2. out[Len(out)].node \in 2 .. i - 1
      BY <3>1 DEF NodesIn
    <3>. QED
      BY <1>2, <3>2
  <2>4. /\ new \in Seq(Maneuvers(n)) /\ Spaced(new, 1) /\ Len(new) = Len(out) + 1 /\ new[Len(new)] = m
        /\ \A k \in 1 .. Len(out) : new[k] = out[k]
        /\ \A p : Announced(out, p) => Announced(new, p)
        /\ m.type \in {"turn", "uturn"} => Announced(new, m.node)
    <3>1. IsNext(new, out, m, n, 1)
      BY <2>1, <2>3, NextManeuver
    <3>. QED
      BY <3>1 DEF IsNext
  <2>5. NodesIn(new, 2 .. i)
    <3> SUFFICES ASSUME NEW k \in 1 .. Len(new) PROVE new[k].node \in 2 .. i
      BY DEF NodesIn
    <3>0. Len(out) \in Nat
      OBVIOUS
    <3>1. CASE k = Len(new)
      BY <1>2, <2>4, <3>1
    <3>2. CASE k # Len(new)
      <4>1. k \in 1 .. Len(out)
        BY <2>4, <3>0, <3>2
      <4>2. new[k].node \in 2 .. i - 1
        BY <2>4, <4>1 DEF NodesIn
      <4>. QED
        BY <4>2
    <3>. QED
      BY <3>1, <3>2
  <2>. QED
    BY <1>2, <2>2, <2>4, <2>5
<1>3. \A m, o : <<m>> = <<o>> => m = o
  OBVIOUS
<1>. QED
  BY <1>1, <1>2, <1>3

\* The maneuver of a turn, and the one of a chain of ramps.
LEMMA TurnManeuvers ==
    ASSUME NEW path, NEW n \in Nat, Walk(path, n), NEW i \in 2 .. n - 1
    PROVE  \/ TurnManeuver(path, i) = <<>> /\ ~TurnsOff(path, i)
           \/ \E m \in Maneuvers(n) : /\ TurnManeuver(path, i) = <<m>> /\ m.node = i
                                      /\ TurnsOff(path, i) => m.type \in {"turn", "uturn"}
<1>1. PICK delta, t, street : delta = Delta(path, i) /\ t = ManeuverType(delta) /\ street = StreetName(path, i)
  OBVIOUS
<1>2. delta \in Int /\ street \in Streets /\ i \in 1 .. n
  <2>1. delta \in Int
    BY <1>1, Turns
  <2>2. street \in Streets
    BY <1>1, StreetsAreLabels
  <2>. QED
    BY <2>1, <2>2
<1>3. /\ Degrees(delta) \in Nat /\ t.type \in {"continue", "turn", "uturn"} /\ t.modifier \in Modifiers
      /\ Degrees(delta) >= 25 => t.type \in {"turn", "uturn"}
  BY <1>1, <1>2, Turning
<1>4. t.type \in Kinds /\ t.modifier \in Modifiers
  BY <1>3 DEF Kinds
<1>5. PICK m : m = Maneuver(i, t, street)
  OBVIOUS
<1>6. m \in Maneuvers(n) /\ m.node = i /\ m.type = t.type
  <2>1. m \in Maneuvers(n)
    BY <1>2, <1>4, <1>5 DEF Maneuver, Maneuvers
  <2>. QED
    BY <1>5, <2>1 DEF Maneuver
<1>7. \/ TurnManeuver(path, i) = <<m>>
      \/ TurnManeuver(path, i) = <<>> /\ Degrees(delta) < 25
  BY <1>1, <1>5 DEF TurnManeuver
<1>8. TurnsOff(path, i) => Degrees(delta) >= 25
  BY <1>1 DEF TurnsOff
<1>. QED
  BY <1>3, <1>6, <1>7, <1>8

\* A chain of ramps has at most one maneuver, at its first node.
LEMMA ChainManeuvers ==
    ASSUME NEW path, NEW n \in Nat, Walk(path, n), NEW i \in 2 .. n - 1, NEW j \in i .. n
    PROVE  \/ ChainManeuver(path, i, j) = <<>>
           \/ \E m \in Maneuvers(n) : ChainManeuver(path, i, j) = <<m>> /\ m.node = i
<1>1. PICK delta, t, street, u : /\ delta = ChainDelta(path, i, j) /\ t = ManeuverType(delta)
                                 /\ street = StreetName(path, j)
                                 /\ u = [type |-> "uturn", modifier |-> <<"uturn">>]
  OBVIOUS
<1>2. delta \in Int /\ street \in Streets /\ i \in 1 .. n
  <2>1. delta \in Int
    BY <1>1, ChainTurns
  <2>2. street \in Streets
    BY <1>1, StreetsAreLabels
  <2>. QED
    BY <2>1, <2>2
<1>3. t.type \in Kinds /\ t.modifier \in Modifiers
  <2>1. t.type \in {"continue", "turn", "uturn"} /\ t.modifier \in Modifiers
    BY <1>1, <1>2, Turning
  <2>. QED
    BY <2>1 DEF Kinds
<1>4. u.type \in Kinds /\ u.modifier \in Modifiers
  BY <1>1 DEF Kinds, Modifiers
<1>5. PICK m, o : m = Maneuver(i, t, street) /\ o = Maneuver(i, u, street)
  OBVIOUS
<1>6. m \in Maneuvers(n) /\ m.node = i /\ o \in Maneuvers(n) /\ o.node = i
  <2>1. m \in Maneuvers(n) /\ m.node = i
    BY <1>2, <1>3, <1>5 DEF Maneuver, Maneuvers
  <2>2. o \in Maneuvers(n) /\ o.node = i
    BY <1>2, <1>4, <1>5 DEF Maneuver, Maneuvers
  <2>. QED
    BY <2>1, <2>2
<1>7. ChainManeuver(path, i, j) \in {<<>>, <<m>>, <<o>>}
  BY <1>1, <1>5 DEF ChainManeuver
<1>. QED
  BY <1>6, <1>7

-----------------------------------------------------------------------------
(* The loops over the nodes of a path and over its maneuvers. *)

\* The loop behind node i: what is announced, and ramps up to where it goes on.
OnTrack(path, acc, i, n) ==
    /\ acc.out \in Seq(Maneuvers(n)) /\ Spaced(acc.out, 1) /\ NodesIn(acc.out, 2 .. i)
    /\ acc.next \in Nat /\ acc.next > i
    /\ \A p \in i + 1 .. acc.next - 1 : p <= n - 1 => IsUnnamedLink(path.edges[p])
    /\ \A p \in 2 .. i : TurnsOff(path, p) => Announced(acc.out, p)

\* One turn of the loop over the inner nodes.
LEMMA AtNodeKeeps ==
    ASSUME NEW path, NEW n \in Nat, Walk(path, n), NEW i \in 2 .. n - 1, NEW acc, OnTrack(path, acc, i - 1, n)
    PROVE  OnTrack(path, AtNode(path, acc, i), i, n)
<1>0. /\ acc.out \in Seq(Maneuvers(n)) /\ Spaced(acc.out, 1) /\ NodesIn(acc.out, 2 .. i - 1)
      /\ acc.next \in Nat /\ acc.next > i - 1
      /\ \A p \in i .. acc.next - 1 : p <= n - 1 => IsUnnamedLink(path.edges[p])
      /\ \A p \in 2 .. i - 1 : TurnsOff(path, p) => Announced(acc.out, p)
  BY DEF OnTrack
<1>1. PICK j, new : j = UnnamedLinkChain(path, i) /\ new = AtNode(path, acc, i)
  OBVIOUS
<1>2. /\ j \in i .. n /\ \A p \in i .. j - 1 : IsUnnamedLink(path.edges[p])
      /\ j = i => ~IsUnnamedLink(path.edges[i])
  BY <1>1, ChainEnds
<1>3. CASE i < acc.next
  <2>1. new = acc
    BY <1>1, <1>3 DEF AtNode
  <2>2. ~TurnsOff(path, i)
    <3>1. i \in i .. acc.next - 1 /\ i <= n - 1
      BY <1>0, <1>3
    <3>. QED
      BY <1>0, <3>1 DEF TurnsOff
  <2>3. \A p \in 2 .. i : TurnsOff(path, p) => Announced(acc.out, p)
    BY <1>0, <2>2
  <2>4. NodesIn(acc.out, 2 .. i)
    <3>1. \A x \in 2 .. i - 1 : x \in 2 .. i
      OBVIOUS
    <3>. QED
      BY <1>0, <3>1 DEF NodesIn
  <2>5. \A p \in i + 1 .. acc.next - 1 : p <= n - 1 => IsUnnamedLink(path.edges[p])
    BY <1>0
  <2>. QED
    BY <1>0, <1>1, <1>3, <2>1, <2>3, <2>4, <2>5 DEF OnTrack
<1>4. CASE ~(i < acc.next) /\ j > i
  <2>1. PICK more : more = ChainManeuver(path, i, j)
    OBVIOUS
  <2>2. new.next = j /\ new.out = acc.out \o more
    BY <1>1, <1>4, <2>1 DEF AtNode
  <2>3. more = <<>> \/ \E m \in Maneuvers(n) : more = <<m>> /\ m.node = i
    BY <1>2, <2>1, ChainManeuvers
  <2>4. /\ new.out \in Seq(Maneuvers(n)) /\ Spaced(new.out, 1) /\ NodesIn(new.out, 2 .. i)
        /\ \A p : Announced(acc.out, p) => Announced(new.out, p)
    <3>1. i \in 2 .. n
      OBVIOUS
    <3>. QED
      BY <1>0, <2>2, <2>3, <3>1, NextManeuvers
  <2>5. ~TurnsOff(path, i)
    <3>1. i \in i .. j - 1
      BY <1>2, <1>4
    <3>. QED
      BY <1>2, <3>1 DEF TurnsOff
  <2>6. \A p \in 2 .. i : TurnsOff(path, p) => Announced(new.out, p)
    BY <1>0, <2>4, <2>5
  <2>7. \A p \in i + 1 .. j - 1 : p <= n - 1 => IsUnnamedLink(path.edges[p])
    BY <1>2
  <2>8. j \in Nat /\ j > i
    BY <1>2, <1>4
  <2>. QED
    BY <1>1, <2>2, <2>4, <2>6, <2>7, <2>8 DEF OnTrack
<1>5. CASE ~(i < acc.next) /\ ~(j > i)
  <2>1. PICK more : more = TurnManeuver(path, i)
    OBVIOUS
  <2>2. new.next = i + 1 /\ new.out = acc.out \o more
    BY <1>1, <1>5, <2>1 DEF AtNode
  <2>3. \/ more = <<>> /\ ~TurnsOff(path, i)
        \/ \E m \in Maneuvers(n) : more = <<m>> /\ m.node = i /\ (TurnsOff(path, i) => m.type \in {"turn", "uturn"})
    BY <2>1, TurnManeuvers
  <2>4. /\ new.out \in Seq(Maneuvers(n)) /\ Spaced(new.out, 1) /\ NodesIn(new.out, 2 .. i)
        /\ \A p : Announced(acc.out, p) => Announced(new.out, p)
        /\ \A m \in Maneuvers(n) : more = <<m>> /\ m.node = i /\ m.type \in {"turn", "uturn"} => Announced(new.out, i)
    <3>1. i \in 2 .. n
      OBVIOUS
    <3>2. more = <<>> \/ \E m \in Maneuvers(n) : more = <<m>> /\ m.node = i
      BY <2>3
    <3>. QED
      BY <1>0, <2>2, <3>1, <3>2, NextManeuvers
  <2>5. TurnsOff(path, i) => Announced(new.out, i)
    BY <2>3, <2>4
  <2>6. \A p \in 2 .. i : TurnsOff(path, p) => Announced(new.out, p)
    BY <1>0, <2>4, <2>5
  <2>. QED
    BY <1>1, <2>2, <2>4, <2>6 DEF OnTrack
<1>. QED
  BY <1>3, <1>4, <1>5

\* The maneuvers of the inner nodes, in their order and none of them missing.
LEMMA InnerManeuversFollow ==
    ASSUME NEW path, NEW n \in Nat, Walk(path, n)
    PROVE  LET out == InnerManeuvers(path)
           IN  /\ out \in Seq(Maneuvers(n)) /\ Spaced(out, 1) /\ NodesIn(out, 2 .. n - 1)
               /\ \A p \in 2 .. n - 1 : TurnsOff(path, p) => Announced(out, p)
<1> DEFINE f == InnerLoop(path, n)
           S == {i \in 1 .. n : i < n => OnTrack(path, f[i], i, n)}
<1>0. n >= 1 /\ Len(path.nodes) = n
  BY DEF Walk
<1>1. InnerManeuvers(path) = f[n].out
  BY <1>0 DEF InnerManeuvers, InnerLoop, InnerBody, InnerStep
<1>2. f[1] = [next |-> 2, out |-> <<>>] /\ \A i \in 1 .. n : i > 1 => f[i] = InnerStep(f[i - 1], path, i)
  BY <1>0, InnerRuns
<1> HIDE DEF f
<1>3. OnTrack(path, f[1], 1, n)
  <2>1. f[1].next = 2 /\ f[1].out = <<>>
    BY <1>2
  <2>2. <<>> \in Seq(Maneuvers(n)) /\ Len(<<>>) = 0
    OBVIOUS
  <2>3. Spaced(<<>>, 1) /\ NodesIn(<<>>, 2 .. 1)
    BY <2>2 DEF Spaced, NodesIn
  <2>. QED
    BY <2>1, <2>2, <2>3 DEF OnTrack
<1>4. ASSUME NEW i \in 1 .. n, i > 1, i - 1 \in S PROVE i \in S
  <2> SUFFICES ASSUME i < n PROVE OnTrack(path, f[i], i, n)
    OBVIOUS
  <2>1. OnTrack(path, f[i - 1], i - 1, n) /\ i \in 2 .. n - 1
    BY <1>4
  <2>2. f[i] = AtNode(path, f[i - 1], i)
    BY <1>0, <1>2, <1>4 DEF InnerStep
  <2>. QED
    BY <2>1, <2>2, AtNodeKeeps
<1>5. \A i \in 1 .. n : i \in S
  <2>1. 1 \in S
    BY <1>0, <1>3
  <2> HIDE DEF S
  <2>. QED
    BY <1>0, <1>4, <2>1, UpTo
<1>6. CASE n = 1
  <2>1. InnerManeuvers(path) = <<>>
    BY <1>1, <1>2, <1>6
  <2>2. <<>> \in Seq(Maneuvers(n)) /\ Len(<<>>) = 0
    OBVIOUS
  <2>3. Spaced(<<>>, 1) /\ NodesIn(<<>>, 2 .. n - 1)
    BY <2>2 DEF Spaced, NodesIn
  <2>. QED
    BY <1>6, <2>1, <2>2, <2>3
<1>7. CASE n > 1
  <2>1. n \in 1 .. n /\ n - 1 \in 1 .. n /\ n - 1 < n
    BY <1>7
  <2>2. f[n] = f[n - 1]
    BY <1>0, <1>2, <1>7, <2>1 DEF InnerStep
  <2>3. OnTrack(path, f[n], n - 1, n)
    BY <1>5, <2>1, <2>2
  <2>. QED
    BY <1>1, <2>3 DEF OnTrack
<1>. QED
  BY <1>0, <1>6, <1>7

CollapseStep(x, ms, i) == Collapse(x, ms[i])

CollapseBody(f, ms, n) == [i \in 0 .. n |-> IF i = 0 THEN <<>> ELSE CollapseStep(f[i - 1], ms, i)]

CollapseLoop(ms, n) == CHOOSE f : f = CollapseBody(f, ms, n)

\* The loop of CollapseContinues.
LEMMA CollapseRuns ==
    ASSUME NEW ms, NEW n \in Nat, 0 <= n
    PROVE  LET f == CollapseLoop(ms, n)
           IN  /\ f[0] = <<>>
               /\ \A i \in 0 .. n : i > 0 => f[i] = CollapseStep(f[i - 1], ms, i)
<1> DEFINE S == {k \in Nat : \E f : f = CollapseBody(f, ms, k)}
<1>1. 0 \in S
  <2> DEFINE h == [i \in 0 .. 0 |-> <<>>]
  <2>1. h = CollapseBody(h, ms, 0)
    BY DEF CollapseBody
  <2>. QED
    BY <2>1
<1>2. ASSUME NEW k \in 0 .. n, k > 0, k - 1 \in S PROVE k \in S
  <2>1. PICK was : was = CollapseBody(was, ms, k - 1)
    BY <1>2
  <2> DEFINE h == [i \in 0 .. k |-> IF i = k THEN CollapseStep(was[k - 1], ms, k) ELSE was[i]]
  <2>2. \A i \in 0 .. k - 1 : h[i] = was[i] /\ was[i] = IF i = 0 THEN <<>> ELSE CollapseStep(was[i - 1], ms, i)
    BY <2>1 DEF CollapseBody
  <2>3. h[k] = CollapseStep(was[k - 1], ms, k) /\ h[k - 1] = was[k - 1]
    BY <1>2
  <2>4. ASSUME NEW i \in 0 .. k PROVE h[i] = IF i = 0 THEN <<>> ELSE CollapseStep(h[i - 1], ms, i)
    <3> HIDE DEF h
    <3>1. CASE i = k
      BY <3>1, <1>2, <2>3
    <3>2. CASE i = 0
      BY <3>2, <1>2, <2>2
    <3>3. CASE i # k /\ i # 0
      <4>1. i \in 0 .. k - 1 /\ i - 1 \in 0 .. k - 1
        BY <3>3, <1>2
      <4>. QED
        BY <3>3, <4>1, <2>2
    <3>. QED
      BY <3>1, <3>2, <3>3
  <2>5. h = CollapseBody(h, ms, k)
    BY <2>4 DEF CollapseBody
  <2>6. k \in Nat
    OBVIOUS
  <2>. QED
    BY <2>5, <2>6
<1>3. n \in S
  <2> HIDE DEF S
  <2>. QED
    BY <1>1, <1>2, UpTo
<1> DEFINE f == CollapseLoop(ms, n)
<1>4. f = CollapseBody(f, ms, n)
  BY <1>3 DEF CollapseLoop
<1> HIDE DEF f
<1>5. f[0] = <<>> /\ \A i \in 0 .. n : i > 0 => f[i] = CollapseStep(f[i - 1], ms, i)
  BY <1>4 DEF CollapseBody
<1>. QED
  BY <1>5 DEF f

\* What collapsing keeps of the first i maneuvers.
Collapsed(out, ms, i, d, n) ==
    /\ out \in Seq(Maneuvers(n)) /\ Spaced(out, d) /\ out # <<>> /\ out[1] = ms[1]
    /\ out[Len(out)].node <= ms[i].node
    /\ ms[i].type # "continue" => out[Len(out)] = ms[i]
    /\ \A k \in 1 .. i : ms[k].type \in {"turn", "uturn"} => Announced(out, ms[k].node)

\* One turn of the loop that collapses maneuvers.
LEMMA CollapseKeeps ==
    ASSUME NEW n \in Nat, NEW d \in Nat, NEW ms \in Seq(Maneuvers(n)), Spaced(ms, d), NEW i \in 2 .. Len(ms),
           NEW out, Collapsed(out, ms, i - 1, d, n)
    PROVE  Collapsed(Collapse(out, ms[i]), ms, i, d, n)
<1>1. /\ out \in Seq(Maneuvers(n)) /\ Spaced(out, d) /\ out # <<>> /\ out[1] = ms[1]
      /\ out[Len(out)].node <= ms[i - 1].node
      /\ \A k \in 1 .. i - 1 : ms[k].type \in {"turn", "uturn"} => Announced(out, ms[k].node)
  BY DEF Collapsed
<1>2. PICK m, l, o, new : m = ms[i] /\ l = Len(out) /\ o = out[l] /\ new = Collapse(out, m)
  OBVIOUS
<1>3. m \in Maneuvers(n) /\ ms[i - 1] \in Maneuvers(n)
  BY <1>2
<1>4. l \in Nat /\ l >= 1 /\ l \in 1 .. l /\ 1 \in 1 .. l
  BY <1>1, <1>2
<1>5. o \in Maneuvers(n)
  BY <1>1, <1>2, <1>4
<1>6. /\ m.node \in Nat /\ o.node \in Nat /\ ms[i - 1].node \in Nat
  BY <1>3, <1>5 DEF Maneuvers
<1>7. ms[i - 1].node + d <= m.node
  <2>1. i - 1 \in 1 .. Len(ms) - 1 /\ (i - 1) + 1 = i
    OBVIOUS
  <2>. QED
    BY <1>2, <2>1 DEF Spaced
<1>8. o.node + d <= m.node
  BY <1>1, <1>2, <1>6, <1>7
<1>9. (new = out /\ m.type = "continue") \/ new = Append(out, m)
  BY <1>2 DEF Collapse
<1>10. CASE new = out /\ m.type = "continue"
  <2>1. \A k \in 1 .. i : ms[k].type \in {"turn", "uturn"} => Announced(out, ms[k].node)
    BY <1>1, <1>2, <1>10
  <2>2. out[Len(out)].node <= ms[i].node
    BY <1>2, <1>6, <1>8
  <2>. QED
    BY <1>1, <1>2, <1>10, <2>1, <2>2 DEF Collapsed
<1>11. CASE new = Append(out, m)
  <2>1. IsNext(new, out, m, n, d)
    BY <1>1, <1>2, <1>3, <1>8, <1>11, NextManeuver
  <2>2. /\ new \in Seq(Maneuvers(n)) /\ Spaced(new, d) /\ Len(new) = l + 1 /\ new[Len(new)] = m
        /\ new[1] = out[1]
        /\ \A p : Announced(out, p) => Announced(new, p)
        /\ m.type \in {"turn", "uturn"} => Announced(new, m.node)
    BY <1>2, <1>4, <2>1 DEF IsNext
  <2>3. \A k \in 1 .. i : ms[k].type \in {"turn", "uturn"} => Announced(new, ms[k].node)
    BY <1>1, <1>2, <2>2
  <2>4. new # <<>>
    <3>1. Len(new) # 0
      BY <1>4, <2>2
    <3>2. Len(<<>>) = 0
      OBVIOUS
    <3>. QED
      BY <3>1, <3>2
  <2>5. new[Len(new)].node <= ms[i].node
    BY <1>2, <1>6, <2>2
  <2>. QED
    BY <1>1, <1>2, <2>2, <2>3, <2>4, <2>5 DEF Collapsed
<1>. QED
  BY <1>2, <1>9, <1>10, <1>11

\* Collapsing keeps departure, arrival, order and every turn.
LEMMA CollapseFollows ==
    ASSUME NEW n \in Nat, NEW d \in Nat, NEW ms \in Seq(Maneuvers(n)), Spaced(ms, d), NEW l \in Nat, l = Len(ms),
           l >= 1
    PROVE  Collapsed(CollapseContinues(ms), ms, l, d, n)
<1> DEFINE f == CollapseLoop(ms, l)
           S == {i \in 1 .. l : Collapsed(f[i], ms, i, d, n)}
<1>1. CollapseContinues(ms) = f[l]
  BY DEF CollapseContinues, CollapseLoop, CollapseBody, CollapseStep
<1>2. f[0] = <<>> /\ \A i \in 0 .. l : i > 0 => f[i] = CollapseStep(f[i - 1], ms, i)
  BY CollapseRuns
<1> HIDE DEF f
<1>3. 1 \in S
  <2>1. PICK m : m = ms[1]
    OBVIOUS
  <2>2. m \in Maneuvers(n)
    BY <2>1
  <2>3. f[1] = Collapse(<<>>, m)
    <3>1. 1 \in 0 .. l /\ 1 > 0 /\ 1 - 1 = 0
      OBVIOUS
    <3>. QED
      BY <1>2, <2>1, <3>1 DEF CollapseStep
  <2>4. f[1] = Append(<<>>, m)
    BY <2>3 DEF Collapse
  <2>5. <<>> \in Seq(Maneuvers(n)) /\ Len(<<>>) = 0
    OBVIOUS
  <2>6. Spaced(<<>>, d)
    BY <2>5 DEF Spaced
  <2>7. IsNext(f[1], <<>>, m, n, d)
    BY <2>2, <2>4, <2>5, <2>6, NextManeuver
  <2>8. /\ f[1] \in Seq(Maneuvers(n)) /\ Spaced(f[1], d) /\ Len(f[1]) = 1 /\ f[1][1] = m
        /\ m.type \in {"turn", "uturn"} => Announced(f[1], m.node)
    BY <2>5, <2>7 DEF IsNext
  <2>9. f[1] # <<>>
    BY <2>5, <2>8
  <2>10. m.node <= m.node
    BY <2>2 DEF Maneuvers
  <2>11. Collapsed(f[1], ms, 1, d, n)
    BY <2>1, <2>8, <2>9, <2>10 DEF Collapsed
  <2>. QED
    BY <2>11
<1>4. ASSUME NEW i \in 1 .. l, i > 1, i - 1 \in S PROVE i \in S
  <2>1. Collapsed(f[i - 1], ms, i - 1, d, n) /\ i \in 2 .. Len(ms)
    BY <1>4
  <2>2. f[i] = Collapse(f[i - 1], ms[i])
    BY <1>2, <1>4 DEF CollapseStep
  <2>3. Collapsed(f[i], ms, i, d, n)
    BY <2>1, <2>2, CollapseKeeps
  <2>. QED
    BY <2>3
<1>5. \A i \in 1 .. l : i \in S
  <2> HIDE DEF S
  <2>. QED
    BY <1>3, <1>4, UpTo
<1>6. l \in S
  BY <1>5
<1>. QED
  BY <1>1, <1>6

-----------------------------------------------------------------------------
(* Departure, arrival and the instructions. *)

\* Times and lengths of edges are numbers.
LEMMA SumsAreNat ==
    ASSUME NEW mode \in Modes, NEW es \in Seq(Edge)
    PROVE  TotalTime(mode, es) \in Nat /\ TotalKm(es) \in Nat
<1> DEFINE ks == [j \in DOMAIN es |-> es[j].km]
           ts == [j \in DOMAIN es |-> TravelTime(mode, es[j])]
<1>1. \A e \in Edge : e.km \in Nat /\ TravelTime(mode, e) \in Nat
  BY TravelTimeIsPositive DEF Edge
<1>2. Len(ks) \in Nat /\ \A j \in 1 .. Len(ks) : ks[j] \in Nat
  BY <1>1
<1>3. Len(ts) \in Nat /\ \A j \in 1 .. Len(ts) : ts[j] \in Nat
  BY <1>1
<1>4. TotalKm(es) = Total(ks) /\ TotalTime(mode, es) = Total(ts)
  BY DEF TotalKm, TotalTime
<1> HIDE DEF ks, ts
<1>5. Total(ks) \in Nat
  BY <1>2, TotalIsNat
<1>6. Total(ts) \in Nat
  BY <1>3, TotalIsNat
<1>. QED
  BY <1>4, <1>5, <1>6

Depart(path) == Maneuver(1, Straight("depart"), StreetName(path, 1))

Arrive(n) == Maneuver(n, Straight("arrive"), "")

\* All maneuvers, before those in a row are collapsed.
AllManeuvers(path, n) == <<Depart(path)>> \o InnerManeuvers(path) \o <<Arrive(n)>>

\* Neighbours are apart unless start and goal are the same.
MinGap(n) == IF n > 1 THEN 1 ELSE 0

\* The maneuvers of start and goal.
LEMMA EndManeuvers ==
    ASSUME NEW path, NEW n \in Nat, Walk(path, n)
    PROVE  /\ Depart(path) \in Maneuvers(n) /\ Depart(path).node = 1 /\ Depart(path).type = "depart"
           /\ Arrive(n) \in Maneuvers(n) /\ Arrive(n).node = n /\ Arrive(n).type = "arrive"
<1>1. 1 \in 1 .. n /\ n \in 1 .. n
  BY DEF Walk
<1>2. PICK p, q : p = Straight("depart") /\ q = Straight("arrive")
  OBVIOUS
<1>3. p.type = "depart" /\ p.modifier = <<"straight">> /\ q.type = "arrive" /\ q.modifier = <<"straight">>
  BY <1>2 DEF Straight
<1>4. p.type \in Kinds /\ p.modifier \in Modifiers /\ q.type \in Kinds /\ q.modifier \in Modifiers
  BY <1>3 DEF Kinds, Modifiers
<1>5. StreetName(path, 1) \in Streets
  BY StreetsAreLabels
<1>6. "" \in Streets
  BY DEF Streets
<1>7. Maneuver(1, p, StreetName(path, 1)) \in Maneuvers(n)
  BY <1>1, <1>4, <1>5, ManeuverTypes
<1>8. Maneuver(n, q, "") \in Maneuvers(n)
  BY <1>1, <1>4, <1>6, ManeuverTypes
<1>9. /\ Maneuver(1, p, StreetName(path, 1)).node = 1 /\ Maneuver(1, p, StreetName(path, 1)).type = p.type
      /\ Maneuver(n, q, "").node = n /\ Maneuver(n, q, "").type = q.type
  BY DEF Maneuver
<1>. QED
  BY <1>2, <1>3, <1>7, <1>8, <1>9 DEF Depart, Arrive

\* The list of all maneuvers.
ListedAll(path, ms, n) ==
    /\ ms \in Seq(Maneuvers(n)) /\ Spaced(ms, MinGap(n)) /\ Len(ms) >= 2
    /\ ms[1] = Depart(path) /\ ms[Len(ms)] = Arrive(n)
    /\ \A p \in 2 .. n - 1 : TurnsOff(path, p) => Announced(ms, p)

\* Departure, inner maneuvers and arrival are in their order.
LEMMA AllManeuversListed ==
    ASSUME NEW path, NEW n \in Nat, Walk(path, n)
    PROVE  ListedAll(path, AllManeuvers(path, n), n)
<1>1. PICK inner, dep, arr, d : inner = InnerManeuvers(path) /\ dep = Depart(path) /\ arr = Arrive(n) /\ d = MinGap(n)
  OBVIOUS
<1>2. /\ inner \in Seq(Maneuvers(n)) /\ Spaced(inner, 1) /\ NodesIn(inner, 2 .. n - 1)
      /\ \A p \in 2 .. n - 1 : TurnsOff(path, p) => Announced(inner, p)
  BY <1>1, InnerManeuversFollow
<1>3. dep \in Maneuvers(n) /\ dep.node = 1 /\ arr \in Maneuvers(n) /\ arr.node = n
  BY <1>1, EndManeuvers
<1>4. d \in Nat /\ d <= 1 /\ (n > 1 => d = 1) /\ (n = 1 => d = 0) /\ n >= 1
  BY <1>1 DEF MinGap, Walk
<1>5. PICK q, k : q = <<dep>> \o inner /\ k = Len(inner)
  OBVIOUS
<1>6. IsConcat(Maneuvers(n), q, <<dep>>, inner, 1, k) /\ k \in Nat
  <2>1. <<dep>> \in Seq(Maneuvers(n)) /\ Len(<<dep>>) = 1 /\ 1 \in Nat
    BY <1>3
  <2>2. k \in Nat
    BY <1>2, <1>5
  <2>. QED
    BY <1>2, <1>5, <2>1, <2>2, Concat
<1>7. /\ q \in Seq(Maneuvers(n)) /\ Len(q) = k + 1 /\ q[1] = dep /\ \A i \in 1 .. k : q[i + 1] = inner[i]
  <2>1. <<dep>>[1] = dep
    OBVIOUS
  <2>2. /\ q \in Seq(Maneuvers(n)) /\ Len(q) = 1 + k /\ q[1] = <<dep>>[1]
        /\ \A i \in 1 + 1 .. 1 + k : q[i] = inner[i - 1]
    BY <1>6 DEF IsConcat
  <2>3. \A i \in 1 .. k : i + 1 \in 1 + 1 .. 1 + k /\ (i + 1) - 1 = i
    BY <1>6
  <2>. QED
    BY <1>6, <2>1, <2>2, <2>3
<1>8. ASSUME NEW i \in 1 .. k
      PROVE  inner[i].node \in Nat /\ inner[i].node >= 2 /\ inner[i].node <= n - 1
  BY <1>2, <1>5 DEF NodesIn
<1>9. Spaced(q, d)
  <2> SUFFICES ASSUME NEW i \in 1 .. k PROVE q[i].node + d <= q[i + 1].node
    BY <1>6, <1>7 DEF Spaced
  <2>1. CASE i = 1
    <3>1. q[i].node = 1 /\ q[i + 1].node = inner[1].node
      BY <1>3, <1>7, <2>1
    <3>. QED
      BY <1>4, <1>8, <2>1, <3>1
  <2>2. CASE i # 1
    <3>1. i - 1 \in 1 .. k /\ (i - 1) + 1 = i /\ i - 1 \in 1 .. Len(inner) - 1
      BY <1>5, <1>6, <2>2
    <3>2. inner[i - 1].node + 1 <= inner[i].node
      BY <1>2, <3>1 DEF Spaced
    <3>3. q[i] = inner[i - 1] /\ q[i + 1] = inner[i]
      BY <1>7, <3>1
    <3>4. inner[i - 1].node \in Nat /\ inner[i].node \in Nat
      BY <1>8, <3>1
    <3>. QED
      BY <1>4, <3>2, <3>3, <3>4
  <2>. QED
    BY <2>1, <2>2
<1>10. q[Len(q)].node + d <= arr.node
  <2>1. CASE k = 0
    <3>1. q[Len(q)] = dep
      BY <1>7, <2>1
    <3>. QED
      BY <1>3, <1>4, <3>1
  <2>2. CASE k # 0
    <3>1. k \in 1 .. k
      BY <1>6, <2>2
    <3>2. q[Len(q)] = inner[k]
      BY <1>7, <3>1
    <3>. QED
      BY <1>3, <1>4, <1>8, <3>1, <3>2
  <2>. QED
    BY <2>1, <2>2
<1>11. PICK ms : ms = Append(q, arr)
  OBVIOUS
<1>12. AllManeuvers(path, n) = ms
  <2>1. AllManeuvers(path, n) = q \o <<arr>>
    BY <1>1, <1>5 DEF AllManeuvers
  <2>2. q \o <<arr>> = Append(q, arr)
    BY <1>3, <1>7, AppendParts
  <2>. QED
    BY <1>11, <2>1, <2>2
<1>13. IsNext(ms, q, arr, n, d)
  BY <1>3, <1>4, <1>7, <1>9, <1>10, <1>11, NextManeuver
<1>14. /\ ms \in Seq(Maneuvers(n)) /\ Spaced(ms, d) /\ Len(ms) = k + 2 /\ ms[Len(ms)] = arr /\ ms[1] = dep
       /\ \A p : Announced(q, p) => Announced(ms, p)
  <2>1. /\ ms \in Seq(Maneuvers(n)) /\ Spaced(ms, d) /\ Len(ms) = Len(q) + 1 /\ ms[Len(ms)] = arr
        /\ \A i \in 1 .. Len(q) : ms[i] = q[i]
        /\ \A p : Announced(q, p) => Announced(ms, p)
    BY <1>13 DEF IsNext
  <2>2. 1 \in 1 .. Len(q) /\ Len(q) + 1 = k + 2
    BY <1>6, <1>7
  <2>. QED
    BY <1>7, <2>1, <2>2
<1>15. ASSUME NEW p, Announced(inner, p) PROVE Announced(ms, p)
  <2>1. PICK i \in 1 .. k : inner[i].node = p /\ inner[i].type \in {"turn", "uturn"}
    BY <1>2, <1>5, <1>15 DEF Announced
  <2>2. q[i + 1] = inner[i] /\ i + 1 \in DOMAIN q
    BY <1>6, <1>7, <2>1
  <2>3. Announced(q, p)
    BY <2>1, <2>2 DEF Announced
  <2>. QED
    BY <1>14, <2>3
<1>16. ListedAll(path, ms, n)
  BY <1>1, <1>2, <1>6, <1>14, <1>15 DEF ListedAll
<1>. QED
  BY <1>12, <1>16

\* The maneuvers a path is announced with.
MainManeuvers(path, n) == CollapseContinues(AllManeuvers(path, n))

\* Where the way of maneuver k ends.
LegEnd(ms, k, n) == IF k = Len(ms) THEN n ELSE ms[k + 1].node

\* So are the maneuvers that remain.
LEMMA MainManeuversFollow ==
    ASSUME NEW path, NEW n \in Nat, Walk(path, n), NEW ms, ms = MainManeuvers(path, n)
    PROVE  /\ ms \in Seq(Maneuvers(n)) /\ Len(ms) >= 1 /\ Spaced(ms, MinGap(n))
           /\ ms[1] = Depart(path) /\ ms[Len(ms)] = Arrive(n)
           /\ \A p \in 2 .. n - 1 : TurnsOff(path, p) => Announced(ms, p)
<1>1. PICK all, d, l : all = AllManeuvers(path, n) /\ d = MinGap(n) /\ l = Len(all)
  OBVIOUS
<1>2. /\ all \in Seq(Maneuvers(n)) /\ Spaced(all, d) /\ l >= 2 /\ all[1] = Depart(path) /\ all[l] = Arrive(n)
      /\ \A p \in 2 .. n - 1 : TurnsOff(path, p) => Announced(all, p)
  BY <1>1, AllManeuversListed DEF ListedAll
<1>3. d \in Nat /\ l \in Nat /\ l >= 1
  BY <1>1, <1>2 DEF MinGap
<1>4. Collapsed(ms, all, l, d, n)
  <2>1. ms = CollapseContinues(all)
    BY <1>1 DEF MainManeuvers
  <2>. QED
    BY <1>1, <1>2, <1>3, <2>1, CollapseFollows
<1>5. /\ ms \in Seq(Maneuvers(n)) /\ Spaced(ms, d) /\ ms # <<>> /\ ms[1] = all[1]
      /\ all[l].type # "continue" => ms[Len(ms)] = all[l]
      /\ \A k \in 1 .. l : all[k].type \in {"turn", "uturn"} => Announced(ms, all[k].node)
  BY <1>4 DEF Collapsed
<1>6. all[l].type # "continue"
  BY <1>2, EndManeuvers
<1>7. ASSUME NEW p, Announced(all, p) PROVE Announced(ms, p)
  <2>1. PICK k \in 1 .. l : all[k].node = p /\ all[k].type \in {"turn", "uturn"}
    BY <1>1, <1>2, <1>7 DEF Announced
  <2>. QED
    BY <1>5, <2>1
<1>8. Len(ms) >= 1
  <2> HIDE DEF Maneuvers
  <2>. QED
    BY <1>5
<1>. QED
  BY <1>1, <1>2, <1>5, <1>6, <1>7, <1>8

\* The parts of the instructions.
Instructed(path, mode, ins, ms, n) ==
    /\ DOMAIN ins = 1 .. Len(ms) /\ Len(ins) = Len(ms)
    /\ \A k \in 1 .. Len(ms) :
         /\ ins[k].node = ms[k].node /\ ins[k].type = ms[k].type
         /\ LET way == IF k = Len(ms) THEN <<>> ELSE SubSeq(path.edges, ms[k].node, ms[k + 1].node - 1)
            IN  ins[k].km = TotalKm(way) /\ ins[k].time = TotalTime(mode, way)

\* Each maneuver becomes an instruction for the way to the next.
LEMMA InstructionParts ==
    ASSUME NEW path, NEW n \in Nat, Walk(path, n), NEW mode, NEW ms, ms = MainManeuvers(path, n),
           ms \in Seq(Maneuvers(n)), NEW ins, ins = BuildInstructions(path, mode)
    PROVE  Instructed(path, mode, ins, ms, n)
<1>1. Len(path.nodes) = n
  BY DEF Walk
<1> DEFINE way(k) == IF k = Len(ms) THEN <<>> ELSE SubSeq(path.edges, ms[k].node, ms[k + 1].node - 1)
           made == [k \in DOMAIN ms |->
                      [node |-> ms[k].node, type |-> ms[k].type, modifier |-> ms[k].modifier,
                       km |-> TotalKm(way(k)), time |-> TotalTime(mode, way(k))]]
<1>2. ins = made
  BY <1>1 DEF BuildInstructions, MainManeuvers, AllManeuvers, Depart, Arrive
<1>3. DOMAIN ms = 1 .. Len(ms) /\ Len(ms) \in Nat
  <2> HIDE DEF Maneuvers
  <2>. QED
    OBVIOUS
<1>4. DOMAIN made = 1 .. Len(ms) /\ Len(made) = Len(ms)
  <2> HIDE DEF way
  <2>. QED
    BY <1>3
<1>5. \A k \in 1 .. Len(ms) : /\ made[k].node = ms[k].node /\ made[k].type = ms[k].type
                              /\ made[k].km = TotalKm(way(k)) /\ made[k].time = TotalTime(mode, way(k))
  <2> HIDE DEF way
  <2>. QED
    BY <1>3
<1>. QED
  BY <1>2, <1>4, <1>5 DEF Instructed

IsMeasured(way, a, b, P, Q, mode, n) ==
    /\ TotalTime(mode, way) \in Nat /\ TotalKm(way) \in Nat
    /\ TotalTime(mode, way) = P[b] - P[a] /\ TotalKm(way) = Q[b] - Q[a]
    /\ a \in 1 .. n /\ b \in 1 .. n

\* The way of a maneuver is a slice of the path.
LEMMA WaysAreMeasured ==
    ASSUME NEW path, NEW n \in Nat, Walk(path, n), NEW mode \in Modes, NEW P, NEW Q,
           Measures(P, Q, mode, path.edges, n - 1),
           NEW ms \in Seq(Maneuvers(n)), NEW d \in Nat, Spaced(ms, d), ms[Len(ms)].node = n,
           NEW k \in 1 .. Len(ms), NEW way,
           way = IF k = Len(ms) THEN <<>> ELSE SubSeq(path.edges, ms[k].node, ms[k + 1].node - 1)
    PROVE  IsMeasured(way, ms[k].node, LegEnd(ms, k, n), P, Q, mode, n)
<1>1. path.edges \in Seq(Edge) /\ Len(path.edges) = n - 1 /\ n >= 1
  BY DEF Walk
<1>2. \A j \in 1 .. Len(ms) : ms[j].node \in 1 .. n
  <2>1. \A j \in 1 .. Len(ms) : ms[j] \in Maneuvers(n)
    OBVIOUS
  <2>. QED
    BY <2>1 DEF Maneuvers
<1>3. PICK a, b : a = ms[k].node /\ b = LegEnd(ms, k, n)
  OBVIOUS
<1>4. a \in 1 .. n /\ b \in a .. n /\ way = SubSeq(path.edges, a, b - 1)
  <2>1. CASE k = Len(ms)
    <3>1. a = n /\ b = n /\ way = <<>>
      BY <1>3, <2>1 DEF LegEnd
    <3>2. SubSeq(path.edges, n, n - 1) = <<>>
      <4>1. PICK r : r = SubSeq(path.edges, n, n - 1)
        OBVIOUS
      <4>2. n \in 1 .. Len(path.edges) + 1 /\ n \in n .. Len(path.edges) + 1
        BY <1>1
      <4>3. IsSlice(Edge, r, path.edges, n, n)
        BY <1>1, <4>1, <4>2, Slice
      <4>4. r \in Seq(Edge) /\ Len(r) = 0
        BY <4>3 DEF IsSlice
      <4>. QED
        BY <4>1, <4>4
    <3>3. a \in 1 .. n /\ b \in a .. n
      BY <1>1, <3>1
    <3>4. way = SubSeq(path.edges, a, b - 1)
      BY <3>1, <3>2, Zenon
    <3>. QED
      BY <3>3, <3>4
  <2>2. CASE k # Len(ms)
    <3>1. k \in 1 .. Len(ms) - 1 /\ k + 1 \in 1 .. Len(ms)
      BY <2>2
    <3>2. b = ms[k + 1].node /\ way = SubSeq(path.edges, a, b - 1)
      BY <1>3, <2>2 DEF LegEnd
    <3>3. a + d <= b
      BY <1>3, <3>1, <3>2 DEF Spaced
    <3>4. a \in 1 .. n /\ b \in 1 .. n
      BY <1>2, <1>3, <3>1, <3>2
    <3>5. b \in a .. n
      BY <3>3, <3>4
    <3>. QED
      BY <3>2, <3>4, <3>5, Zenon
  <2>. QED
    BY <2>1, <2>2
<1>5. a \in 1 .. (n - 1) + 1 /\ b \in a .. (n - 1) + 1 /\ b \in 1 .. n
  BY <1>4
<1>6. TotalTime(mode, way) = P[b] - P[a] /\ TotalKm(way) = Q[b] - Q[a]
  BY <1>4, <1>5 DEF Measures
<1>7. way \in Seq(Edge)
  <2>1. a \in 1 .. Len(path.edges) + 1 /\ b \in a .. Len(path.edges) + 1
    BY <1>1, <1>4
  <2>2. IsSlice(Edge, way, path.edges, a, b)
    BY <1>1, <1>4, <2>1, Slice
  <2>. QED
    BY <2>2 DEF IsSlice
<1>8. TotalTime(mode, way) \in Nat /\ TotalKm(way) \in Nat
  BY <1>7, SumsAreNat
<1>. QED
  BY <1>3, <1>4, <1>5, <1>6, <1>8 DEF IsMeasured

\* The lengths and times of the instructions are those of the path.
LEMMA InstructionsAddUp ==
    ASSUME NEW path, NEW n \in Nat, Walk(path, n), NEW mode \in Modes,
           NEW ms \in Seq(Maneuvers(n)), NEW d \in Nat, Spaced(ms, d), Len(ms) >= 1,
           ms[1].node = 1, ms[Len(ms)].node = n,
           NEW ins, Instructed(path, mode, ins, ms, n)
    PROVE  /\ Total([k \in DOMAIN ins |-> ins[k].km]) = TotalKm(path.edges)
           /\ Total([k \in DOMAIN ins |-> ins[k].time]) = TotalTime(mode, path.edges)
<1> DEFINE m == Len(ms)
           kms == [k \in DOMAIN ins |-> ins[k].km]
           times == [k \in DOMAIN ins |-> ins[k].time]
<1>1. m \in Nat /\ m >= 1
  <2> HIDE DEF Maneuvers
  <2>. QED
    OBVIOUS
<1>2. path.edges \in Seq(Edge) /\ Len(path.edges) = n - 1 /\ n >= 1 /\ n - 1 \in Nat
  BY DEF Walk
<1>3. PICK P, Q : Measures(P, Q, mode, path.edges, n - 1)
  BY <1>2, Measured
<1>4. DOMAIN ins = 1 .. m
  BY DEF Instructed
<1>5. /\ Len(kms) = m /\ Len(times) = m
      /\ \A k \in 1 .. m : kms[k] = ins[k].km /\ times[k] = ins[k].time
  BY <1>1, <1>4
<1> HIDE DEF kms, times, m
<1> DEFINE at(k) == IF k = m + 1 THEN n ELSE ms[k].node
           V == [k \in 1 .. m + 1 |-> P[at(k)]]
           W == [k \in 1 .. m + 1 |-> Q[at(k)]]
<1>6. ASSUME NEW k \in 1 .. m
      PROVE  /\ times[k] \in Nat /\ kms[k] \in Nat /\ at(k) \in 1 .. n
             /\ times[k] = P[at(k + 1)] - P[at(k)] /\ kms[k] = Q[at(k + 1)] - Q[at(k)]
  <2>1. PICK way : way = IF k = Len(ms) THEN <<>> ELSE SubSeq(path.edges, ms[k].node, ms[k + 1].node - 1)
    OBVIOUS
  <2>2. ins[k].km = TotalKm(way) /\ ins[k].time = TotalTime(mode, way)
    BY <2>1 DEF Instructed, m
  <2>3. /\ TotalTime(mode, way) \in Nat /\ TotalKm(way) \in Nat
        /\ TotalTime(mode, way) = P[LegEnd(ms, k, n)] - P[ms[k].node]
        /\ TotalKm(way) = Q[LegEnd(ms, k, n)] - Q[ms[k].node]
        /\ ms[k].node \in 1 .. n
    <3>1. k \in 1 .. Len(ms)
      BY DEF m
    <3>2. IsMeasured(way, ms[k].node, LegEnd(ms, k, n), P, Q, mode, n)
      BY <1>3, <2>1, <3>1, WaysAreMeasured
    <3>. QED
      BY <3>2 DEF IsMeasured
  <2>4. at(k) = ms[k].node
    BY <1>1
  <2>5. at(k + 1) = LegEnd(ms, k, n)
    <3>1. k + 1 = m + 1 <=> k = m
      BY <1>1
    <3>. QED
      BY <3>1 DEF LegEnd, m
  <2> HIDE DEF at
  <2>. QED
    BY <1>5, <2>2, <2>3, <2>4, <2>5
<1>7. at(m + 1) = n /\ at(1) = 1
  BY <1>1
<1> HIDE DEF at
<1>8. \A k \in 1 .. m + 1 : at(k) \in 1 .. n
  <2> SUFFICES ASSUME NEW k \in 1 .. m + 1 PROVE at(k) \in 1 .. n
    OBVIOUS
  <2>1. CASE k = m + 1
    BY <1>2, <1>7, <2>1
  <2>2. CASE k # m + 1
    <3>1. k \in 1 .. m
      BY <1>1, <2>2
    <3>. QED
      BY <1>6, <3>1
  <2>. QED
    BY <2>1, <2>2
<1>9. \A x \in 1 .. n : P[x] \in Int /\ Q[x] \in Int
  <2>1. \A x \in 1 .. n : x \in 1 .. (n - 1) + 1
    BY <1>2
  <2>. QED
    BY <1>3, <2>1 DEF Measures
<1>10. \A k \in 1 .. m + 1 : V[k] = P[at(k)] /\ W[k] = Q[at(k)] /\ V[k] \in Int /\ W[k] \in Int
  BY <1>8, <1>9
<1> HIDE DEF V, W
<1>11. ASSUME NEW k \in 1 .. m PROVE V[k + 1] = V[k] + times[k] /\ W[k + 1] = W[k] + kms[k]
  <2>1. k \in 1 .. m + 1 /\ k + 1 \in 1 .. m + 1
    BY <1>1
  <2>2. V[k] = P[at(k)] /\ V[k + 1] = P[at(k + 1)] /\ V[k] \in Int /\ V[k + 1] \in Int
    BY <1>10, <2>1
  <2>3. W[k] = Q[at(k)] /\ W[k + 1] = Q[at(k + 1)] /\ W[k] \in Int /\ W[k + 1] \in Int
    BY <1>10, <2>1
  <2>4. times[k] = V[k + 1] - V[k] /\ kms[k] = W[k + 1] - W[k]
    BY <1>6, <2>2, <2>3
  <2>. QED
    BY <2>2, <2>3, <2>4
<1>12. Follows(V, times, m) /\ Follows(W, kms, m)
  BY <1>6, <1>10, <1>11 DEF Follows
<1>13. Total(times) = V[m + 1] - V[1]
  BY <1>1, <1>5, <1>12, Telescope
<1>14. Total(kms) = W[m + 1] - W[1]
  BY <1>1, <1>5, <1>12, Telescope
<1>15. V[m + 1] = P[n] /\ V[1] = P[1] /\ W[m + 1] = Q[n] /\ W[1] = Q[1]
  <2>1. 1 \in 1 .. m + 1 /\ m + 1 \in 1 .. m + 1
    BY <1>1
  <2>. QED
    BY <1>7, <1>10, <2>1
<1>16. TotalTime(mode, path.edges) = P[n] - P[1] /\ TotalKm(path.edges) = Q[n] - Q[1]
  <2>1. (n - 1) + 1 = n
    OBVIOUS
  <2>2. TotalTime(mode, path.edges) = P[(n - 1) + 1] - P[1] /\ TotalKm(path.edges) = Q[(n - 1) + 1] - Q[1]
    BY <1>3 DEF Measures
  <2>. QED
    BY <2>1, <2>2
<1>. QED
  BY <1>13, <1>14, <1>15, <1>16 DEF kms, times

\* The instructions of a route lead along all of it, with lengths and times
\* that add up, and announce every turn into a street: for any path over any
\* graph, whatever ramps it takes and however many maneuvers are collapsed.
THEOREM InstructionsAlwaysFollowThePath == Spec => []InstructionsFollowThePath
<1>1. NetInv => InstructionsFollowThePath
  <2> SUFFICES ASSUME NetInv, phase = "done", NEW r \in DOMAIN accepted
               PROVE  LET path == accepted[r]
                          n    == Len(path.nodes)
                          ins  == BuildInstructions(path, query.mode)
                      IN  /\ ins[1].node = 1 /\ ins[1].type = "depart"
                          /\ Last(ins).node = n /\ Last(ins).type = "arrive"
                          /\ n > 1 => \A k \in 1 .. Len(ins) - 1 : ins[k].node < ins[k + 1].node
                          /\ Total([k \in DOMAIN ins |-> ins[k].km]) = path.km
                          /\ Total([k \in DOMAIN ins |-> ins[k].time]) = path.time
                          /\ \A i \in 2 .. n - 1 :
                                Degrees(Delta(path, i)) >= 25 /\ ~IsUnnamedLink(path.edges[i]) =>
                                  \E k \in DOMAIN ins : ins[k].node = i /\ ins[k].type \in {"turn", "uturn"}
    BY DEF InstructionsFollowThePath, Guided
  <2>1. PICK path, mode : path = accepted[r] /\ mode = query.mode
    OBVIOUS
  <2>2. PICK n, ins, ms : /\ n = Len(path.nodes) /\ ins = BuildInstructions(path, mode)
                          /\ ms = MainManeuvers(path, n)
    OBVIOUS
  <2>3. GoodPath(path, query.start, query.goal) /\ mode \in Modes
    BY <2>1, AnsweredPath DEF SearchTypes
  <2>4. Walk(path, n) /\ n \in Nat /\ path.km = TotalKm(path.edges) /\ path.time = TotalTime(mode, path.edges)
    BY <2>1, <2>2, <2>3 DEF GoodPath, IsPath, Walk
  <2>5. /\ ms \in Seq(Maneuvers(n)) /\ Len(ms) >= 1 /\ Spaced(ms, MinGap(n))
        /\ ms[1] = Depart(path) /\ ms[Len(ms)] = Arrive(n)
        /\ \A p \in 2 .. n - 1 : TurnsOff(path, p) => Announced(ms, p)
    BY <2>2, <2>4, MainManeuversFollow
  <2>6. Instructed(path, mode, ins, ms, n)
    BY <2>2, <2>4, <2>5, InstructionParts
  <2>7. /\ ms[1].node = 1 /\ ms[1].type = "depart"
        /\ ms[Len(ms)].node = n /\ ms[Len(ms)].type = "arrive"
    BY <2>4, <2>5, EndManeuvers
  <2>8. MinGap(n) \in Nat /\ (n > 1 => MinGap(n) = 1)
    BY DEF MinGap
  <2>9. /\ Total([k \in DOMAIN ins |-> ins[k].km]) = path.km
        /\ Total([k \in DOMAIN ins |-> ins[k].time]) = path.time
    BY <2>3, <2>4, <2>5, <2>6, <2>7, <2>8, InstructionsAddUp
  <2>10. Len(ms) \in Nat /\ DOMAIN ms = 1 .. Len(ms) /\ DOMAIN ins = 1 .. Len(ms) /\ Len(ins) = Len(ms)
    BY <2>5, <2>6 DEF Instructed
  <2>11. \A k \in 1 .. Len(ms) : ins[k].node = ms[k].node /\ ins[k].type = ms[k].type
    BY <2>6 DEF Instructed
  <2>12. /\ ins[1].node = 1 /\ ins[1].type = "depart" /\ Last(ins).node = n /\ Last(ins).type = "arrive"
    <3>1. 1 \in 1 .. Len(ms) /\ Len(ms) \in 1 .. Len(ms)
      BY <2>5, <2>10
    <3>2. Last(ins) = ins[Len(ms)]
      BY <2>10 DEF Last
    <3>. QED
      BY <2>7, <2>11, <3>1, <3>2
  <2>13. ASSUME n > 1, NEW k \in 1 .. Len(ins) - 1 PROVE ins[k].node < ins[k + 1].node
    <3>1. k \in 1 .. Len(ms) - 1 /\ k \in 1 .. Len(ms) /\ k + 1 \in 1 .. Len(ms)
      BY <2>10
    <3>2. ms[k].node + 1 <= ms[k + 1].node
      BY <2>5, <2>8, <2>13, <3>1 DEF Spaced
    <3>3. ms[k].node \in Nat /\ ms[k + 1].node \in Nat
      <4>1. ms[k] \in Maneuvers(n) /\ ms[k + 1] \in Maneuvers(n)
        BY <2>5, <3>1
      <4>. QED
        BY <4>1 DEF Maneuvers
    <3>. QED
      BY <2>11, <3>1, <3>2, <3>3
  <2>14. ASSUME NEW i \in 2 .. n - 1, Degrees(Delta(path, i)) >= 25, ~IsUnnamedLink(path.edges[i])
         PROVE  \E k \in DOMAIN ins : ins[k].node = i /\ ins[k].type \in {"turn", "uturn"}
    <3>1. Announced(ms, i)
      BY <2>5, <2>14 DEF TurnsOff
    <3>2. PICK k \in 1 .. Len(ms) : ms[k].node = i /\ ms[k].type \in {"turn", "uturn"}
      BY <2>10, <3>1 DEF Announced
    <3>. QED
      BY <2>10, <2>11, <3>2
  <2>. QED
    BY <2>1, <2>2, <2>9, <2>12, <2>13, <2>14
<1>. QED
  BY <1>1, NetAlways, PTL
=============================================================================
