--------------------------- MODULE LaravelDbProofs ---------------------------
(***************************************************************************)
(* What the queries of the marketplace database return, for tables of any  *)
(* size: facts both searches rest on.                                      *)
(***************************************************************************)
EXTENDS LaravelDb, FiniteSetTheorems, WellFoundedInduction, TLAPS

\* A set of natural numbers has a least element.
LEMMA Smallest ==
    ASSUME NEW T \in SUBSET Nat, T # {}
    PROVE  \E x \in T : \A y \in T : x <= y
<1> DEFINE R == OpToRel(<, Nat)
<1>1. IsWellFoundedOn(R, Nat)
  BY NatLessThanWellFounded
<1>2. R = {ss \in Nat \X Nat : ss[1] < ss[2]}
  BY DEF OpToRel
<1> HIDE DEF R
<1>3. PICK x \in T : \A y \in T : ~ (<<y, x>> \in R)
  BY <1>1, WFMin
<1>4. \A a, b \in Nat : a < b => <<a, b>> \in R
  BY <1>2
<1>5. ASSUME NEW y \in T PROVE x <= y
  <2>1. y < x => <<y, x>> \in R
    BY <1>4
  <2>2. ~(<<y, x>> \in R)
    BY <1>3
  <2>3. ~(y < x)
    BY <2>1, <2>2
  <2>. QED
    BY <2>3
<1>. QED
  BY <1>5

\* Induction over the natural numbers, for a set of them.
LEMMA Induction ==
    ASSUME NEW S, 0 \in S, \A n \in Nat : n \in S => n + 1 \in S
    PROVE  Nat \subseteq S
<1> DEFINE T == Nat \ S
<1>1. SUFFICES ASSUME T # {} PROVE FALSE
  OBVIOUS
<1>2. PICK x \in T : \A y \in T : x <= y
  BY <1>1, Smallest
<1>3. x - 1 \in Nat /\ x - 1 \notin T
  BY <1>2
<1>. QED
  BY <1>2, <1>3

\* "The latest" row of a query is one of its rows, and the largest id.
LEMMA GreatestOfIds ==
    ASSUME NEW n \in Nat, NEW ids \in SUBSET (1 .. n), ids # {}
    PROVE  Greatest(ids) \in ids /\ \A j \in ids : j <= Greatest(ids)
<1> DEFINE below == {m \in 0 .. n : n - m \in ids}
<1>1. below \in SUBSET Nat
  OBVIOUS
<1>2. PICK i \in ids : TRUE
  OBVIOUS
<1>3. n - i \in below
  <2>1. i \in Nat /\ i <= n /\ n - i \in 0 .. n /\ n - (n - i) = i
    OBVIOUS
  <2>. QED
    BY <2>1
<1>4. PICK m \in below : \A y \in below : m <= y
  BY <1>1, <1>3, Smallest
<1>5. \A j \in ids : j <= n - m
  <2>1. ASSUME NEW j \in ids PROVE j <= n - m
    <3>1. j \in Nat /\ n - j \in 0 .. n /\ n - (n - j) = j
      OBVIOUS
    <3>2. m <= n - j
      BY <1>4, <3>1
    <3>. QED
      BY <3>1, <3>2
  <2>. QED
    BY <2>1
<1>6. n - m \in ids
  OBVIOUS
<1>. QED
  BY <1>5, <1>6 DEF Greatest

-----------------------------------------------------------------------------

Shipping == [shipment : Shipments, trip : Nat, active : BOOLEAN]

\* Every shipping is on a trip that is there.
ClaimsOK ==
    /\ trips \in Seq(Users)
    /\ shippings \in Seq(Shipping)
    /\ \A i \in DOMAIN shippings : shippings[i].trip \in DOMAIN trips

\* Laravel's writes to trips and shippings.
ClaimStep ==
    \/ \E u \in Users : RegisterTrip(u)
    \/ \E sp \in Shipments, t \in DOMAIN trips : Claim(sp, t)
    \/ \E i \in DOMAIN shippings : EndShipping(i)
    \/ UNCHANGED <<trips, shippings>>

\* They keep every shipping on its trip, with its package and its carrier.
LEMMA ClaimsGrow ==
    ASSUME ClaimsOK, ClaimStep
    PROVE  /\ ClaimsOK'
           /\ \A i \in DOMAIN shippings : /\ i \in DOMAIN shippings' /\ Carrier(i)' = Carrier(i)
                                          /\ shippings'[i].shipment = shippings[i].shipment
<1> USE DEF ClaimsOK, Carrier
<1> DEFINE Grown == /\ ClaimsOK'
                    /\ \A i \in DOMAIN shippings : /\ i \in DOMAIN shippings' /\ Carrier(i)' = Carrier(i)
                                                   /\ shippings'[i].shipment = shippings[i].shipment
<1>1. CASE UNCHANGED <<trips, shippings>>
  BY <1>1
<1>2. ASSUME NEW u \in Users, RegisterTrip(u) PROVE Grown
  <2>1. DOMAIN trips' = 1 .. Len(trips) + 1 /\ DOMAIN trips = 1 .. Len(trips) /\ Len(trips) \in Nat
    BY <1>2 DEF RegisterTrip
  <2>. QED
    BY <1>2, <2>1 DEF RegisterTrip
<1>3. ASSUME NEW sp \in Shipments, NEW t \in DOMAIN trips, Claim(sp, t) PROVE Grown
  <2>1. [shipment |-> sp, trip |-> t, active |-> TRUE] \in Shipping
    BY DEF Shipping
  <2>2. /\ trips' = trips /\ shippings' = Append(shippings, [shipment |-> sp, trip |-> t, active |-> TRUE])
    BY <1>3 DEF Claim
  <2>3. \A i \in DOMAIN shippings : i \in DOMAIN shippings' /\ shippings'[i] = shippings[i]
    BY <2>2
  <2>4. ClaimsOK'
    BY <2>1, <2>2
  <2>. QED
    BY <2>2, <2>3, <2>4
<1>4. ASSUME NEW k \in DOMAIN shippings, EndShipping(k) PROVE Grown
  <2> DEFINE new == [shippings[k] EXCEPT !.active = FALSE]
  <2>1. new \in Shipping /\ new.trip = shippings[k].trip /\ new.shipment = shippings[k].shipment
    <3>1. shippings[k] \in Shipping
      OBVIOUS
    <3>. QED
      BY <3>1 DEF Shipping
  <2>2. trips' = trips /\ shippings' = [shippings EXCEPT ![k] = new]
    BY <1>4 DEF EndShipping
  <2> HIDE DEF new
  <2>. QED
    BY <2>1, <2>2
<1>. QED
  BY <1>1, <1>2, <1>3, <1>4 DEF ClaimStep

\* The latest active shipping of a package is an active shipping of it, and
\* some user carries it.
LEMMA ShippingFound ==
    ASSUME ClaimsOK, NEW sp
    PROVE  /\ LoadShipping(sp) # 0 => LoadShipping(sp) \in ActiveOf(sp)
           /\ LoadShipping(sp) = 0 => ActiveOf(sp) = {}
           /\ \A i \in DOMAIN shippings : Carrier(i) \in Users
<1>1. /\ Len(shippings) \in Nat /\ DOMAIN shippings = 1 .. Len(shippings)
      /\ ActiveOf(sp) \in SUBSET (1 .. Len(shippings))
  BY DEF ClaimsOK, ActiveOf
<1>2. ActiveOf(sp) # {} => Greatest(ActiveOf(sp)) \in ActiveOf(sp) /\ Greatest(ActiveOf(sp)) # 0
  <2>1. ActiveOf(sp) # {} => Greatest(ActiveOf(sp)) \in ActiveOf(sp)
    BY <1>1, GreatestOfIds, Zenon
  <2>. QED
    BY <1>1, <2>1
<1>3. \A i \in DOMAIN shippings : Carrier(i) \in Users
  BY DEF ClaimsOK, Carrier
<1>. QED
  BY <1>2, <1>3 DEF LoadShipping

\* A driver's latest job is an id, or 0.
LEMMA LatestIsAnId ==
    ASSUME ClaimsOK, NEW u
    PROVE  LatestActiveShipping(u) \in Nat /\ LatestTrip(u) \in Nat
<1>1. /\ Len(shippings) \in Nat /\ ActiveBy(u) \in SUBSET (1 .. Len(shippings))
      /\ Len(trips) \in Nat /\ {t \in DOMAIN trips : trips[t] = u} \in SUBSET (1 .. Len(trips))
  BY DEF ClaimsOK, ActiveBy
<1>2. ActiveBy(u) # {} => Greatest(ActiveBy(u)) \in ActiveBy(u)
  BY <1>1, GreatestOfIds, Zenon
<1>3. {t \in DOMAIN trips : trips[t] = u} # {} =>
        Greatest({t \in DOMAIN trips : trips[t] = u}) \in {t \in DOMAIN trips : trips[t] = u}
  <2> DEFINE own == {t \in DOMAIN trips : trips[t] = u}
  <2> HIDE DEF own
  <2>1. own \in SUBSET (1 .. Len(trips))
    BY <1>1 DEF own
  <2>2. own # {} => Greatest(own) \in own
    BY <1>1, <2>1, GreatestOfIds, Zenon
  <2>. QED
    BY <2>2 DEF own
<1>4. LatestActiveShipping(u) \in Nat
  BY <1>1, <1>2 DEF LatestActiveShipping
<1>5. LatestTrip(u) \in Nat
  BY <1>1, <1>3 DEF LatestTrip
<1>. QED
  BY <1>4, <1>5
=============================================================================
