------------------------------ MODULE LaravelDb ------------------------------
(***************************************************************************)
(* The marketplace database as this service sees it: Laravel writes it, at *)
(* any moment, and the repositories of internal/storage only query it.  A  *)
(* passenger registers trips; a shipping is a package (shipment) carried   *)
(* on a trip; a shipping ask is a passenger's request to carry it.         *)
(*                                                                         *)
(* One operator per query, evaluated in one state: a query sees one        *)
(* snapshot, two queries of one request may see different ones.  Ids grow, *)
(* so trips and shippings are sequences and "latest" is the largest index. *)
(***************************************************************************)
EXTENDS Naturals, Sequences, FiniteSets, SequencesExt

CONSTANTS Users,
          Anonymous,      \* user id 0: a caller without a token
          Shipments,
          Sender,         \* shipments.user_id
          Receiver,       \* shipments.receiver_id
          Addressed,      \* shipments with an end city or an end address
          Distance,       \* from the one point every search looks around
          Radius,
          InitTrips,      \* the trips registered at first
          MaxTrips,
          MaxShippings

ASSUME DbConstants ==
    /\ Anonymous \notin Users
    /\ IsFiniteSet(Shipments)
    /\ Sender \in [Shipments -> Users] /\ Receiver \in [Shipments -> Users]
    /\ Addressed \subseteq Shipments
    /\ InitTrips \in Seq(Users) /\ Len(InitTrips) <= MaxTrips
    /\ Distance \in [Shipments -> Nat]

VARIABLES trips,      \* trip id -> user
          shippings,  \* shipping id -> its shipment, its trip, and whether it is active:
                      \* its status is not CANCELED, CANCELLED or DELIVERED
          asks,       \* the ACCEPTED shipping asks
          listing,    \* of each shipment: is its status open, visible_on_map, released
          onMap       \* users whose profile has visible_on_map

claims == <<trips, shippings, asks>>
dbVars == <<claims, listing, onMap>>

Greatest(ids) == CHOOSE i \in ids : \A j \in ids : j <= i

-----------------------------------------------------------------------------
(* What Laravel does to the tables. *)

RegisterTrip(u) ==
    /\ Len(trips) < MaxTrips
    /\ trips' = Append(trips, u)
    /\ UNCHANGED <<shippings, asks, listing, onMap>>

Claim(sp, t) ==
    /\ Len(shippings) < MaxShippings
    /\ shippings' = Append(shippings, [shipment |-> sp, trip |-> t, active |-> TRUE])
    /\ UNCHANGED <<trips, asks, listing, onMap>>

\* Canceled or delivered.
EndShipping(i) ==
    /\ shippings[i].active
    /\ shippings' = [shippings EXCEPT ![i].active = FALSE]
    /\ UNCHANGED <<trips, asks, listing, onMap>>

\* An ask is accepted, or leaves that status.
SetAsk(sp, t) ==
    /\ LET a == [shipment |-> sp, trip |-> t]
       IN  asks' = IF a \in asks THEN asks \ {a} ELSE asks \cup {a}
    /\ UNCHANGED <<trips, shippings, listing, onMap>>

\* The sender or the status workflow changes a shipment; release is by clock.
Relist(sp, new) ==
    /\ listing[sp].released => new.released
    /\ listing' = [listing EXCEPT ![sp] = new]
    /\ UNCHANGED <<claims, onMap>>

ShowOnMap(u) ==
    /\ onMap' = IF u \in onMap THEN onMap \ {u} ELSE onMap \cup {u}
    /\ UNCHANGED <<claims, listing>>

-----------------------------------------------------------------------------
(* The queries. *)

Carrier(i) == trips[shippings[i].trip]
ActiveOf(sp) == {i \in DOMAIN shippings : shippings[i].shipment = sp /\ shippings[i].active}
ActiveBy(u)  == {i \in DOMAIN shippings : Carrier(i) = u /\ shippings[i].active}

\* nearbyStatusEligibilityFilter
StatusEligible(sp, v) == listing[sp].open \/ \E i \in ActiveOf(sp) : Carrier(i) = v

\* Variant of ActiveShippingExists.
ActiveShippingIgnored(sp, v) == FALSE
ActiveShippingOfAnyone(sp, v) == ActiveOf(sp) # {}

\* Someone other than the passenger has the package.
ActiveShippingExists(sp, v) == \E i \in ActiveOf(sp) : Carrier(i) # v
AcceptedAskExists(sp, v)    == \E a \in asks : a.shipment = sp /\ trips[a.trip] # v

VisibleOnMap(sp)  == listing[sp].visible
OwnCreated(sp, v) == Sender[sp] = v
Released(sp)      == listing[sp].released

\* ST_DWithin, or the bounding box and the Haversine distance.
WithinRadius(sp)  == Distance[sp] <= Radius

\* buildNearbyQuery, PostGIS or Haversine: the WHERE clause.
OnNearbyMap(sp, v) ==
    /\ StatusEligible(sp, v)
    /\ WithinRadius(sp)
    /\ VisibleOnMap(sp)
    /\ ~ActiveShippingExists(sp, v)
    /\ ~AcceptedAskExists(sp, v)
    /\ ~OwnCreated(sp, v)
    /\ Released(sp)

\* ... ORDER BY distance LIMIT: of the packages equally far as the last one,
\* any may be left out.  The order of the rows is left out too.
FindNearbyShipments(v, limit) ==
    LET hits == {sp \in Shipments : OnNearbyMap(sp, v)}
        n    == Cardinality(hits)
    IN  {rows \in SUBSET hits :
            /\ Cardinality(rows) = IF n < limit THEN n ELSE limit
            /\ \A sp \in rows, o \in hits \ rows : Distance[sp] <= Distance[o]}

\* The latest active shipping of a shipment, 0 when there is none.
LoadShipping(sp) == IF ActiveOf(sp) = {} THEN 0 ELSE Greatest(ActiveOf(sp))

FindVisibleOnMapUserIDs(us) == us \cap onMap

\* A driver's latest active shipping; a blank destination counts as none.
LatestActiveShipping(u) ==
    IF ActiveBy(u) = {} THEN 0
    ELSE LET i == Greatest(ActiveBy(u))
         IN  IF shippings[i].shipment \in Addressed THEN i ELSE 0

LatestTrip(u) ==
    LET own == {t \in DOMAIN trips : trips[t] = u}
    IN  IF own = {} THEN 0 ELSE Greatest(own)

Parties(i) == LET sp == shippings[i].shipment IN {Sender[sp], Receiver[sp]}

\* Variant of UsersShareActiveShipping.
UsersShareUnparenthesised(v, u) ==
    \/ v = u
    \/ \E i \in DOMAIN shippings : \/ Carrier(i) = u /\ v = Sender[shippings[i].shipment]
                                   \/ v = Receiver[shippings[i].shipment]

\* Passenger and sender or receiver of one shipping, whatever its status.
UsersShareActiveShipping(v, u) ==
    \/ v = u
    \/ \E i \in DOMAIN shippings : \/ Carrier(i) = u /\ v \in Parties(i)
                                   \/ Carrier(i) = v /\ u \in Parties(i)
=============================================================================
