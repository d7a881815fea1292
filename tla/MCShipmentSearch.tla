-------------------------- MODULE MCShipmentSearch --------------------------
(* Two packages, a near and a far one, sent by one user; a trip of another. *)
EXTENDS ShipmentSearch
CONSTANTS u1, u2, u3, p1, p2, car, bike, junk

MCSender == p1 :> u1 @@ p2 :> u1
MCReceiver == p1 :> u2 @@ p2 :> u1
MCDistance == p1 :> 1 @@ p2 :> 2
MCAllowed == p1 :> <<car, junk, bike, bike>> @@ p2 :> <<car, junk>>
MCTrips == <<u2, u3>>
MCListings == {[open |-> TRUE, visible |-> TRUE, released |-> TRUE],
               [open |-> FALSE, visible |-> TRUE, released |-> TRUE]}
=============================================================================
