-------------------------- MODULE MCDriverPresence --------------------------
(* Two users; a package its sender sends to himself, one trip of his.      *)
EXTENDS DriverPresence
CONSTANTS u1, u2, p1

MCSender == p1 :> u1
MCReceiver == p1 :> u1
MCTrips == <<u1>>
MCDistance == p1 :> 1
=============================================================================
