--------------------------- MODULE MCGpsTracking ---------------------------
(* Constants for the runs are in the configurations. *)
EXTENDS GpsTracking
=============================================================================
