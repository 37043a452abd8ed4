------------------------------ MODULE MCFleet ------------------------------
(* Two handlers over two devices, two groups and a geofence.                   *)
EXTENDS Zones, TLC

Symmetry == Permutations(Requests) \cup Permutations(Groups)
============================================================================
