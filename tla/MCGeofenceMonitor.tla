------------------------- MODULE MCGeofenceMonitor -------------------------
(* An allowed zone `home' and a forbidden zone `quarry'. *)
EXTENDS GeofenceMonitor, TLC

CONSTANTS home, quarry, c1, c2

BothZones == {home, quarry}
ZoneOf == [g \in BothZones |-> IF g = home THEN "ALLOWED_ZONE" ELSE "FORBIDDEN_ZONE"]
OneCheck == {c1}
TwoChecks == {c1, c2}
CheckSymmetry == Permutations(TwoChecks)
ThreeEvents == Len(points) + edits + faults + restarts <= 3
=============================================================================
