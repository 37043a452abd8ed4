---------------------------- MODULE GeofenceEdge ----------------------------
(***************************************************************************)
(* What geofence monitoring of one device promises, without checks, caches  *)
(* or cooldowns: the telemetry points are looked at in order, and a geofence *)
(* raises an alert at exactly the points where the device starts to violate *)
(* it.  GeofenceMonitor is the program that should behave like this.        *)
(***************************************************************************)
EXTENDS Naturals

CONSTANTS Geofences, MaxPoints

VARIABLES
    zone,     \* zone[g]: the type of g, which others may change at any time
    seen,     \* seen[g]: where the device last was with respect to g
    last,     \* last[g]: number of the point that said so first, 0 before any
    raised    \* raised[a]: the points at which the violation a raised an alert

ZoneTypes == {"ALLOWED_ZONE", "FORBIDDEN_ZONE"}

Presence == {"INSIDE", "OUTSIDE"}

Violations == {"GEOFENCE_EXIT", "GEOFENCE_ENTRY"} \X Geofences

\* Outside of an allowed zone, or inside a forbidden one.
IsViolated(a, g, presence) ==
    \/ /\ zone[g] = "ALLOWED_ZONE" /\ presence = "OUTSIDE"
       /\ a = <<"GEOFENCE_EXIT", g>>
    \/ /\ zone[g] = "FORBIDDEN_ZONE" /\ presence = "INSIDE"
       /\ a = <<"GEOFENCE_ENTRY", g>>

Init ==
    /\ zone \in [Geofences -> ZoneTypes]
    /\ seen = [g \in Geofences |-> "none"]
    /\ last = [g \in Geofences |-> 0]
    /\ raised = [a \in Violations |-> {}]

\* Point i, later than the one that brought the device where it was last seen,
\* finds it on the other side (or is the first).
Observe(g, i, presence) ==
    /\ i > last[g]
    /\ seen[g] # presence
    /\ seen' = [seen EXCEPT ![g] = presence]
    /\ last' = [last EXCEPT ![g] = i]
    /\ raised' = [a \in Violations |->
                     IF IsViolated(a, g, presence) THEN raised[a] \cup {i} ELSE raised[a]]

Next ==
    /\ \/ \E g \in Geofences, i \in 1..MaxPoints, presence \in Presence :
             Observe(g, i, presence)
       \/ UNCHANGED <<seen, last, raised>>
    /\ zone' \in [Geofences -> ZoneTypes]

Spec == Init /\ [][Next]_<<zone, seen, last, raised>>
=============================================================================
