------------------------------- MODULE Zones -------------------------------
(* The geofences of the user and the devices assigned to them, beside the   *)
(* fleet whose devices they are: GeofencesService's create, update, remove, *)
(* assignDevice and removeDevice served by the same concurrent handlers.    *)
(*                                                                          *)
(* The polygon is written by a query of its own, and an assignment is a     *)
(* save of the whole list of devices the handler has read.                  *)
EXTENDS Fleet

CONSTANTS ZoneIds    \* geofence ids

VARIABLES
    zone,         \* tables geofences and device_geofence: id -> row and devices
    wanted,       \* history: id -> the devices last asked to be assigned
    blurred       \* history: zones an overtaken handler has written

zones == <<zone, wanted, blurred>>
allVars == <<fleet, zones, req, calls, faults, stale>>

----------------------------------------------------------------------------

Geofence == [state: {"unborn", "live", "gone"}, geom: BOOLEAN, devices: SUBSET Devices]

IsLive(z) == zone[z].state = "live"

Gone == [state |-> "gone", geom |-> FALSE, devices |-> {}]

ZoneOps == {"zcreate", "zupdate", "zassign", "zremove"}

(* The handlers that hold a copy of z.                                      *)
Holders(z) == {r \in Requests : req[r].op \in ZoneOps /\ req[r].zone = z}

(* A handler's work on zone z: the list it will save, whether it saves the  *)
(* row and whether it writes a polygon.                                     *)
Zoning(op, stage, z, ds) ==
    [op |-> op, stage |-> stage, zone |-> z, devs |-> ds, dev |-> {}, geom |-> FALSE]

(* Zone z is written by handler q.                                          *)
WriteZone(q, z, row) ==
    /\ zone' = [zone EXCEPT ![z] = row]
    /\ stale' = IF row # zone[z] THEN stale \cup (Holders(z) \ {q}) ELSE stale

----------------------------------------------------------------------------

(* create: the INSERT, without the polygon.                                 *)
CreateZone(q, z) ==
    /\ zone[z].state = "unborn"
    /\ zone' = [zone EXCEPT ![z] = [Gone EXCEPT !.state = "live"]]
    /\ Call(q, [Zoning("zcreate", "shape", z, {}) EXCEPT !.geom = TRUE])
    /\ UNCHANGED <<fleet, faults, wanted, blurred>>

(* update: the findOne, without the relation; the request may change the    *)
(* row, the polygon or both.                                                *)
ReadZone(q, z) ==
    /\ IsLive(z)
    /\ \E geom \in BOOLEAN :
        \/ Call(q, [Zoning("zupdate", "save", z, {}) EXCEPT !.geom = geom])
        \/ geom /\ Call(q, [Zoning("zupdate", "shape", z, {}) EXCEPT !.geom = TRUE])
    /\ UNCHANGED <<fleet, zones, faults>>

(* The save of update: a row that is gone is inserted, bare.                *)
SaveZone(q) ==
    /\ req[q].op = "zupdate" /\ req[q].stage = "save"
    /\ LET z == req[q].zone IN
        /\ WriteZone(q, z, IF IsLive(z) THEN zone[z] ELSE [Gone EXCEPT !.state = "live"])
        /\ blurred' = IF IsLive(z) THEN blurred ELSE blurred \cup {z}
    /\ IF req[q].geom THEN Continue(q, "shape") ELSE Done(q)
    /\ UNCHANGED <<fleet, calls, faults, wanted>>

(* The polygon's UPDATE of create and of update.                            *)
WriteShape(q) ==
    /\ req[q].op \in {"zcreate", "zupdate"} /\ req[q].stage = "shape"
    /\ LET z == req[q].zone IN
        zone' = IF IsLive(z) THEN [zone EXCEPT ![z].geom = TRUE] ELSE zone
    /\ Done(q)
    /\ UNCHANGED <<fleet, calls, faults, stale, wanted, blurred>>

(* remove: findOne and the DELETE by id, one step for the reason of         *)
(* RemoveDevice.                                                            *)
RemoveZone(q, z) ==
    /\ IsLive(z) /\ req[q] = Idle /\ calls < MaxCalls
    /\ WriteZone(q, z, Gone)
    /\ wanted' = [wanted EXCEPT ![z] = {}]
    /\ calls' = calls + 1
    /\ UNCHANGED <<fleet, req, faults, blurred>>

(* Mutant: assignDevice reads the zone without its devices.                 *)
ReadMembersBare(q, z, d) ==
    /\ IsLive(z)
    /\ \/ Call(q, [Zoning("zassign", "device", z, {}) EXCEPT !.dev = {d}])
       \/ Call(q, [Zoning("zremove", "save", z, zone[z].devices \ {d}) EXCEPT !.dev = {d}])
    /\ UNCHANGED <<fleet, zones, faults>>

(* assignDevice and removeDevice: the zone is read with its devices.        *)
ReadMembers(q, z, d) ==
    /\ IsLive(z)
    /\ \/ Call(q, [Zoning("zassign", "device", z, zone[z].devices) EXCEPT !.dev = {d}])
       \/ Call(q, [Zoning("zremove", "save", z, zone[z].devices \ {d}) EXCEPT !.dev = {d}])
    /\ UNCHANGED <<fleet, zones, faults>>

(* assignDevice looks the device up, and saves nothing if it is unknown or  *)
(* assigned already.                                                        *)
FindAssignee(q) ==
    /\ req[q].op = "zassign" /\ req[q].stage = "device"
    /\ LET new == req[q].dev \ req[q].devs IN
       IF req[q].dev \subseteq Live /\ new # {}
       THEN req' = [req EXCEPT ![q].stage = "save", ![q].devs = @ \cup new]
       ELSE Done(q)
    /\ UNCHANGED <<fleet, zones, calls, faults, stale>>

(* The save of the list: the join table is made equal to it.  The foreign   *)
(* key refuses a row for a device that is gone.                             *)
SaveMembers(q) ==
    /\ req[q].op \in {"zassign", "zremove"} /\ req[q].stage = "save"
    /\ LET z == req[q].zone
           list == req[q].devs
       IN
       IF list \subseteq Live
       THEN /\ WriteZone(q, z, [state |-> "live", geom |-> zone[z].geom, devices |-> list])
            /\ wanted' = [wanted EXCEPT ![z] =
                 IF req[q].op = "zassign" THEN @ \cup req[q].dev ELSE @ \ req[q].dev]
            /\ blurred' = IF q \in stale THEN blurred \cup {z} ELSE blurred
       ELSE UNCHANGED <<zones, stale>>
    /\ Done(q)
    /\ UNCHANGED <<fleet, calls, faults>>

(* A device that goes takes its assignments with it.                        *)
RemoveAssigned(q, d) ==
    /\ RemoveDevice(q, d, UNION {Holders(z) : z \in {y \in ZoneIds : d \in zone[y].devices}})
    /\ zone' = [z \in ZoneIds |-> [zone[z] EXCEPT !.devices = @ \ {d}]]
    /\ wanted' = [z \in ZoneIds |-> wanted[z] \ {d}]
    /\ UNCHANGED blurred

(* A handler fails or dies: a polygon it has not written stays missing.     *)
CutZoning(q) ==
    /\ Cut(q)
    /\ UNCHANGED <<zone, wanted, blurred>>

----------------------------------------------------------------------------

Init ==
    /\ FleetInit
    /\ zone \in [ZoneIds -> {[state |-> "unborn", geom |-> FALSE, devices |-> {}],
                             [state |-> "live", geom |-> TRUE, devices |-> {}]}]
    /\ wanted = [z \in ZoneIds |-> {}]
    /\ blurred = {}

ZoneStep(q) ==
    \/ \E z \in ZoneIds :
        \/ CreateZone(q, z) \/ ReadZone(q, z) \/ RemoveZone(q, z)
        \/ \E d \in Devices : ReadMembers(q, z, d)
    \/ SaveZone(q) \/ WriteShape(q) \/ FindAssignee(q) \/ SaveMembers(q)

Next ==
    \E q \in Requests :
        \/ FleetStep(q) /\ UNCHANGED zones
        \/ ZoneStep(q)
        \/ \E d \in Devices : RemoveAssigned(q, d)
        \/ CutZoning(q)

Spec == Init /\ [][Next]_allVars

----------------------------------------------------------------------------
(* Properties.                                                              *)

(* The tables, the fleet's and the zones', hold rows of their types.        *)
TypeOK ==
    /\ FleetTypeOK
    /\ \A q \in Requests : req[q].op \in {"idle", "list"} \cup FleetOps \cup ZoneOps
    /\ zone \in [ZoneIds -> Geofence]
    /\ wanted \in [ZoneIds -> SUBSET Devices]
    /\ blurred \subseteq ZoneIds

(* The devices a geofence watches are those assigned to it and not removed  *)
(* from it since, unless a handler saved a list another had overtaken       *)
(* (assignDevice 277-299, removeDevice 301-314).                            *)
AssignmentIsAsAsked ==
    \A z \in ZoneIds \ blurred : IsLive(z) => zone[z].devices = wanted[z]
============================================================================
