------------------------------- MODULE Fleet -------------------------------
(* The devices of one user, the groups they are put in and the MQTT         *)
(* credentials they are given: DevicesService, DeviceGroupsService and the  *)
(* broker's authentication callback, served by concurrent HTTP handlers.    *)
(*                                                                          *)
(* A handler reads rows with one query and saves the copies it read with    *)
(* another.  TypeORM's save writes every column of the copy that differs    *)
(* from the row, and inserts the row when it is gone; a column the read     *)
(* does not select (mqttPasswordHash) is not part of the copy.              *)
EXTENDS Integers, FiniteSets

CONSTANTS
    Devices,      \* device ids, numbered in the order of their creation
    Existing,     \* the devices that are there, provisioned, at the start
    Groups,       \* group ids
    NoGroup,      \* null in device_group_id
    Requests,     \* HTTP handlers that may be in flight at a time
    Limit,        \* page size of a listing
    MaxCalls,     \* bound: requests made
    MaxFaults     \* bound: database calls that fail, or handlers a crash cuts

ASSUME NoGroupIsNone == NoGroup \notin Groups

ASSUME FleetAssumption ==
    /\ Devices \subseteq Nat /\ IsFiniteSet(Devices) /\ Existing \subseteq Devices
    /\ Devices \cap Groups = {}
    /\ Limit \in Nat \ {0}
    /\ MaxCalls \in Nat /\ MaxFaults \in Nat

VARIABLES
    device,       \* table devices: device -> row
    unborn,       \* ids of devices and groups no insert has used yet
    group,        \* table device_groups: the groups that exist
    req,          \* what each handler is doing
    calls,        \* requests made
    faults,       \* failures so far
    handed,       \* history: device -> last password a response carried, or 0
    asked,        \* history: device -> the group its user last put it in
    stale,        \* history: handlers whose reads another handler has overtaken
    mixed,        \* history: devices an overtaken handler has written since
    doubtful      \* history: devices whose issue of credentials was cut or mixed

fleet == <<device, unborn, group, handed, asked, mixed, doubtful>>
vars == <<fleet, req, calls, faults, stale>>

----------------------------------------------------------------------------
(* Rows and what a save does to them.                                       *)

(* 0 is no password; the devices of the start have the last one.            *)
FirstPassword == MaxCalls + 1

Passwords == 0 .. FirstPassword

NoRow == [live |-> FALSE, group |-> NoGroup, username |-> FALSE, hash |-> 0]

Device ==
    {NoRow} \cup
    [live: {TRUE}, group: Groups \cup {NoGroup}, username: BOOLEAN, hash: Passwords]

Idle == [op |-> "idle"]

Live == {d \in Devices : device[d].live}

Members(g) == {d \in Live : device[d].group = g}

(* What a save makes of the row of d, given the copy it writes.             *)
Saved(d, copy) ==
    IF device[d].live THEN [copy EXCEPT !.hash = device[d].hash]
                      ELSE [copy EXCEPT !.hash = 0]

(* The foreign key on device_group_id refuses a copy of a group gone since. *)
SaveAllowed(copies) ==
    \A d \in DOMAIN copies : copies[d].group \in group \cup {NoGroup}

(* verifyMqttCredentials: the device whose name and password these are; the *)
(* name is made of the id.                                                  *)
Verified(d, pw) ==
    {e \in Live : e = d /\ device[e].username
                   /\ device[e].hash # 0 /\ device[e].hash = pw}

(* The topics under gnss/<device>/, and what is done on each.               *)
Published == {"coordinates", "status", "alert", "image", "video", "stream/status"}
Topic(ds, names, does) == [of: ds, name: names, does: {does}]

(* buildMqttCredentials: the topics a response tells d to use.              *)
Told(d) == Topic({d}, Published, "publish") \cup Topic({d}, {"command"}, "subscribe")

(* buildDeviceAcl and authenticate: what the broker lets the client do that *)
(* connects with the name of d and password pw.                             *)
Acl(d) == Topic({d}, Published, "publish") \cup Topic({d}, {"command"}, "subscribe")
Authenticate(d, pw) == UNION {Acl(e) : e \in Verified(d, pw)}

(* DeviceAuthGuard: a REST call with that name and password, whose body     *)
(* names the devices in "claimed" (none or one), goes through.              *)
Admits(d, pw, claimed) == \E e \in Verified(d, pw) : claimed \subseteq {e}

(* Mutant: credentials are only written the first time.                     *)
ProvisionedOnce(d, pw) ==
    IF device[d].live /\ ~device[d].username
    THEN [device[d] EXCEPT !.username = TRUE, !.hash = pw] ELSE device[d]

(* The row of d after its credentials are updated: an UPDATE by id, which   *)
(* does nothing to a row that is gone.                                      *)
Provisioned(d, pw) ==
    IF device[d].live THEN [device[d] EXCEPT !.username = TRUE, !.hash = pw]
                      ELSE device[d]

----------------------------------------------------------------------------
(* Bookkeeping of the handlers.                                             *)

FleetOps == {"create", "update", "regenerate", "rename", "assign", "unassign"}

(* The devices handler r has read, or is bringing up.                       *)
Held(r) == IF req[r].op \in FleetOps THEN req[r].devs ELSE {}

(* A write of rows to ds overtakes every other handler that holds one of    *)
(* them, or holds the members of a group one of them joins.                 *)
Overtakes(q, ds, rows) ==
    {r \in Requests \ {q} :
        \/ Held(r) \cap ds # {}
        \/ req[r].op = "rename" /\ \E d \in ds : rows[d].group = req[r].grp}

Call(q, work) ==
    /\ req[q] = Idle /\ calls < MaxCalls
    /\ calls' = calls + 1
    /\ req' = [req EXCEPT ![q] = work]
    /\ stale' = stale \ {q}

Continue(q, stage) == req' = [req EXCEPT ![q].stage = stage]

Done(q) == req' = [req EXCEPT ![q] = Idle]

Editing(op, stage, ds, g) ==
    [op |-> op, stage |-> stage, devs |-> ds, grp |-> g, copy |-> <<>>, pw |-> 0]

(* Handler q writes rows to the devices in DOMAIN rows.                     *)
Write(q, rows) ==
    LET ds == {d \in DOMAIN rows : rows[d] # device[d]} IN
    /\ device' = [d \in Devices |-> IF d \in ds THEN rows[d] ELSE device[d]]
    /\ stale' = stale \cup Overtakes(q, ds, rows)

(* A set of devices in doubt, after q has written ds.                       *)
Marked(inDoubt, q, ds) == IF q \in stale THEN inDoubt \cup ds ELSE inDoubt
Settled(inDoubt, q, ds) == IF q \in stale THEN inDoubt \cup ds ELSE inDoubt \ ds

----------------------------------------------------------------------------
(* DevicesService.                                                          *)

(* create: INSERT, then an UPDATE with the credentials, then a read back    *)
(* whose failure keeps the password from the response.                      *)
CreateDevice(q) ==
    /\ \E d \in unborn \cap Devices :
        /\ \A e \in unborn \cap Devices : d <= e
        /\ unborn' = unborn \ {d}
        /\ device' = [device EXCEPT ![d] = [NoRow EXCEPT !.live = TRUE]]
        /\ Call(q, [Editing("create", "issue", {d}, NoGroup) EXCEPT !.pw = calls + 1])
    /\ UNCHANGED <<group, handed, asked, mixed, doubtful, faults>>

(* findOne of update and regenerateMqttCredentials.                         *)
ReadDevice(q, d) ==
    /\ d \in Live
    /\ \/ Call(q, [Editing("update", "save", {d}, NoGroup)
                     EXCEPT !.copy = [e \in {d} |-> device[e]]])
       \/ Call(q, [Editing("regenerate", "issue", {d}, NoGroup) EXCEPT !.pw = calls + 1])
    /\ UNCHANGED <<fleet, faults>>

(* The UPDATE of create and of regenerateMqttCredentials.                   *)
IssueCredentials(q) ==
    /\ req[q].op \in {"create", "regenerate"} /\ req[q].stage = "issue"
    /\ LET d == CHOOSE e \in req[q].devs : TRUE IN
        Write(q, [e \in {d} |-> Provisioned(d, req[q].pw)])
    /\ doubtful' = Marked(doubtful, q, req[q].devs)
    /\ Continue(q, "answer")
    /\ UNCHANGED <<unborn, group, handed, asked, mixed, calls, faults>>

(* The response carries the password.  create reads the device back first   *)
(* and fails without it; regenerateMqttCredentials does not look.           *)
Answer(q) ==
    /\ req[q].op \in {"create", "regenerate"} /\ req[q].stage = "answer"
    /\ LET d == CHOOSE e \in req[q].devs : TRUE
           carried == req[q].op = "regenerate" \/ d \in Live
       IN
       /\ handed' = IF carried THEN [handed EXCEPT ![d] = req[q].pw] ELSE handed
       /\ doubtful' = Settled(doubtful, q, {d})
    /\ Done(q)
    /\ UNCHANGED <<device, unborn, group, asked, mixed, calls, faults, stale>>

(* The save of update, assignDevices and removeDevices: one transaction     *)
(* over the copies.                                                         *)
SaveDevices(q) ==
    /\ req[q].op \in {"update", "assign", "unassign"} /\ req[q].stage = "save"
    /\ LET copies == req[q].copy
           ds == DOMAIN copies
       IN
       IF SaveAllowed(copies)
       THEN /\ Write(q, [d \in ds |-> Saved(d, copies[d])])
            /\ doubtful' = Marked(doubtful, q, ds)
            /\ IF req[q].op = "update"
               THEN mixed' = Marked(mixed, q, ds) /\ UNCHANGED asked
               ELSE /\ mixed' = Settled(mixed, q, ds)
                    /\ asked' = [d \in Devices |->
                         IF d \in ds THEN copies[d].group ELSE asked[d]]
       ELSE UNCHANGED <<device, stale, mixed, doubtful, asked>>
    /\ Done(q)
    /\ UNCHANGED <<unborn, group, handed, calls, faults>>

(* remove: findOne and the DELETE by id.  A delay between the two changes   *)
(* nothing, for deleting a row that is gone does nothing.                   *)
(* "also" are the handlers of other tables the removal overtakes.           *)
RemoveDevice(q, d, also) ==
    /\ d \in Live /\ req[q] = Idle /\ calls < MaxCalls
    /\ device' = [device EXCEPT ![d] = NoRow]
    /\ stale' = stale \cup Overtakes(q, {d}, device') \cup also
    /\ asked' = [asked EXCEPT ![d] = NoGroup]
    /\ calls' = calls + 1
    /\ req' = [r \in Requests |->
         IF req[r].op = "list"
         THEN [req[r] EXCEPT !.whole = @ \ {d}, !.gone = @ + 1] ELSE req[r]]
    /\ UNCHANGED <<unborn, group, handed, mixed, doubtful, faults>>

----------------------------------------------------------------------------
(* DeviceGroupsService.                                                     *)

CreateGroup(q, g) ==
    /\ g \in unborn /\ req[q] = Idle /\ calls < MaxCalls
    /\ group' = group \cup {g}
    /\ unborn' = unborn \ {g}
    /\ calls' = calls + 1
    /\ UNCHANGED <<device, handed, asked, mixed, doubtful, req, faults, stale>>

(* Mutant: the devices are not loaded but the list is initialised.          *)
ReadGroupBare(q, g) ==
    /\ g \in group
    /\ Call(q, Editing("rename", "save", {}, g))
    /\ UNCHANGED <<fleet, faults>>

(* update: findOne loads the group with its devices ...                     *)
ReadGroup(q, g) ==
    /\ g \in group
    /\ Call(q, Editing("rename", "save", Members(g), g))
    /\ UNCHANGED <<fleet, faults>>

(* ... and save writes the relation back: a device of the copy joins the    *)
(* group, a device that is not in the copy leaves it, and a group that is   *)
(* gone is inserted.                                                        *)
SaveGroup(q) ==
    /\ req[q].op = "rename" /\ req[q].stage = "save"
    /\ LET g == req[q].grp
           join == (req[q].devs \cap Live) \ Members(g)
           leave == Members(g) \ req[q].devs
       IN
       /\ group' = group \cup {g}
       /\ device' = [d \in Devices |->
            CASE d \in join -> [device[d] EXCEPT !.group = g]
              [] d \in leave -> [device[d] EXCEPT !.group = NoGroup]
              [] OTHER -> device[d]]
       /\ mixed' = Marked(mixed, q, join \cup leave)
       /\ stale' = stale \cup Overtakes(q, join \cup leave, device')
    /\ Done(q)
    /\ UNCHANGED <<unborn, handed, asked, doubtful, calls, faults>>

(* remove: findOne and the DELETE; the foreign key sets the devices free.   *)
RemoveGroup(q, g) ==
    /\ g \in group /\ req[q] = Idle /\ calls < MaxCalls
    /\ group' = group \ {g}
    /\ device' = [d \in Devices |->
         IF d \in Members(g) THEN [device[d] EXCEPT !.group = NoGroup] ELSE device[d]]
    /\ asked' = [d \in Devices |-> IF asked[d] = g THEN NoGroup ELSE asked[d]]
    /\ stale' = stale \cup Overtakes(q, Members(g), device')
         \cup {r \in Requests \ {q} : req[r].op = "rename" /\ req[r].grp = g}
    /\ calls' = calls + 1
    /\ UNCHANGED <<unborn, handed, mixed, doubtful, req, faults>>

(* assignDevices and removeDevices, the check that the group exists.        *)
FindGroup(q, g, ds) ==
    /\ g \in group /\ ds # {}
    /\ \E op \in {"assign", "unassign"} : Call(q, Editing(op, "find", ds, g))
    /\ UNCHANGED <<fleet, faults>>

(* The devices a request for ds finds: all that exist, or those of the group. *)
Found(op, ds, g) == (ds \cap Live) \cap (IF op = "assign" THEN Devices ELSE Members(g))

(* assignDevices and removeDevices, the read of the devices, whose copies   *)
(* get the group, or none.                                                  *)
FindDevices(q) ==
    /\ req[q].op \in {"assign", "unassign"} /\ req[q].stage = "find"
    /\ LET ds == Found(req[q].op, req[q].devs, req[q].grp)
           g == IF req[q].op = "assign" THEN req[q].grp ELSE NoGroup
       IN IF ds = {} THEN Done(q)
          ELSE req' = [req EXCEPT ![q].stage = "save", ![q].devs = ds,
                         ![q].copy = [d \in ds |-> [device[d] EXCEPT !.group = g]]]
    /\ stale' = stale \ {q}
    /\ UNCHANGED <<fleet, calls, faults>>

----------------------------------------------------------------------------
(* findMine, a page at a time: ORDER BY createdAt DESC, OFFSET and LIMIT.   *)

(* Mutant: pages counted from zero.                                         *)
PageFromZero(ds, page) ==
    {d \in ds : LET newer == Cardinality({e \in ds : e > d})
                IN newer >= page * Limit /\ newer < (page + 1) * Limit}

(* The page-th page of a listing of ds.                                     *)
Page(ds, page) ==
    {d \in ds : LET newer == Cardinality({e \in ds : e > d})
                IN newer >= (page - 1) * Limit /\ newer < page * Limit}

PageCount(ds) == (Cardinality(ds) + Limit - 1) \div Limit

(* A client starts to read all its devices.  "whole" and "gone" are         *)
(* history: the devices there all along, and how many were removed since.   *)
StartListing(q) ==
    /\ Call(q, [op |-> "list", page |-> 1, seen |-> {}, over |-> FALSE,
                whole |-> Live, gone |-> 0])
    /\ UNCHANGED <<fleet, faults>>

FetchPage(q) ==
    /\ req[q].op = "list" /\ ~req[q].over
    /\ req' = [req EXCEPT ![q].page = @ + 1,
                          ![q].seen = @ \cup Page(Live, req[q].page),
                          ![q].over = req[q].page >= PageCount(Live)]
    /\ UNCHANGED <<fleet, calls, faults, stale>>

CloseListing(q) ==
    /\ req[q].op = "list" /\ req[q].over
    /\ Done(q)
    /\ UNCHANGED <<fleet, calls, faults, stale>>

----------------------------------------------------------------------------

(* A call of handler q fails, or the process dies while q is in flight:     *)
(* what q has written stays.                                                *)
Cut(q) ==
    /\ req[q] # Idle /\ faults < MaxFaults
    /\ faults' = faults + 1
    /\ doubtful' = IF req[q].op \in {"create", "regenerate"}
                   THEN doubtful \cup req[q].devs ELSE doubtful
    /\ Done(q)
    /\ UNCHANGED <<device, unborn, group, handed, asked, mixed, calls, stale>>

(* A step of a handler that leaves the geofences alone.                     *)
FleetStep(q) ==
    \/ CreateDevice(q) \/ IssueCredentials(q) \/ Answer(q) \/ SaveDevices(q)
    \/ \E d \in Devices : ReadDevice(q, d)
    \/ \E g \in Groups :
        \/ CreateGroup(q, g) \/ ReadGroup(q, g) \/ RemoveGroup(q, g)
        \/ \E ds \in SUBSET Devices : FindGroup(q, g, ds)
    \/ SaveGroup(q) \/ FindDevices(q)
    \/ StartListing(q) \/ FetchPage(q) \/ CloseListing(q)

(* The start: the existing devices have working credentials, and any of the *)
(* groups may exist.                                                        *)
FleetInit ==
    /\ device = [d \in Devices |->
         IF d \in Existing
         THEN [live |-> TRUE, group |-> NoGroup, username |-> TRUE, hash |-> FirstPassword]
         ELSE NoRow]
    /\ group \in SUBSET Groups
    /\ unborn = (Devices \ Existing) \cup (Groups \ group)
    /\ req = [q \in Requests |-> Idle]
    /\ calls = 0 /\ faults = 0
    /\ handed = [d \in Devices |-> IF d \in Existing THEN FirstPassword ELSE 0]
    /\ asked = [d \in Devices |-> NoGroup]
    /\ stale = {} /\ mixed = {} /\ doubtful = {}

----------------------------------------------------------------------------
(* Properties.                                                              *)

(* The variables of the fleet have their types.                             *)
FleetTypeOK ==
    /\ device \in [Devices -> Device]
    /\ unborn \subseteq Devices \cup Groups /\ group \subseteq Groups
    /\ calls \in 0 .. MaxCalls /\ faults \in 0 .. MaxFaults
    /\ handed \in [Devices -> Passwords]
    /\ asked \in [Devices -> Groups \cup {NoGroup}]
    /\ mixed \cup doubtful \subseteq Devices /\ stale \subseteq Requests

(* The password a response gave for a device that exists lets it do all the *)
(* response told it to do at the broker and call the REST interface as      *)
(* itself, while no issue is under way for it, unless an issue was cut      *)
(* short or a handler saved a copy of the device another had overtaken.  In *)
(* particular a new issue repairs what a cut one left (create 106-139,      *)
(* regenerateMqttCredentials 155-181, verifyMqttCredentials 231-245,        *)
(* buildDeviceAcl, DeviceAuthGuard).                                        *)
HandedPasswordWorks ==
    \A d \in Live \ doubtful :
        \/ \E q \in Requests : req[q].op \in {"create", "regenerate"} /\ d \in req[q].devs
        \/ /\ Told(d) \subseteq Authenticate(d, handed[d])
           /\ Admits(d, handed[d], {d})

(* A device is in the group it was last put in, unless a handler wrote it   *)
(* from a copy another had overtaken: in particular renaming a group,       *)
(* which saves its list of devices too, moves none (update 101-106,         *)
(* assignDevices 125-145, removeDevices 153-174).                           *)
GroupIsAsAsked == \A d \in Live \ mixed : device[d].group = asked[d]

(* A client that has read all pages of its devices has missed at most as    *)
(* many of those there all along as were removed while it read (findMine    *)
(* 59-85).                                                                  *)
ListingMissesOnlyTheShifted ==
    \A q \in Requests : req[q].op = "list" /\ req[q].over =>
        Cardinality(req[q].whole \ req[q].seen) <= req[q].gone
============================================================================
