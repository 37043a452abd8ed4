---------------------------- MODULE FleetProofs -----------------------------
(* Proofs about Fleet and Zones, for any devices, groups, geofences, page size
   and number of overlapping requests, and about DeviceStatus, for any devices,
   reports, saves and sweeps. *)
EXTENDS Zones, DeviceStatus, TLAPS, FiniteSetTheorems

-----------------------------------------------------------------------------
(* Devices, groups and geofences. *)

(* What a handler is doing, by kind: reading pages, editing devices and
   groups, or editing a geofence. *)
Copies == UNION {[ds -> Device] : ds \in SUBSET Devices}

Listings == [op: {"list"}, page: Nat \ {0}, seen: SUBSET Devices, over: BOOLEAN,
             whole: SUBSET Devices, gone: Nat]

Edits == [op: FleetOps, stage: {"issue", "answer", "save", "find"}, devs: SUBSET Devices,
          grp: Groups \cup {NoGroup}, copy: Copies, pw: 0 .. MaxCalls]

Zonings == [op: ZoneOps, stage: {"shape", "save", "device"}, zone: ZoneIds,
            devs: SUBSET Devices, dev: SUBSET Devices, geom: BOOLEAN]

Issuing(work) == work.op \in {"create", "regenerate"}
Saving(work) == work.op \in {"update", "assign", "unassign"} /\ work.stage = "save"
Assigning(work) == work.op \in {"zassign", "zremove"}

(* The work counts on what it has read of its devices. *)
Relies(work) == Issuing(work) \/ Saving(work) \/ work.op = "rename"

(* An issue is for one device and has a password; a save has a copy of every
   device it is for. *)
WellShaped(work) ==
    /\ Issuing(work) => (\E d \in Devices : work.devs = {d}) /\ work.pw # 0
    /\ Saving(work) => DOMAIN work.copy = work.devs /\ \A d \in work.devs : work.copy[d].live
    /\ work.op = "rename" => work.grp \in Groups

Works == {Idle} \cup Listings \cup {work \in Edits : WellShaped(work)} \cup Zonings

(* An id no insert has used: no row, no copy, no group asked for. *)
UnbornUntouched ==
    \A d \in Devices \cap unborn :
        /\ ~device[d].live /\ asked[d] = NoGroup
        /\ \A r \in Requests : Saving(req[r]) => d \notin req[r].devs

FleetInv == TypeOK /\ req \in [Requests -> Works] /\ UnbornUntouched

(* What handler r has read of the devices, the group or the zone is still so. *)
IssueFresh(r) ==
    Issuing(req[r]) =>
        \A d \in req[r].devs :
            /\ device[d].live
            /\ req[r].stage = "answer" => device[d].username /\ device[d].hash = req[r].pw

SaveFresh(r) ==
    Saving(req[r]) =>
        \A d \in req[r].devs :
            /\ device[d].live
            /\ req[r].copy[d].username <=> device[d].username
            /\ req[r].op = "update" => req[r].copy[d].group = device[d].group

RenameFresh(r) == req[r].op = "rename" => req[r].devs = Members(req[r].grp)

ListOf(work, list) ==
    CASE work.op = "zassign" /\ work.stage = "save" -> list \cup work.dev
      [] work.op = "zremove" -> list \ work.dev
      [] OTHER -> list

AssignFresh(r) ==
    Assigning(req[r]) =>
        /\ IsLive(req[r].zone)
        /\ req[r].devs = ListOf(req[r], zone[req[r].zone].devices)

UpToDate(r) == IssueFresh(r) /\ SaveFresh(r) /\ RenameFresh(r) /\ AssignFresh(r)

(* The credentials of a device nobody issues new ones for. *)
Credentials(d) ==
    /\ device[d].live /\ d \notin doubtful
    /\ \A r \in Requests : Issuing(req[r]) => d \notin req[r].devs
    => device[d].username /\ device[d].hash = handed[d] /\ device[d].hash # 0

GroupKept(d) == device[d].live /\ d \notin mixed => device[d].group = asked[d]

Assigned(z) ==
    /\ ~IsLive(z) => wanted[z] = {} /\ zone[z].devices = {}
    /\ z \notin blurred => zone[z].devices = wanted[z]

(* How many devices a listing shows before w; and the devices there all along
   that the pages read so far should have shown and did not. *)
Rank(ds, w) == Cardinality({e \in ds : e > w})
Skipped(ds, work) == {w \in work.whole \ work.seen : Rank(ds, w) < (work.page - 1) * Limit}

ListingSoFar(r) ==
    req[r].op = "list" =>
        /\ req[r].whole \subseteq Live
        /\ Cardinality(Skipped(Live, req[r])) <= req[r].gone
        /\ req[r].over => Cardinality(req[r].whole \ req[r].seen) <= req[r].gone

FleetSoFar ==
    /\ \A r \in Requests \ stale : UpToDate(r)
    /\ \A d \in Devices : Credentials(d) /\ GroupKept(d)
    /\ \A z \in ZoneIds : Assigned(z)
    /\ \A r \in Requests : ListingSoFar(r)

-----------------------------------------------------------------------------
(* The works a handler can be at. *)

LEMMA OpsDiffer ==
    /\ "idle" \notin FleetOps \cup ZoneOps /\ "list" \notin FleetOps \cup ZoneOps
    /\ FleetOps \cap ZoneOps = {} /\ "idle" # "list"
BY DEF FleetOps, ZoneOps

LEMMA WorkIs ==
    ASSUME NEW work \in Works
    PROVE  /\ work.op \in FleetOps => work \in Edits /\ WellShaped(work)
           /\ work.op \in ZoneOps => work \in Zonings
           /\ work.op = "list" => work \in Listings
           /\ work.op = "idle" => work = Idle
           /\ work.op \in {"idle", "list"} \cup FleetOps \cup ZoneOps
           /\ Issuing(work) \/ Saving(work) \/ work.op = "rename" => work.op \in FleetOps
           /\ Assigning(work) => work.op \in ZoneOps
<1>1. work = Idle => work.op = "idle"
    BY DEF Idle
<1>2. work \in Listings => work.op = "list"
    BY DEF Listings
<1>3. work \in Edits => work.op \in FleetOps
    BY DEF Edits
<1>4. work \in Zonings => work.op \in ZoneOps
    BY DEF Zonings
<1>5. /\ Issuing(work) \/ Saving(work) \/ work.op = "rename" => work.op \in FleetOps
      /\ Assigning(work) => work.op \in ZoneOps
    BY DEF Issuing, Saving, Assigning, FleetOps, ZoneOps
<1>6. work = Idle \/ work \in Listings \/ (work \in Edits /\ WellShaped(work)) \/ work \in Zonings
    BY DEF Works
<1>. QED  BY <1>1, <1>2, <1>3, <1>4, <1>5, <1>6, OpsDiffer

LEMMA NoCopies == <<>> \in Copies
<1>1. <<>> \in [{} -> Device]
    OBVIOUS
<1>. QED  BY <1>1 DEF Copies

(* A work with one of its fields set. *)
WithCopy(work, copy) == [work EXCEPT !.copy = copy]
WithPw(work, pw) == [work EXCEPT !.pw = pw]
WithDev(work, new) == [work EXCEPT !.dev = new]
WithGeom(work, geom) == [work EXCEPT !.geom = geom]

LEMMA EditingIs ==
    ASSUME NEW op \in FleetOps, NEW stage \in {"issue", "answer", "save", "find"},
           NEW ds \in SUBSET Devices, NEW g \in Groups \cup {NoGroup},
           NEW copy \in Copies, NEW pw \in 0 .. MaxCalls
    PROVE  /\ Editing(op, stage, ds, g) \in Edits
           /\ WithCopy(Editing(op, stage, ds, g), copy) =
                 [op |-> op, stage |-> stage, devs |-> ds, grp |-> g, copy |-> copy, pw |-> 0]
           /\ WithCopy(Editing(op, stage, ds, g), copy) \in Edits
           /\ WithPw(Editing(op, stage, ds, g), pw) =
                 [op |-> op, stage |-> stage, devs |-> ds, grp |-> g, copy |-> <<>>, pw |-> pw]
           /\ WithPw(Editing(op, stage, ds, g), pw) \in Edits
<1>1. PICK none \in Copies : none = <<>>
    BY NoCopies
<1>2. Editing(op, stage, ds, g)
        = [op |-> op, stage |-> stage, devs |-> ds, grp |-> g, copy |-> none, pw |-> 0]
    BY <1>1 DEF Editing
<1>3. WithCopy(Editing(op, stage, ds, g), copy)
        = [op |-> op, stage |-> stage, devs |-> ds, grp |-> g, copy |-> copy, pw |-> 0]
    BY <1>2 DEF WithCopy
<1>4. WithPw(Editing(op, stage, ds, g), pw)
        = [op |-> op, stage |-> stage, devs |-> ds, grp |-> g, copy |-> none, pw |-> pw]
    BY <1>2 DEF WithPw
<1>5. \A c \in Copies, n \in 0 .. MaxCalls :
          [op |-> op, stage |-> stage, devs |-> ds, grp |-> g, copy |-> c, pw |-> n] \in Edits
    BY DEF Edits
<1>6. 0 \in 0 .. MaxCalls
    BY FleetAssumption
<1>. QED  BY <1>1, <1>2, <1>3, <1>4, <1>5, <1>6

LEMMA RowsAre ==
    /\ NoRow \in Device /\ ~NoRow.live /\ NoRow.group = NoGroup /\ NoRow.hash = 0
    /\ \A entry \in Device : entry.live =>
          entry \in [live: {TRUE}, group: Groups \cup {NoGroup}, username: BOOLEAN, hash: Passwords]
<1>1. ~NoRow.live
    BY Zenon DEF NoRow
<1>. QED  BY <1>1 DEF Device, NoRow

LEMMA CopiesAre ==
    /\ \A copy \in Copies : DOMAIN copy \subseteq Devices
                            /\ \A d \in DOMAIN copy : copy[d] \in Device
    /\ \A ds \in SUBSET Devices : [ds -> Device] \subseteq Copies
BY DEF Copies

(* One handler goes on to another work. *)
LEMMA OneWorks ==
    ASSUME req \in [Requests -> Works], NEW q \in Requests, NEW work \in Works,
           req' = [req EXCEPT ![q] = work]
    PROVE  /\ req' \in [Requests -> Works] /\ req'[q] = work
           /\ \A r \in Requests : r # q => req'[r] = req[r]
OBVIOUS

(* Handlers that hold nothing are up to date. *)
LEMMA NothingHeld ==
    ASSUME NEW r \in Requests, req \in [Requests -> Works], req[r].op \in {"idle", "list"}
    PROVE  UpToDate(r)
<1>1. ~Issuing(req[r]) /\ ~Saving(req[r]) /\ ~Assigning(req[r]) /\ req[r].op # "rename"
    BY DEF Issuing, Saving, Assigning
<1>. QED  BY <1>1 DEF UpToDate, IssueFresh, SaveFresh, RenameFresh, AssignFresh

(* Handler r stays up to date when what it has read does not change: its
   devices, the members of its group, the list of its zone. *)
LEMMA StaysUpToDate ==
    ASSUME FleetInv, NEW r \in Requests, req'[r] = req[r], UpToDate(r),
           Relies(req[r]) => \A d \in req[r].devs : device'[d] = device[d],
           req[r].op = "rename" =>
               \A d \in Devices \ req[r].devs :
                   device'[d] = device[d] \/ ~device'[d].live \/ device'[d].group # req[r].grp,
           Assigning(req[r]) =>
               /\ zone'[req[r].zone].state = zone[req[r].zone].state
               /\ zone'[req[r].zone].devices = zone[req[r].zone].devices
    PROVE  UpToDate(r)'
<1>1. Relies(req[r]) <=> Issuing(req[r]) \/ Saving(req[r]) \/ req[r].op = "rename"
    BY DEF Relies
<1>2. IssueFresh(r)'
    <2> SUFFICES ASSUME Issuing(req[r]), NEW d \in req[r].devs
                 PROVE  /\ device'[d].live
                        /\ req[r].stage = "answer" =>
                              device'[d].username /\ device'[d].hash = req[r].pw
        BY DEF IssueFresh
    <2>1. device'[d] = device[d]
        BY <1>1
    <2>. QED  BY <2>1 DEF UpToDate, IssueFresh
<1>3. SaveFresh(r)'
    <2> SUFFICES ASSUME Saving(req[r]), NEW d \in req[r].devs
                 PROVE  /\ device'[d].live
                        /\ req[r].copy[d].username <=> device'[d].username
                        /\ req[r].op = "update" => req[r].copy[d].group = device'[d].group
        BY DEF SaveFresh
    <2>1. device'[d] = device[d]
        BY <1>1
    <2>. QED  BY <2>1 DEF UpToDate, SaveFresh
<1>4. RenameFresh(r)'
    <2> SUFFICES ASSUME req[r].op = "rename" PROVE Members(req[r].grp)' = Members(req[r].grp)
        BY DEF UpToDate, RenameFresh, Members
    <2>1. \A d \in req[r].devs : device'[d] = device[d]
        BY <1>1
    <2>2. \A d \in Devices :
              device'[d].live /\ device'[d].group = req[r].grp
                 <=> device[d].live /\ device[d].group = req[r].grp
        BY <2>1 DEF UpToDate, RenameFresh, Members, Live
    <2>. QED  BY <2>2 DEF Members, Live
<1>5. AssignFresh(r)'
    BY DEF UpToDate, AssignFresh, IsLive
<1>. QED  BY <1>2, <1>3, <1>4, <1>5 DEF UpToDate

(* The credentials of d stay as they are, or become doubtful. *)
LEMMA CredentialsStay ==
    ASSUME NEW d \in Devices, Credentials(d),
           \/ d \in doubtful'
           \/ /\ device'[d].live =>
                    /\ device[d].live /\ device[d].username => device'[d].username
                    /\ device[d].live /\ device'[d].hash = device[d].hash
              /\ d \in doubtful => d \in doubtful'
              /\ handed'[d] = handed[d]
              /\ \A r \in Requests : Issuing(req[r]) /\ d \in req[r].devs =>
                     (Issuing(req[r]) /\ d \in req[r].devs)'
    PROVE  Credentials(d)'
BY DEF Credentials

(* Ranks: the set counted is finite, and a device that joins or leaves the
   listing moves the others by one place at most. *)
LEMMA RankIs ==
    ASSUME NEW ds \in SUBSET Devices, NEW w \in Devices
    PROVE  IsFiniteSet({e \in ds : e > w}) /\ Rank(ds, w) \in Nat
<1>1. {e \in ds : e > w} \in SUBSET Devices /\ IsFiniteSet(Devices)
    BY FleetAssumption
<1>2. IsFiniteSet({e \in ds : e > w})
    BY <1>1, FS_Subset
<1>. QED  BY <1>2, FS_CardinalityType DEF Rank

LEMMA RankGrows ==
    ASSUME NEW more \in SUBSET Devices, NEW ds \in SUBSET more, NEW w \in Devices
    PROVE  Rank(ds, w) <= Rank(more, w)
<1>1. {e \in ds : e > w} \in SUBSET {e \in more : e > w}
    OBVIOUS
<1>. QED  BY <1>1, RankIs, FS_Subset DEF Rank

LEMMA RankShifts ==
    ASSUME NEW ds \in SUBSET Devices, NEW w \in Devices, NEW d \in Devices
    PROVE  Rank(ds \ {d}, w) >= Rank(ds, w) - 1
<1>1. {e \in ds \ {d} : e > w} = {e \in ds : e > w} \ {d}
    OBVIOUS
<1>2. IsFiniteSet({e \in ds : e > w})
    BY RankIs
<1>3. Cardinality({e \in ds : e > w} \ {d}) =
          IF d \in {e \in ds : e > w} THEN Cardinality({e \in ds : e > w}) - 1
          ELSE Cardinality({e \in ds : e > w})
    BY <1>2, FS_RemoveElement
<1>4. Cardinality({e \in ds : e > w}) \in Nat
    BY <1>2, FS_CardinalityType
<1>5. Cardinality({e \in ds \ {d} : e > w}) >= Cardinality({e \in ds : e > w}) - 1
    BY <1>1, <1>3, <1>4
<1>. QED  BY <1>5 DEF Rank

LEMMA RanksDiffer ==
    ASSUME NEW ds \in SUBSET Devices, NEW v \in ds, NEW w \in ds, v # w
    PROVE  Rank(ds, v) # Rank(ds, w)
<1>1. ASSUME NEW x \in ds, NEW y \in ds, x < y PROVE Rank(ds, y) # Rank(ds, x)
    <2>1. {e \in ds : e > y} \in SUBSET {e \in ds : e > x}
        <3>1. \A e \in ds : e \in Nat
            BY FleetAssumption
        <3>2. \A e \in ds : e > y => e > x
            BY <1>1, <3>1
        <3>. QED  BY <3>2
    <2>2. y \in {e \in ds : e > x} /\ y \notin {e \in ds : e > y}
        BY <1>1, FleetAssumption
    <2>3. {e \in ds : e > y} # {e \in ds : e > x}
        BY <2>2
    <2>. QED  BY <2>1, <2>3, RankIs, FS_Subset DEF Rank
<1>2. v < w \/ w < v
    BY FleetAssumption
<1>. QED  BY <1>1, <1>2

(* Every device of a listing comes before the number of its devices. *)
LEMMA RankBelow ==
    ASSUME NEW ds \in SUBSET Devices, NEW w \in ds
    PROVE  Rank(ds, w) < Cardinality(ds) /\ Cardinality(ds) \in Nat
<1>1. IsFiniteSet(ds) /\ {e \in ds : e > w} \in SUBSET ds
    BY FleetAssumption, FS_Subset
<1>2. w \notin {e \in ds : e > w}
    BY FleetAssumption
<1>3. {e \in ds : e > w} # ds
    BY <1>2
<1>4. Cardinality({e \in ds : e > w}) <= Cardinality(ds)
      /\ Cardinality(ds) # Cardinality({e \in ds : e > w})
    BY <1>1, <1>3, FS_Subset
<1>5. Cardinality(ds) \in Nat /\ Cardinality({e \in ds : e > w}) \in Nat
    BY <1>1, FS_CardinalityType, RankIs DEF Rank
<1>. QED  BY <1>4, <1>5 DEF Rank

(* The pages up to the last hold all devices. *)
LEMMA PagesSuffice ==
    ASSUME NEW n \in Nat, NEW page \in Nat, page >= (n + Limit - 1) \div Limit
    PROVE  n <= page * Limit
<1> DEFINE k == n + Limit - 1
           count == k \div Limit
<1>1. Limit \in Nat /\ Limit > 0 /\ k \in Nat
    BY FleetAssumption
<1>2. count \in Int /\ Limit * count + (k % Limit) = k /\ k % Limit \in 0 .. Limit - 1
    BY <1>1
<1>. QED  BY <1>1, <1>2

-----------------------------------------------------------------------------
(* Steps that write no table. *)

LEMMA TypesAre ==
    ASSUME FleetInv
    PROVE  /\ device \in [Devices -> Device] /\ req \in [Requests -> Works]
           /\ handed \in [Devices -> Passwords] /\ asked \in [Devices -> Groups \cup {NoGroup}]
           /\ zone \in [ZoneIds -> Geofence] /\ wanted \in [ZoneIds -> SUBSET Devices]
           /\ unborn \subseteq Devices \cup Groups /\ group \subseteq Groups
           /\ mixed \subseteq Devices /\ doubtful \subseteq Devices
           /\ stale \subseteq Requests /\ blurred \subseteq ZoneIds
           /\ calls \in 0 .. MaxCalls /\ faults \in 0 .. MaxFaults
BY DEF FleetInv, TypeOK, FleetTypeOK

LEMMA TypesMake ==
    ASSUME device' \in [Devices -> Device], req' \in [Requests -> Works],
           handed' \in [Devices -> Passwords], asked' \in [Devices -> Groups \cup {NoGroup}],
           zone' \in [ZoneIds -> Geofence], wanted' \in [ZoneIds -> SUBSET Devices],
           unborn' \subseteq Devices \cup Groups, group' \subseteq Groups,
           mixed' \subseteq Devices, doubtful' \subseteq Devices,
           stale' \subseteq Requests, blurred' \subseteq ZoneIds,
           calls' \in 0 .. MaxCalls, faults' \in 0 .. MaxFaults, UnbornUntouched'
    PROVE  FleetInv'
<1>1. \A q \in Requests : req'[q].op \in {"idle", "list"} \cup FleetOps \cup ZoneOps
    BY WorkIs
<1>. QED  BY <1>1 DEF FleetInv, TypeOK, FleetTypeOK

LEMMA RequestMoves ==
    ASSUME FleetInv, FleetSoFar, NEW q \in Requests, NEW work \in Works,
           req' = [req EXCEPT ![q] = work],
           UNCHANGED <<device, unborn, group, handed, asked, mixed, zone, wanted, blurred>>,
           calls' \in 0 .. MaxCalls, faults' \in 0 .. MaxFaults,
           doubtful' \subseteq Devices, doubtful \subseteq doubtful',
           stale' \subseteq Requests, stale \ {q} \subseteq stale',
           Saving(work) => work.devs \cap unborn = {},
           Issuing(req[q]) =>
               req[q].devs \subseteq doubtful' \/ (Issuing(work) /\ work.devs = req[q].devs),
           q \notin stale' => UpToDate(q)', ListingSoFar(q)'
    PROVE  FleetInv' /\ FleetSoFar'
<1>1. /\ req' \in [Requests -> Works] /\ req'[q] = work
      /\ \A r \in Requests : r # q => req'[r] = req[r]
    BY OneWorks, TypesAre
<1>2. UnbornUntouched'
    <2> SUFFICES ASSUME NEW d \in Devices \cap unborn
                 PROVE  /\ ~device[d].live /\ asked[d] = NoGroup
                        /\ \A r \in Requests : Saving(req'[r]) => d \notin req'[r].devs
        BY DEF UnbornUntouched, Saving
    <2>1. /\ ~device[d].live /\ asked[d] = NoGroup
          /\ \A r \in Requests : Saving(req[r]) => d \notin req[r].devs
        BY DEF FleetInv, UnbornUntouched
    <2>. QED  BY <1>1, <2>1
<1>3. FleetInv'
    BY <1>1, <1>2, TypesAre, TypesMake
<1>4. ASSUME NEW r \in Requests \ stale' PROVE UpToDate(r)'
    <2>1. CASE r = q
        BY <1>4, <2>1
    <2>2. CASE r # q
        <3>1. UpToDate(r) /\ req'[r] = req[r]
            BY <1>1, <1>4, <2>2 DEF FleetSoFar
        <3>. QED  BY <3>1, StaysUpToDate
    <2>. QED  BY <2>1, <2>2
<1>5. ASSUME NEW d \in Devices PROVE Credentials(d)' /\ GroupKept(d)'
    <2>1. Credentials(d) /\ GroupKept(d)
        BY DEF FleetSoFar
    <2>2. GroupKept(d)'
        BY <2>1 DEF GroupKept
    <2>3. CASE d \in doubtful'
        BY <2>1, <2>2, <2>3, CredentialsStay
    <2>4. CASE d \notin doubtful'
        <3>1. \A r \in Requests : Issuing(req[r]) /\ d \in req[r].devs =>
                  (Issuing(req[r]) /\ d \in req[r].devs)'
            BY <1>1, <2>4 DEF Issuing
        <3>. QED  BY <2>1, <2>2, <3>1, CredentialsStay
    <2>. QED  BY <2>3, <2>4
<1>6. ASSUME NEW z \in ZoneIds PROVE Assigned(z)'
    BY DEF FleetSoFar, Assigned, IsLive
<1>7. ASSUME NEW r \in Requests PROVE ListingSoFar(r)'
    <2>1. CASE r = q
        BY <2>1
    <2>2. CASE r # q
        BY <1>1, <2>2 DEF FleetSoFar, ListingSoFar, Live
    <2>. QED  BY <2>1, <2>2
<1>. QED  BY <1>3, <1>4, <1>5, <1>6, <1>7 DEF FleetSoFar

LEMMA IdleWorks ==
    /\ Idle \in Works /\ ~Saving(Idle) /\ ~Issuing(Idle) /\ Idle.op = "idle"
BY DEF Works, Idle, Saving, Issuing

(* A handler takes a request up and reads. *)
LEMMA StartKeeps ==
    ASSUME FleetInv, FleetSoFar, NEW q \in Requests, NEW work \in Works, Call(q, work),
           UNCHANGED <<fleet, zones, faults>>,
           Saving(work) => work.devs \cap unborn = {},
           req' = [req EXCEPT ![q] = work] /\ req'[q] = work => UpToDate(q)' /\ ListingSoFar(q)'
    PROVE  FleetInv' /\ FleetSoFar'
<1>1. /\ req[q] = Idle /\ calls < MaxCalls /\ calls' = calls + 1
      /\ req' = [req EXCEPT ![q] = work] /\ stale' = stale \ {q}
    BY DEF Call
<1>2. req'[q] = work
    BY <1>1, OneWorks, TypesAre
<1>3. UNCHANGED <<device, unborn, group, handed, asked, mixed, doubtful, zone, wanted, blurred>>
    BY DEF fleet, zones
<1>4. calls' \in 0 .. MaxCalls /\ faults' \in 0 .. MaxFaults /\ stale' \subseteq Requests
      /\ doubtful' \subseteq Devices
    BY <1>1, <1>3, TypesAre, FleetAssumption
<1>5. ~Issuing(req[q])
    BY <1>1, IdleWorks
<1>. QED  BY <1>1, <1>2, <1>3, <1>4, <1>5, RequestMoves

LEMMA ReadDeviceKeeps ==
    ASSUME FleetInv, FleetSoFar, NEW q \in Requests, NEW d \in Devices, ReadDevice(q, d),
           UNCHANGED zones
    PROVE  FleetInv' /\ FleetSoFar'
<1>1. d \in Live /\ device[d] \in Device /\ device[d].live
    BY TypesAre DEF ReadDevice, Live
<1>2. d \notin unborn
    BY <1>1 DEF FleetInv, UnbornUntouched
<1>3. UNCHANGED <<device, faults>> /\ UNCHANGED fleet
    BY DEF ReadDevice, fleet
<1>4. {d} \in SUBSET Devices /\ 0 \in 0 .. MaxCalls /\ NoGroup \in Groups \cup {NoGroup}
    BY FleetAssumption
<1>5. ASSUME NEW copy, copy = [e \in {d} |-> device[e]],
             NEW work, work = WithCopy(Editing("update", "save", {d}, NoGroup), copy),
             Call(q, work)
      PROVE  FleetInv' /\ FleetSoFar'
    <2>1. copy \in [{d} -> Device] /\ copy[d] = device[d] /\ DOMAIN copy = {d}
        BY <1>1, <1>5
    <2>2. copy \in Copies
        BY <2>1, <1>4, CopiesAre
    <2>3. "update" \in FleetOps
        BY DEF FleetOps
    <2>4. work \in Edits
          /\ work = [op |-> "update", stage |-> "save", devs |-> {d}, grp |-> NoGroup,
                     copy |-> copy, pw |-> 0]
        BY <1>4, <1>5, <2>2, <2>3, EditingIs
    <2>5. work.op = "update" /\ work.stage = "save" /\ work.devs = {d} /\ work.copy = copy
        BY <2>4
    <2>6. ~Issuing(work) /\ Saving(work) /\ ~Assigning(work) /\ work.op # "rename"
        BY <2>5 DEF Issuing, Saving, Assigning
    <2>7. work \in Works
        BY <1>1, <2>1, <2>4, <2>5, <2>6 DEF Works, WellShaped
    <2>8. ASSUME req'[q] = work PROVE UpToDate(q)' /\ ListingSoFar(q)'
        <3>1. IssueFresh(q)' /\ RenameFresh(q)' /\ AssignFresh(q)' /\ ListingSoFar(q)'
            BY <2>5, <2>6, <2>8 DEF IssueFresh, RenameFresh, AssignFresh, ListingSoFar
        <3>2. SaveFresh(q)'
            BY <1>1, <1>3, <2>1, <2>5, <2>8 DEF SaveFresh
        <3>. QED  BY <3>1, <3>2 DEF UpToDate
    <2>. QED  BY <1>2, <1>3, <1>5, <2>5, <2>7, <2>8, StartKeeps
<1>6. ASSUME NEW work,
             work = WithPw(Editing("regenerate", "issue", {d}, NoGroup), calls + 1),
             Call(q, work)
      PROVE  FleetInv' /\ FleetSoFar'
    <2>1. calls + 1 \in 0 .. MaxCalls /\ calls + 1 # 0
        BY <1>6, TypesAre, FleetAssumption DEF Call
    <2>2. "regenerate" \in FleetOps
        BY DEF FleetOps
    <2>3. work \in Edits
          /\ work = [op |-> "regenerate", stage |-> "issue", devs |-> {d}, grp |-> NoGroup,
                     copy |-> <<>>, pw |-> calls + 1]
        BY <1>4, <1>6, <2>1, <2>2, NoCopies, EditingIs
    <2>4. work.op = "regenerate" /\ work.stage = "issue" /\ work.devs = {d}
          /\ work.pw = calls + 1
        BY <2>3
    <2>5. Issuing(work) /\ ~Saving(work) /\ ~Assigning(work) /\ work.op # "rename"
        BY <2>4 DEF Issuing, Saving, Assigning
    <2>6. work \in Works
        BY <2>1, <2>3, <2>4, <2>5 DEF Works, WellShaped
    <2>7. ASSUME req'[q] = work PROVE UpToDate(q)' /\ ListingSoFar(q)'
        <3>1. SaveFresh(q)' /\ RenameFresh(q)' /\ AssignFresh(q)' /\ ListingSoFar(q)'
            BY <2>4, <2>5, <2>7 DEF SaveFresh, RenameFresh, AssignFresh, ListingSoFar
        <3>2. IssueFresh(q)'
            BY <1>1, <1>3, <2>4, <2>7 DEF IssueFresh
        <3>. QED  BY <3>1, <3>2 DEF UpToDate
    <2>. QED  BY <1>3, <1>6, <2>5, <2>6, <2>7, StartKeeps
<1>. QED  BY <1>5, <1>6 DEF ReadDevice, WithCopy, WithPw

LEMMA ReadGroupKeeps ==
    ASSUME FleetInv, FleetSoFar, NEW q \in Requests, NEW g \in Groups, ReadGroup(q, g),
           UNCHANGED zones
    PROVE  FleetInv' /\ FleetSoFar'
<1>1. PICK ds \in SUBSET Devices : ds = Members(g)
    BY DEF Members, Live
<1>2. PICK work : work = Editing("rename", "save", ds, g)
    OBVIOUS
<1>3. Call(q, work) /\ UNCHANGED <<fleet, faults>> /\ UNCHANGED device
    BY <1>1, <1>2 DEF ReadGroup, fleet
<1>4. "rename" \in FleetOps /\ 0 \in 0 .. MaxCalls
    BY FleetAssumption DEF FleetOps
<1>5. work \in Edits
    BY <1>2, <1>4, NoCopies, EditingIs
<1>6. work.op = "rename" /\ work.devs = ds /\ work.grp = g
    BY <1>2 DEF Editing
<1>7. ~Issuing(work) /\ ~Saving(work) /\ ~Assigning(work)
    BY <1>6 DEF Issuing, Saving, Assigning
<1>8. work \in Works
    BY <1>5, <1>6, <1>7 DEF Works, WellShaped
<1>9. ASSUME req'[q] = work PROVE UpToDate(q)' /\ ListingSoFar(q)'
    <2>1. IssueFresh(q)' /\ SaveFresh(q)' /\ AssignFresh(q)' /\ ListingSoFar(q)'
        BY <1>6, <1>7, <1>9 DEF IssueFresh, SaveFresh, AssignFresh, ListingSoFar
    <2>2. Members(g)' = Members(g)
        BY <1>3 DEF Members, Live
    <2>3. RenameFresh(q)'
        BY <1>1, <1>6, <1>9, <2>2 DEF RenameFresh, Members, Live
    <2>. QED  BY <2>1, <2>3 DEF UpToDate
<1>. QED  BY <1>3, <1>7, <1>8, <1>9, StartKeeps

LEMMA FindGroupKeeps ==
    ASSUME FleetInv, FleetSoFar, NEW q \in Requests, NEW g \in Groups,
           NEW ds \in SUBSET Devices, FindGroup(q, g, ds), UNCHANGED zones
    PROVE  FleetInv' /\ FleetSoFar'
<1>1. PICK op \in {"assign", "unassign"} : Call(q, Editing(op, "find", ds, g))
    BY DEF FindGroup
<1>2. PICK work : work = Editing(op, "find", ds, g)
    OBVIOUS
<1>3. UNCHANGED <<fleet, faults>>
    BY DEF FindGroup
<1>4. op \in FleetOps /\ 0 \in 0 .. MaxCalls
    BY FleetAssumption DEF FleetOps
<1>5. work \in Edits
    BY <1>2, <1>4, NoCopies, EditingIs
<1>6. work.op = op /\ work.stage = "find"
    BY <1>2 DEF Editing
<1>7. ~Issuing(work) /\ ~Saving(work) /\ ~Assigning(work) /\ work.op # "rename" /\ work.op # "list"
    BY <1>6 DEF Issuing, Saving, Assigning
<1>8. work \in Works
    BY <1>5, <1>7 DEF Works, WellShaped
<1>9. ASSUME req'[q] = work PROVE UpToDate(q)' /\ ListingSoFar(q)'
    BY <1>7, <1>9 DEF UpToDate, IssueFresh, SaveFresh, RenameFresh, AssignFresh, ListingSoFar
<1>. QED  BY <1>1, <1>2, <1>3, <1>7, <1>8, <1>9, StartKeeps

LEMMA StartListingKeeps ==
    ASSUME FleetInv, FleetSoFar, NEW q \in Requests, StartListing(q), UNCHANGED zones
    PROVE  FleetInv' /\ FleetSoFar'
<1>1. PICK ds \in SUBSET Devices : ds = Live
    BY DEF Live
<1>2. PICK work : work = [op |-> "list", page |-> 1, seen |-> {}, over |-> FALSE,
                          whole |-> ds, gone |-> 0]
    OBVIOUS
<1>3. Call(q, work) /\ UNCHANGED <<fleet, faults>> /\ UNCHANGED device
    BY <1>1, <1>2 DEF StartListing, fleet
<1>4. work \in Listings
    BY <1>2 DEF Listings
<1>5. work.op = "list"
    BY <1>2
<1>6. ~Issuing(work) /\ ~Saving(work) /\ ~Assigning(work) /\ work.op # "rename"
    BY <1>5 DEF Issuing, Saving, Assigning
<1>7. work \in Works
    BY <1>4 DEF Works
<1>8. ASSUME req'[q] = work PROVE UpToDate(q)' /\ ListingSoFar(q)'
    <2>1. UpToDate(q)'
        BY <1>6, <1>8 DEF UpToDate, IssueFresh, SaveFresh, RenameFresh, AssignFresh
    <2>2. Skipped(ds, work) = {}
        <3>1. work.page = 1 /\ work.whole = ds
            BY <1>2
        <3>2. ASSUME NEW w \in ds PROVE ~(Rank(ds, w) < (1 - 1) * Limit)
            <4>1. (1 - 1) * Limit = 0
                BY FleetAssumption
            <4>2. Rank(ds, w) \in Nat
                BY RankIs
            <4>. QED  BY <4>1, <4>2
        <3>. QED  BY <3>1, <3>2 DEF Skipped
    <2>3. Live' = ds
        BY <1>1, <1>3 DEF Live
    <2>4. work.whole = ds /\ work.gone = 0 /\ ~work.over
        BY <1>2
    <2>5. Cardinality(Skipped(ds, work)) <= 0
        BY <2>2, FS_EmptySet
    <2>6. ListingSoFar(q)'
        BY <1>8, <2>3, <2>4, <2>5 DEF ListingSoFar
    <2>. QED  BY <2>1, <2>6
<1>. QED  BY <1>3, <1>6, <1>7, <1>8, StartKeeps

LEMMA ZoningWithDev ==
    ASSUME NEW op \in ZoneOps, NEW stage \in {"shape", "save", "device"}, NEW z \in ZoneIds,
           NEW ds \in SUBSET Devices, NEW new \in SUBSET Devices,
           NEW work, work = WithDev(Zoning(op, stage, z, ds), new)
    PROVE  /\ work \in Zonings /\ work.op = op /\ work.stage = stage /\ work.zone = z
           /\ work.devs = ds /\ work.dev = new
<1>1. PICK no \in BOOLEAN : no = FALSE
    OBVIOUS
<1>2. Zoning(op, stage, z, ds)
        = [op |-> op, stage |-> stage, zone |-> z, devs |-> ds, dev |-> {}, geom |-> no]
    BY <1>1, Zenon DEF Zoning
<1>3. work = [op |-> op, stage |-> stage, zone |-> z, devs |-> ds, dev |-> new, geom |-> no]
    BY <1>2 DEF WithDev
<1>. QED  BY <1>3 DEF Zonings

LEMMA ZoningWithGeom ==
    ASSUME NEW op \in ZoneOps, NEW stage \in {"shape", "save", "device"}, NEW z \in ZoneIds,
           NEW ds \in SUBSET Devices, NEW geom \in BOOLEAN,
           NEW work, work = WithGeom(Zoning(op, stage, z, ds), geom)
    PROVE  work \in Zonings /\ work.op = op
<1>1. PICK no \in BOOLEAN : no = FALSE
    OBVIOUS
<1>2. Zoning(op, stage, z, ds)
        = [op |-> op, stage |-> stage, zone |-> z, devs |-> ds, dev |-> {}, geom |-> no]
    BY <1>1, Zenon DEF Zoning
<1>3. work = [op |-> op, stage |-> stage, zone |-> z, devs |-> ds, dev |-> {}, geom |-> geom]
    BY <1>2 DEF WithGeom
<1>. QED  BY <1>3 DEF Zonings

LEMMA ReadZoneKeeps ==
    ASSUME FleetInv, FleetSoFar, NEW q \in Requests, NEW z \in ZoneIds, ReadZone(q, z)
    PROVE  FleetInv' /\ FleetSoFar'
<1>1. PICK geom \in BOOLEAN, stage \in {"save", "shape"} :
          Call(q, WithGeom(Zoning("zupdate", stage, z, {}), geom))
    BY DEF ReadZone, WithGeom
<1>2. PICK work : work = WithGeom(Zoning("zupdate", stage, z, {}), geom)
    OBVIOUS
<1>3. UNCHANGED <<fleet, zones, faults>>
    BY DEF ReadZone
<1>4. "zupdate" \in ZoneOps
    BY DEF ZoneOps
<1>5. work \in Zonings /\ work.op = "zupdate"
    BY <1>2, <1>4, ZoningWithGeom
<1>6. ~Issuing(work) /\ ~Saving(work) /\ ~Assigning(work) /\ work.op # "rename" /\ work.op # "list"
    BY <1>5 DEF Issuing, Saving, Assigning
<1>7. work \in Works
    BY <1>5 DEF Works
<1>8. ASSUME req'[q] = work PROVE UpToDate(q)' /\ ListingSoFar(q)'
    BY <1>6, <1>8 DEF UpToDate, IssueFresh, SaveFresh, RenameFresh, AssignFresh, ListingSoFar
<1>. QED  BY <1>1, <1>2, <1>3, <1>6, <1>7, <1>8, StartKeeps

LEMMA ReadMembersKeeps ==
    ASSUME FleetInv, FleetSoFar, NEW q \in Requests, NEW z \in ZoneIds, NEW d \in Devices,
           ReadMembers(q, z, d)
    PROVE  FleetInv' /\ FleetSoFar'
<1>1. zone[z].devices \in SUBSET Devices
    BY TypesAre DEF Geofence
<1>2. PICK op \in {"zassign", "zremove"}, stage \in {"device", "save"}, ds \in SUBSET Devices :
          /\ Call(q, WithDev(Zoning(op, stage, z, ds), {d}))
          /\ op = "zassign" => stage = "device" /\ ds = zone[z].devices
          /\ op = "zremove" => stage = "save" /\ ds = zone[z].devices \ {d}
    <2>1. CASE Call(q, WithDev(Zoning("zassign", "device", z, zone[z].devices), {d}))
        BY <1>1, <2>1
    <2>2. CASE Call(q, WithDev(Zoning("zremove", "save", z, zone[z].devices \ {d}), {d}))
        <3>1. zone[z].devices \ {d} \in SUBSET Devices
            BY <1>1
        <3>. QED  BY <2>2, <3>1
    <2>. QED  BY <2>1, <2>2 DEF ReadMembers, WithDev
<1>3. PICK work : work = WithDev(Zoning(op, stage, z, ds), {d})
    OBVIOUS
<1>4. UNCHANGED <<fleet, zones, faults>> /\ UNCHANGED zone /\ IsLive(z)
    BY DEF ReadMembers, zones
<1>5. op \in ZoneOps /\ {d} \in SUBSET Devices
    BY DEF ZoneOps
<1>6. {"device", "save"} \subseteq {"shape", "save", "device"}
    OBVIOUS
<1>7. /\ work \in Zonings
      /\ work.op = op /\ work.stage = stage /\ work.zone = z /\ work.devs = ds /\ work.dev = {d}
    BY <1>3, <1>5, <1>6, ZoningWithDev
<1>8. ~Issuing(work) /\ ~Saving(work) /\ work.op # "rename" /\ work.op # "list"
    BY <1>7 DEF Issuing, Saving
<1>9. work \in Works
    BY <1>7 DEF Works
<1>10. ASSUME req'[q] = work PROVE UpToDate(q)' /\ ListingSoFar(q)'
    <2>1. IssueFresh(q)' /\ SaveFresh(q)' /\ RenameFresh(q)' /\ ListingSoFar(q)'
        BY <1>8, <1>10 DEF IssueFresh, SaveFresh, RenameFresh, ListingSoFar
    <2>2. ListOf(work, zone[z].devices) = ds
        BY <1>2, <1>7 DEF ListOf
    <2>3. zone'[work.zone] = zone[z] /\ zone[z].state = "live"
        BY <1>4, <1>7 DEF IsLive
    <2>4. AssignFresh(q)'
        BY <1>7, <1>10, <2>2, <2>3 DEF AssignFresh, IsLive
    <2>. QED  BY <2>1, <2>4 DEF UpToDate
<1>. QED  BY <1>2, <1>3, <1>4, <1>8, <1>9, <1>10, StartKeeps

(* A handler is done, or cut. *)
LEMMA LeaveKeeps ==
    ASSUME FleetInv, FleetSoFar, NEW q \in Requests, Done(q),
           UNCHANGED <<device, unborn, group, handed, asked, mixed, zone, wanted, blurred, calls>>,
           faults' \in 0 .. MaxFaults, stale \ {q} \subseteq stale', stale' \subseteq Requests,
           doubtful' \subseteq Devices, doubtful \subseteq doubtful',
           Issuing(req[q]) => req[q].devs \subseteq doubtful'
    PROVE  FleetInv' /\ FleetSoFar'
<1>1. req' = [req EXCEPT ![q] = Idle]
    BY DEF Done
<1>2. req' \in [Requests -> Works] /\ req'[q] = Idle
    BY <1>1, OneWorks, TypesAre, IdleWorks
<1>3. ~Assigning(Idle) /\ Idle.op # "rename" /\ Idle.op # "list"
    BY DEF Idle, Assigning
<1>4. UpToDate(q)' /\ ListingSoFar(q)'
    BY <1>2, <1>3, IdleWorks
    DEF UpToDate, IssueFresh, SaveFresh, RenameFresh, AssignFresh, ListingSoFar
<1>5. calls' \in 0 .. MaxCalls
    BY TypesAre
<1>. QED  BY <1>1, <1>4, <1>5, IdleWorks, RequestMoves

LEMMA CutKeeps ==
    ASSUME FleetInv, FleetSoFar, NEW q \in Requests, CutZoning(q)
    PROVE  FleetInv' /\ FleetSoFar'
<1>1. Done(q) /\ faults < MaxFaults /\ faults' = faults + 1
      /\ UNCHANGED <<device, unborn, group, handed, asked, mixed, calls, stale, zone, wanted, blurred>>
      /\ doubtful' = IF Issuing(req[q]) THEN doubtful \cup req[q].devs ELSE doubtful
    BY DEF CutZoning, Cut, Issuing
<1>2. Issuing(req[q]) => req[q].devs \subseteq Devices
    BY TypesAre, WorkIs DEF Edits
<1>3. faults' \in 0 .. MaxFaults /\ doubtful' \subseteq Devices /\ stale' \subseteq Requests
    BY <1>1, <1>2, TypesAre, FleetAssumption
<1>. QED  BY <1>1, <1>3, LeaveKeeps

LEMMA CloseListingKeeps ==
    ASSUME FleetInv, FleetSoFar, NEW q \in Requests, CloseListing(q), UNCHANGED zones
    PROVE  FleetInv' /\ FleetSoFar'
<1>1. Done(q) /\ UNCHANGED <<fleet, zones, calls, faults, stale>> /\ req[q].op = "list"
    BY DEF CloseListing
<1>2. ~Issuing(req[q])
    BY <1>1 DEF Issuing
<1>. QED  BY <1>1, <1>2, TypesAre, LeaveKeeps DEF fleet, zones

(* The page-th page is read; the last one leaves nothing that was skipped out. *)
LEMMA FetchPageKeeps ==
    ASSUME FleetInv, FleetSoFar, NEW q \in Requests, FetchPage(q), UNCHANGED zones
    PROVE  FleetInv' /\ FleetSoFar'
<1>1. UNCHANGED <<device, unborn, group, handed, asked, mixed, doubtful, zone, wanted, blurred,
                  calls, faults, stale>>
    BY DEF FetchPage, fleet, zones
<1>2. PICK old \in Listings : old = req[q]
    BY TypesAre, WorkIs DEF FetchPage
<1>3. PICK ds \in SUBSET Devices : ds = Live
    BY DEF Live
<1>4. PICK over \in BOOLEAN : over <=> old.page >= PageCount(ds)
    OBVIOUS
<1>5. PICK next \in Nat \ {0}, seen \in SUBSET Devices :
          next = old.page + 1 /\ seen = old.seen \cup Page(ds, old.page)
    <2>1. Page(ds, old.page) \subseteq Devices
        BY DEF Page
    <2>2. old.page + 1 \in Nat \ {0}
        BY DEF Listings
    <2>3. old.seen \cup Page(ds, old.page) \in SUBSET Devices
        BY <2>1 DEF Listings
    <2>. QED  BY <2>2, <2>3
<1>6. PICK work : work = [old EXCEPT !.page = next, !.seen = seen, !.over = over]
    OBVIOUS
<1>7. req' = [req EXCEPT ![q] = work]
    <2>1. over = (old.page >= PageCount(ds))
        BY <1>4
    <2>2. old.page + 1 = next /\ old.seen \cup Page(ds, old.page) = seen
        BY <1>5
    <2>3. req' = [req EXCEPT ![q].page = old.page + 1,
                             ![q].seen = old.seen \cup Page(ds, old.page),
                             ![q].over = over]
        BY <1>2, <1>3, <2>1, Zenon DEF FetchPage
    <2>4. req' = [req EXCEPT ![q].page = next, ![q].seen = seen, ![q].over = over]
        BY <2>2, <2>3, Zenon
    <2>5. req' = [req EXCEPT ![q] = [old EXCEPT !.page = next, !.seen = seen, !.over = over]]
        BY <1>2, <2>4
    <2>. QED  BY <1>6, <2>5
<1>8. /\ work \in Listings /\ work.op = "list" /\ work.page = next
      /\ work.seen = old.seen \cup Page(ds, old.page) /\ work.whole = old.whole
      /\ work.gone = old.gone
    BY <1>5, <1>6 DEF Listings
<1>9. work.over <=> over
    BY <1>6 DEF Listings
<1>10. /\ work.page - 1 = old.page /\ old.page \in Nat /\ old.page > 0 /\ old.seen \subseteq Devices
       /\ old.whole \subseteq Devices /\ old.gone \in Nat
    BY <1>5, <1>8 DEF Listings
<1>11. old.whole \subseteq ds /\ Cardinality(Skipped(ds, old)) <= old.gone
    BY <1>2, <1>3 DEF FleetSoFar, ListingSoFar, Listings
<1>12. Skipped(ds, work) \in SUBSET Skipped(ds, old)
    <2> SUFFICES ASSUME NEW w \in old.whole, w \notin work.seen,
                        Rank(ds, w) < (work.page - 1) * Limit
                 PROVE  w \notin old.seen /\ Rank(ds, w) < (old.page - 1) * Limit
        BY <1>8 DEF Skipped
    <2>1. w \in ds /\ w \notin old.seen /\ w \notin Page(ds, old.page)
        BY <1>8, <1>11
    <2>2. Rank(ds, w) < old.page * Limit /\ Rank(ds, w) \in Nat
        BY <1>8, <1>10, <2>1, RankIs
    <2>3. ~(Rank(ds, w) >= (old.page - 1) * Limit)
        BY <2>1, <2>2 DEF Page, Rank
    <2>4. (old.page - 1) * Limit \in Int
        BY <1>10, FleetAssumption
    <2>. QED  BY <2>1, <2>2, <2>3, <2>4
<1>13. IsFiniteSet(Skipped(ds, old))
    <2>1. Skipped(ds, old) \in SUBSET Devices
        BY <1>10 DEF Skipped
    <2>. QED  BY <2>1, FS_Subset, FleetAssumption
<1>14. Cardinality(Skipped(ds, work)) <= old.gone
    <2>1. Cardinality(Skipped(ds, work)) <= Cardinality(Skipped(ds, old))
          /\ IsFiniteSet(Skipped(ds, work))
        BY <1>12, <1>13, FS_Subset
    <2>2. Cardinality(Skipped(ds, work)) \in Nat /\ Cardinality(Skipped(ds, old)) \in Nat
        BY <1>13, <2>1, FS_CardinalityType
    <2>. QED  BY <1>10, <1>11, <2>1, <2>2
<1>15. ASSUME over PROVE work.whole \ work.seen = Skipped(ds, work)
    <2>1. IsFiniteSet(ds)
        BY FS_Subset, FleetAssumption
    <2>2. Cardinality(ds) \in Nat
        BY <2>1, FS_CardinalityType
    <2>3. old.page >= (Cardinality(ds) + Limit - 1) \div Limit
        BY <1>4, <1>15 DEF PageCount
    <2>4. Cardinality(ds) <= old.page * Limit
        BY <1>10, <2>2, <2>3, PagesSuffice
    <2>5. ASSUME NEW w \in ds PROVE Rank(ds, w) < (work.page - 1) * Limit
        <3>1. Rank(ds, w) < Cardinality(ds) /\ Rank(ds, w) \in Nat
            BY RankBelow, RankIs
        <3>2. (work.page - 1) * Limit = old.page * Limit
            BY <1>8, <1>10
        <3>3. old.page * Limit \in Nat
            BY <1>10, FleetAssumption
        <3>. QED  BY <2>2, <2>4, <3>1, <3>2, <3>3
    <2>. QED  BY <1>8, <1>11, <2>5 DEF Skipped
<1>16. req'[q] = work /\ work \in Works
    BY <1>7, <1>8, OneWorks, TypesAre DEF Works
<1>17. Live' = ds
    BY <1>1, <1>3 DEF Live
<1>18. ListingSoFar(q)'
    <2>1. /\ work.whole \subseteq ds /\ Cardinality(Skipped(ds, work)) <= work.gone
          /\ work.over => Cardinality(work.whole \ work.seen) <= work.gone
        BY <1>8, <1>9, <1>11, <1>14, <1>15
    <2>. QED  BY <1>16, <1>17, <2>1 DEF ListingSoFar
<1>19. ~Issuing(work) /\ ~Saving(work) /\ ~Assigning(work) /\ work.op # "rename" /\ ~Issuing(old)
    BY <1>8 DEF Issuing, Saving, Assigning, Listings
<1>20. UpToDate(q)'
    BY <1>16, <1>19 DEF UpToDate, IssueFresh, SaveFresh, RenameFresh, AssignFresh
<1>. QED  BY <1>1, <1>2, <1>7, <1>16, <1>18, <1>19, <1>20, TypesAre, RequestMoves

LEMMA FindDevicesKeeps ==
    ASSUME FleetInv, FleetSoFar, NEW q \in Requests, FindDevices(q), UNCHANGED zones
    PROVE  FleetInv' /\ FleetSoFar'
<1>1. /\ UNCHANGED <<device, unborn, group, handed, asked, mixed, doubtful, zone, wanted, blurred,
                     calls, faults>>
      /\ stale' = stale \ {q}
    BY DEF FindDevices, fleet, zones
<1>2. PICK old \in Edits : old = req[q] /\ old.op \in {"assign", "unassign"} /\ old.stage = "find"
                             /\ old.grp \in Groups \cup {NoGroup}
    BY TypesAre, WorkIs DEF FindDevices, FleetOps, Edits
<1>3. PICK ds \in SUBSET Devices : ds = Found(old.op, old.devs, old.grp)
    BY DEF Found, Live
<1>4. ds \subseteq Live
    BY <1>3 DEF Found
<1>5. PICK g \in Groups \cup {NoGroup} : g = IF old.op = "assign" THEN old.grp ELSE NoGroup
    BY <1>2
<1>6. ~Issuing(old)
    BY <1>2 DEF Issuing
<1>7. CASE ds = {}
    <2>1. Done(q)
        BY <1>2, <1>3, <1>7 DEF FindDevices
    <2>. QED  BY <1>1, <1>2, <1>6, <2>1, TypesAre, LeaveKeeps
<1>8. CASE ds # {}
    <2>1. PICK copy : copy = [d \in ds |-> [device[d] EXCEPT !.group = g]]
        OBVIOUS
    <2>2. PICK work : work = [old EXCEPT !.stage = "save", !.devs = ds, !.copy = copy]
        OBVIOUS
    <2>3. req' = [req EXCEPT ![q] = work]
        <3>1. req' = [req EXCEPT ![q].stage = "save", ![q].devs = ds,
                        ![q].copy = [d \in ds |-> [device[d] EXCEPT !.group = g]]]
            BY <1>2, <1>3, <1>5, <1>8 DEF FindDevices
        <3>2. req' = [req EXCEPT ![q].stage = "save", ![q].devs = ds, ![q].copy = copy]
            BY <2>1, <3>1
        <3>. QED  BY <1>2, <2>2, <3>2
    <2>4. ASSUME NEW d \in ds
          PROVE  /\ device[d].live /\ device[d] \in Device
                 /\ copy[d] \in Device /\ copy[d].live /\ copy[d].username = device[d].username
        <3>1. device[d].live /\ device[d] \in Device
            BY <1>4, TypesAre DEF Live
        <3>2. device[d] \in [live: {TRUE}, group: Groups \cup {NoGroup}, username: BOOLEAN,
                             hash: Passwords]
            BY <3>1, RowsAre
        <3>3. copy[d] = [device[d] EXCEPT !.group = g]
            BY <2>1
        <3>4. copy[d] \in [live: {TRUE}, group: Groups \cup {NoGroup}, username: BOOLEAN,
                           hash: Passwords]
              /\ copy[d].username = device[d].username /\ copy[d].live = device[d].live
            BY <3>2, <3>3
        <3>. QED  BY <3>1, <3>4 DEF Device
    <2>5. copy \in Copies /\ DOMAIN copy = ds
        BY <2>1, <2>4, CopiesAre
    <2>6. /\ work \in Edits /\ work.op = old.op /\ work.stage = "save" /\ work.devs = ds
          /\ work.copy = copy
        BY <1>2, <2>2, <2>5 DEF Edits
    <2>7. ~Issuing(work) /\ Saving(work) /\ ~Assigning(work) /\ work.op # "rename"
          /\ work.op # "list" /\ work.op # "update"
        BY <1>2, <2>6 DEF Issuing, Saving, Assigning
    <2>8. work \in Works
        BY <2>4, <2>5, <2>6, <2>7 DEF Works, WellShaped
    <2>9. ds \cap unborn = {}
        BY <2>4 DEF FleetInv, UnbornUntouched
    <2>10. req'[q] = work
        BY <2>3, <2>8, OneWorks, TypesAre
    <2>11. SaveFresh(q)'
        BY <1>1, <2>4, <2>6, <2>7, <2>10 DEF SaveFresh
    <2>12. UpToDate(q)' /\ ListingSoFar(q)'
        BY <2>7, <2>10, <2>11 DEF UpToDate, IssueFresh, RenameFresh, AssignFresh, ListingSoFar
    <2>. QED  BY <1>1, <1>2, <1>6, <2>3, <2>6, <2>8, <2>9, <2>12, TypesAre, RequestMoves
<1>. QED  BY <1>7, <1>8

LEMMA FindAssigneeKeeps ==
    ASSUME FleetInv, FleetSoFar, NEW q \in Requests, FindAssignee(q)
    PROVE  FleetInv' /\ FleetSoFar'
<1>1. UNCHANGED <<device, unborn, group, handed, asked, mixed, doubtful, zone, wanted, blurred,
                  calls, faults, stale>>
    BY DEF FindAssignee, fleet, zones
<1>2. PICK old \in Zonings : old = req[q] /\ old.op = "zassign" /\ old.stage = "device"
    BY TypesAre, WorkIs DEF FindAssignee, ZoneOps
<1>3. PICK new : new = old.dev \ old.devs
    OBVIOUS
<1>4. ~Issuing(old) /\ Assigning(old)
    BY <1>2 DEF Issuing, Assigning
<1>5. CASE Done(q)
    BY <1>1, <1>2, <1>4, <1>5, TypesAre, LeaveKeeps
<1>6. CASE ~Done(q)
    <2>1. PICK work : work = [old EXCEPT !.stage = "save", !.devs = old.devs \cup new]
        OBVIOUS
    <2>2. req' = [req EXCEPT ![q] = work]
        BY <1>2, <1>3, <1>6, <2>1 DEF FindAssignee
    <2>3. /\ work \in Zonings /\ work.op = "zassign" /\ work.stage = "save"
          /\ work.devs = old.devs \cup old.dev /\ work.zone = old.zone /\ work.dev = old.dev
        BY <1>2, <1>3, <2>1 DEF Zonings
    <2>4. ~Issuing(work) /\ ~Saving(work) /\ Assigning(work) /\ work.op # "rename"
          /\ work.op # "list"
        BY <2>3 DEF Issuing, Saving, Assigning
    <2>5. work \in Works
        BY <2>3 DEF Works
    <2>6. req'[q] = work
        BY <2>2, <2>5, OneWorks, TypesAre
    <2>7. ASSUME q \notin stale' PROVE UpToDate(q)'
        <3>1. AssignFresh(q)
            BY <1>1, <2>7 DEF FleetSoFar, UpToDate
        <3>2. IsLive(old.zone) /\ old.devs = zone[old.zone].devices
            BY <1>2, <1>4, <3>1 DEF AssignFresh, ListOf
        <3>3. ListOf(work, zone[old.zone].devices) = work.devs
            BY <2>3, <3>2 DEF ListOf
        <3>4. AssignFresh(q)'
            BY <1>1, <2>3, <2>6, <3>2, <3>3 DEF AssignFresh, IsLive
        <3>. QED  BY <2>4, <2>6, <3>4 DEF UpToDate, IssueFresh, SaveFresh, RenameFresh
    <2>8. ListingSoFar(q)'
        BY <2>4, <2>6 DEF ListingSoFar
    <2>. QED  BY <1>1, <1>2, <1>4, <2>2, <2>4, <2>5, <2>7, <2>8, TypesAre, RequestMoves
<1>. QED  BY <1>5, <1>6

(* The response is sent: the password it carries is that of the device. *)
LEMMA AnswerKeeps ==
    ASSUME FleetInv, FleetSoFar, NEW q \in Requests, Answer(q), UNCHANGED zones
    PROVE  FleetInv' /\ FleetSoFar'
<1>1. /\ UNCHANGED <<device, unborn, group, asked, mixed, zone, wanted, blurred, calls, faults, stale>>
      /\ req' = [req EXCEPT ![q] = Idle]
    BY DEF Answer, zones, Done
<1>2. PICK old \in Edits : old = req[q] /\ Issuing(old) /\ WellShaped(old) /\ old.stage = "answer"
    BY TypesAre, WorkIs DEF Answer, FleetOps, Issuing
<1>3. PICK d \in Devices : old.devs = {d} /\ old.pw # 0
    BY <1>2 DEF WellShaped
<1>4. (CHOOSE e \in req[q].devs : TRUE) = d
    BY <1>2, <1>3
<1>5. /\ handed' = [handed EXCEPT ![d] = old.pw] \/ (handed' = handed /\ ~device[d].live)
      /\ doubtful' = IF q \in stale THEN doubtful \cup {d} ELSE doubtful \ {d}
    BY <1>2, <1>3, <1>4 DEF Answer, Settled, Live
<1>6. /\ req' \in [Requests -> Works] /\ req'[q] = Idle
      /\ \A r \in Requests : r # q => req'[r] = req[r]
    BY <1>1, IdleWorks, OneWorks, TypesAre
<1>7. handed' \in [Devices -> Passwords] /\ \A e \in Devices : e # d => handed'[e] = handed[e]
    <2>1. old.pw \in Passwords
        BY FleetAssumption DEF Edits, Passwords, FirstPassword
    <2>. QED  BY <1>5, <2>1, TypesAre
<1>8. UnbornUntouched'
    <2> SUFFICES ASSUME NEW e \in Devices \cap unborn
                 PROVE  /\ ~device[e].live /\ asked[e] = NoGroup
                        /\ \A r \in Requests : Saving(req'[r]) => e \notin req'[r].devs
        BY <1>1 DEF UnbornUntouched, Saving
    <2>. QED  BY <1>6, IdleWorks DEF FleetInv, UnbornUntouched
<1>9. FleetInv'
    BY <1>1, <1>5, <1>6, <1>7, <1>8, TypesAre, TypesMake
<1>10. ASSUME NEW r \in Requests \ stale' PROVE UpToDate(r)'
    <2>1. CASE r = q
        <3>1. ~Assigning(Idle) /\ Idle.op # "rename"
            BY DEF Idle, Assigning
        <3>. QED  BY <1>6, <2>1, <3>1, IdleWorks
             DEF UpToDate, IssueFresh, SaveFresh, RenameFresh, AssignFresh
    <2>2. CASE r # q
        <3>1. UpToDate(r) /\ req'[r] = req[r]
            BY <1>1, <1>6, <1>10, <2>2 DEF FleetSoFar
        <3>. QED  BY <1>1, <3>1, StaysUpToDate
    <2>. QED  BY <2>1, <2>2
<1>11. ASSUME NEW e \in Devices PROVE Credentials(e)' /\ GroupKept(e)'
    <2>1. Credentials(e) /\ GroupKept(e)
        BY DEF FleetSoFar
    <2>2. GroupKept(e)'
        BY <1>1, <2>1 DEF GroupKept
    <2>3. CASE e # d
        <3>1. \A r \in Requests : Issuing(req[r]) /\ e \in req[r].devs =>
                  (Issuing(req[r]) /\ e \in req[r].devs)'
            BY <1>2, <1>3, <1>6, <2>3 DEF Issuing
        <3>2. handed'[e] = handed[e] /\ (e \in doubtful => e \in doubtful')
            BY <1>5, <1>7, <2>3
        <3>. QED  BY <1>1, <2>1, <2>2, <3>1, <3>2, CredentialsStay
    <2>4. CASE e = d /\ q \in stale
        BY <1>5, <2>2, <2>4 DEF Credentials
    <2>5. CASE e = d /\ q \notin stale
        <3>1. IssueFresh(q)
            BY <2>5 DEF FleetSoFar, UpToDate
        <3>2. device[d].live /\ device[d].username /\ device[d].hash = old.pw
            BY <1>2, <1>3, <3>1 DEF IssueFresh
        <3>3. handed'[d] = old.pw
            BY <1>5, <3>2, TypesAre
        <3>. QED  BY <1>1, <1>3, <2>2, <2>5, <3>2, <3>3 DEF Credentials
    <2>. QED  BY <2>3, <2>4, <2>5
<1>12. ASSUME NEW z \in ZoneIds PROVE Assigned(z)'
    BY <1>1 DEF FleetSoFar, Assigned, IsLive
<1>13. ASSUME NEW r \in Requests PROVE ListingSoFar(r)'
    <2>1. CASE r = q
        BY <1>6, <2>1, IdleWorks DEF ListingSoFar
    <2>2. CASE r # q
        BY <1>1, <1>6, <2>2 DEF FleetSoFar, ListingSoFar, Live
    <2>. QED  BY <2>1, <2>2
<1>. QED  BY <1>9, <1>10, <1>11, <1>12, <1>13 DEF FleetSoFar

LEMMA CreateGroupKeeps ==
    ASSUME FleetInv, FleetSoFar, NEW q \in Requests, NEW g \in Groups, CreateGroup(q, g),
           UNCHANGED zones
    PROVE  FleetInv' /\ FleetSoFar'
<1>1. /\ UNCHANGED <<device, handed, asked, mixed, doubtful, zone, wanted, blurred, req, faults,
                     stale>>
      /\ group' = group \cup {g} /\ unborn' = unborn \ {g}
      /\ calls < MaxCalls /\ calls' = calls + 1
    BY DEF CreateGroup, zones
<1>2. calls' \in 0 .. MaxCalls /\ group' \subseteq Groups /\ unborn' \subseteq Devices \cup Groups
    BY <1>1, TypesAre, FleetAssumption
<1>3. UnbornUntouched'
    BY <1>1 DEF FleetInv, UnbornUntouched, Saving
<1>4. FleetInv'
    BY <1>1, <1>2, <1>3, TypesAre, TypesMake
<1>5. \A r \in Requests \ stale' : UpToDate(r)'
    BY <1>1, StaysUpToDate DEF FleetSoFar
<1>6. \A d \in Devices : Credentials(d)' /\ GroupKept(d)'
    BY <1>1 DEF FleetSoFar, Credentials, GroupKept, Issuing
<1>7. \A z \in ZoneIds : Assigned(z)'
    BY <1>1 DEF FleetSoFar, Assigned, IsLive
<1>8. \A r \in Requests : ListingSoFar(r)'
    BY <1>1 DEF FleetSoFar, ListingSoFar, Live
<1>. QED  BY <1>4, <1>5, <1>6, <1>7, <1>8 DEF FleetSoFar

-----------------------------------------------------------------------------
(* Steps that write a zone. *)

LEMMA ZoneMoves ==
    ASSUME FleetInv, FleetSoFar, NEW q \in Requests, NEW work \in Works,
           req' = [req EXCEPT ![q] = work],
           UNCHANGED <<device, unborn, group, handed, asked, mixed, doubtful, faults>>,
           calls' \in 0 .. MaxCalls,
           NEW z \in ZoneIds, NEW entry \in Geofence, zone' = [zone EXCEPT ![z] = entry],
           wanted' \in [ZoneIds -> SUBSET Devices],
           \A y \in ZoneIds : y # z => wanted'[y] = wanted[y],
           blurred \subseteq blurred', blurred' \subseteq ZoneIds, Assigned(z)',
           stale' \subseteq Requests, stale \ {q} \subseteq stale',
           \A r \in Requests \ stale' :
               r # q /\ Assigning(req[r]) /\ req[r].zone = z =>
                   entry.state = zone[z].state /\ entry.devices = zone[z].devices,
           ~Saving(work), ~Issuing(req[q]), work.op # "list",
           q \notin stale' => UpToDate(q)'
    PROVE  FleetInv' /\ FleetSoFar'
<1>1. /\ req' \in [Requests -> Works] /\ req'[q] = work
      /\ \A r \in Requests : r # q => req'[r] = req[r]
    BY OneWorks, TypesAre
<1>2. /\ zone' \in [ZoneIds -> Geofence] /\ zone'[z] = entry
      /\ \A y \in ZoneIds : y # z => zone'[y] = zone[y]
    BY TypesAre
<1>3. UnbornUntouched'
    <2> SUFFICES ASSUME NEW d \in Devices \cap unborn
                 PROVE  /\ ~device[d].live /\ asked[d] = NoGroup
                        /\ \A r \in Requests : Saving(req'[r]) => d \notin req'[r].devs
        BY DEF UnbornUntouched, Saving
    <2>. QED  BY <1>1 DEF FleetInv, UnbornUntouched
<1>4. FleetInv'
    BY <1>1, <1>2, <1>3, TypesAre, TypesMake
<1>5. ASSUME NEW r \in Requests \ stale' PROVE UpToDate(r)'
    <2>1. CASE r = q
        BY <1>5, <2>1
    <2>2. CASE r # q
        <3>1. UpToDate(r) /\ req'[r] = req[r] /\ req[r] \in Works
            BY <1>1, <1>5, <2>2, TypesAre DEF FleetSoFar
        <3>2. Assigning(req[r]) => req[r].zone \in ZoneIds
            BY <3>1, WorkIs DEF Zonings
        <3>3. Assigning(req[r]) =>
                  /\ zone'[req[r].zone].state = zone[req[r].zone].state
                  /\ zone'[req[r].zone].devices = zone[req[r].zone].devices
            BY <1>2, <1>5, <2>2, <3>2
        <3>. QED  BY <3>1, <3>3, StaysUpToDate
    <2>. QED  BY <2>1, <2>2
<1>6. ASSUME NEW d \in Devices PROVE Credentials(d)' /\ GroupKept(d)'
    <2>1. Credentials(d) /\ GroupKept(d)
        BY DEF FleetSoFar
    <2>2. \A r \in Requests : Issuing(req[r]) /\ d \in req[r].devs =>
              (Issuing(req[r]) /\ d \in req[r].devs)'
        BY <1>1 DEF Issuing
    <2>. QED  BY <2>1, <2>2, CredentialsStay DEF GroupKept
<1>7. ASSUME NEW y \in ZoneIds PROVE Assigned(y)'
    <2>1. CASE y = z
        BY <2>1
    <2>2. CASE y # z
        BY <1>2, <2>2 DEF FleetSoFar, Assigned, IsLive
    <2>. QED  BY <2>1, <2>2
<1>8. ASSUME NEW r \in Requests PROVE ListingSoFar(r)'
    <2>1. CASE r = q
        BY <1>1, <2>1 DEF ListingSoFar
    <2>2. CASE r # q
        BY <1>1, <2>2 DEF FleetSoFar, ListingSoFar, Live
    <2>. QED  BY <2>1, <2>2
<1>. QED  BY <1>4, <1>5, <1>6, <1>7, <1>8 DEF FleetSoFar

(* The other holders of a zone that changes are overtaken. *)
LEMMA WriteZoneOvertakes ==
    ASSUME FleetInv, NEW q \in Requests, NEW z \in ZoneIds, NEW entry, WriteZone(q, z, entry)
    PROVE  /\ zone' = [zone EXCEPT ![z] = entry] /\ stale \subseteq stale' /\ stale' \subseteq Requests
           /\ \A r \in Requests \ stale' :
                  r # q /\ Assigning(req[r]) /\ req[r].zone = z => entry = zone[z]
<1>1. \A r \in Requests : Assigning(req[r]) /\ req[r].zone = z => r \in Holders(z)
    BY DEF Assigning, Holders, ZoneOps
<1>2. Holders(z) \subseteq Requests
    BY DEF Holders
<1>. QED  BY <1>1, <1>2, TypesAre DEF WriteZone

LEMMA GeofencesAre ==
    /\ Gone \in Geofence /\ Gone.state = "gone" /\ Gone.devices = {}
    /\ [Gone EXCEPT !.state = "live"] \in Geofence
    /\ [Gone EXCEPT !.state = "live"].state = "live"
    /\ [Gone EXCEPT !.state = "live"].devices = {}
<1>1. PICK no \in BOOLEAN : no = FALSE
    OBVIOUS
<1>2. Gone = [state |-> "gone", geom |-> no, devices |-> {}]
    BY <1>1, Zenon DEF Gone
<1>. QED  BY <1>2 DEF Geofence

LEMMA CreateZoneKeeps ==
    ASSUME FleetInv, FleetSoFar, NEW q \in Requests, NEW z \in ZoneIds, CreateZone(q, z)
    PROVE  FleetInv' /\ FleetSoFar'
<1>1. PICK entry \in Geofence : entry = [Gone EXCEPT !.state = "live"]
    BY GeofencesAre
<1>2. entry.state = "live" /\ entry.devices = {}
    BY <1>1, GeofencesAre
<1>3. PICK work : work = WithGeom(Zoning("zcreate", "shape", z, {}), TRUE)
    OBVIOUS
<1>4. /\ zone[z].state = "unborn" /\ zone' = [zone EXCEPT ![z] = entry] /\ Call(q, work)
      /\ UNCHANGED <<fleet, faults, wanted, blurred>>
    BY <1>1, <1>3 DEF CreateZone, WithGeom
<1>5. /\ req[q] = Idle /\ calls' \in 0 .. MaxCalls
      /\ req' = [req EXCEPT ![q] = work] /\ stale' = stale \ {q}
    BY <1>4, TypesAre, FleetAssumption DEF Call
<1>6. UNCHANGED <<device, unborn, group, handed, asked, mixed, doubtful, faults, wanted, blurred>>
    BY <1>4 DEF fleet
<1>7. "zcreate" \in ZoneOps
    BY DEF ZoneOps
<1>8. work \in Zonings /\ work.op = "zcreate"
    <2>1. PICK yes \in BOOLEAN : yes = TRUE
        OBVIOUS
    <2>2. work = WithGeom(Zoning("zcreate", "shape", z, {}), yes)
        BY <1>3, <2>1, Zenon
    <2>3. {} \in SUBSET Devices /\ "shape" \in {"shape", "save", "device"}
        OBVIOUS
    <2>. QED  BY <1>7, <2>2, <2>3, ZoningWithGeom
<1>9. ~Issuing(work) /\ ~Saving(work) /\ ~Assigning(work) /\ work.op # "rename" /\ work.op # "list"
    BY <1>8 DEF Issuing, Saving, Assigning
<1>10. work \in Works
    BY <1>8 DEF Works
<1>11. ~IsLive(z) /\ Assigned(z)
    BY <1>4 DEF IsLive, FleetSoFar
<1>12. Assigned(z)'
    <2>1. zone'[z] = entry
        BY <1>4, TypesAre
    <2>. QED  BY <1>2, <1>6, <1>11, <2>1 DEF Assigned, IsLive
<1>13. ASSUME NEW r \in Requests \ stale', r # q PROVE ~(Assigning(req[r]) /\ req[r].zone = z)
    <2>1. AssignFresh(r)
        BY <1>5, <1>13 DEF FleetSoFar, UpToDate
    <2>. QED  BY <1>11, <2>1 DEF AssignFresh
<1>14. req'[q] = work
    BY <1>5, <1>10, OneWorks, TypesAre
<1>15. UpToDate(q)'
    BY <1>9, <1>14 DEF UpToDate, IssueFresh, SaveFresh, RenameFresh, AssignFresh
<1>16. ~Issuing(req[q])
    BY <1>5, IdleWorks
<1>. QED  BY <1>4, <1>5, <1>6, <1>9, <1>10, <1>12, <1>13, <1>15, <1>16, TypesAre, ZoneMoves

(* A handler of a zone that goes on to write the polygon, or is done. *)
LEMMA ZoningGoesOn ==
    ASSUME FleetInv, NEW q \in Requests, req[q].op \in ZoneOps,
           req' = [req EXCEPT ![q] = Idle] \/ req' = [req EXCEPT ![q].stage = "shape"]
    PROVE  \E work \in Works :
               /\ req' = [req EXCEPT ![q] = work]
               /\ ~Saving(work) /\ ~Issuing(work) /\ work.op # "list" /\ work.op # "rename"
               /\ work = Idle \/ work.op = req[q].op
<1>1. CASE req' = [req EXCEPT ![q] = Idle]
    <2>1. Idle.op # "list" /\ Idle.op # "rename"
        BY DEF Idle
    <2>. QED  BY <1>1, <2>1, IdleWorks
<1>2. CASE req' = [req EXCEPT ![q].stage = "shape"]
    <2>1. PICK old \in Zonings : old = req[q]
        BY TypesAre, WorkIs
    <2>2. PICK work : work = [old EXCEPT !.stage = "shape"]
        OBVIOUS
    <2>3. req' = [req EXCEPT ![q] = work]
        BY <1>2, <2>1, <2>2
    <2>4. work \in Zonings /\ work.op = old.op /\ old.op \in ZoneOps
        BY <2>2 DEF Zonings
    <2>5. ~Saving(work) /\ ~Issuing(work) /\ work.op # "list" /\ work.op # "rename"
        BY <2>4 DEF Saving, Issuing, ZoneOps
    <2>. QED  BY <2>1, <2>3, <2>4, <2>5 DEF Works
<1>. QED  BY <1>1, <1>2

LEMMA SaveZoneKeeps ==
    ASSUME FleetInv, FleetSoFar, NEW q \in Requests, SaveZone(q)
    PROVE  FleetInv' /\ FleetSoFar'
<1>1. req[q].op = "zupdate" /\ req[q].op \in ZoneOps
    BY DEF SaveZone, ZoneOps
<1>2. PICK z \in ZoneIds : z = req[q].zone
    BY <1>1, TypesAre, WorkIs DEF Zonings
<1>3. PICK entry \in Geofence : entry = IF IsLive(z) THEN zone[z] ELSE [Gone EXCEPT !.state = "live"]
    BY TypesAre, GeofencesAre
<1>4. WriteZone(q, z, entry) /\ blurred' = (IF IsLive(z) THEN blurred ELSE blurred \cup {z})
    BY <1>2, <1>3 DEF SaveZone
<1>5. /\ zone' = [zone EXCEPT ![z] = entry] /\ stale \subseteq stale' /\ stale' \subseteq Requests
      /\ \A r \in Requests \ stale' :
             r # q /\ Assigning(req[r]) /\ req[r].zone = z => entry = zone[z]
    BY <1>4, WriteZoneOvertakes
<1>6. PICK work \in Works :
          /\ req' = [req EXCEPT ![q] = work]
          /\ ~Saving(work) /\ ~Issuing(work) /\ work.op # "list" /\ work.op # "rename"
          /\ work = Idle \/ work.op = req[q].op
    BY <1>1, ZoningGoesOn DEF SaveZone, Continue, Done
<1>7. ~Assigning(work)
    BY <1>1, <1>6 DEF Assigning, Idle
<1>8. req'[q] = work
    BY <1>6, OneWorks, TypesAre
<1>9. UpToDate(q)'
    BY <1>6, <1>7, <1>8 DEF UpToDate, IssueFresh, SaveFresh, RenameFresh, AssignFresh
<1>10. UNCHANGED <<device, unborn, group, handed, asked, mixed, doubtful, faults, calls, wanted>>
    BY DEF SaveZone, fleet
<1>11. Assigned(z)'
    <2>1. zone'[z] = entry /\ Assigned(z)
        BY <1>5, TypesAre DEF FleetSoFar
    <2>. QED  BY <1>3, <1>4, <1>10, <2>1, GeofencesAre DEF Assigned, IsLive
<1>12. ~Issuing(req[q])
    BY <1>1 DEF Issuing
<1>13. blurred' \subseteq ZoneIds /\ blurred \subseteq blurred'
    BY <1>4, TypesAre
<1>. QED  BY <1>5, <1>6, <1>9, <1>10, <1>11, <1>12, <1>13, TypesAre, ZoneMoves

LEMMA WriteShapeKeeps ==
    ASSUME FleetInv, FleetSoFar, NEW q \in Requests, WriteShape(q)
    PROVE  FleetInv' /\ FleetSoFar'
<1>1. req[q].op \in {"zcreate", "zupdate"} /\ req[q].op \in ZoneOps /\ ~Issuing(req[q])
    BY DEF WriteShape, ZoneOps, Issuing
<1>2. PICK z \in ZoneIds : z = req[q].zone
    BY <1>1, TypesAre, WorkIs DEF Zonings
<1>3. /\ zone' = IF IsLive(z) THEN [zone EXCEPT ![z].geom = TRUE] ELSE zone
      /\ Done(q)
      /\ UNCHANGED <<device, unborn, group, handed, asked, mixed, doubtful, faults, calls, wanted,
                     blurred, stale>>
    BY <1>2 DEF WriteShape, fleet
<1>4. CASE ~IsLive(z)
    BY <1>1, <1>3, <1>4, TypesAre, LeaveKeeps
<1>5. CASE IsLive(z)
    <2>1. PICK yes \in BOOLEAN : yes = TRUE
        OBVIOUS
    <2>2. PICK entry : entry = [zone[z] EXCEPT !.geom = yes]
        OBVIOUS
    <2>3. zone' = [zone EXCEPT ![z].geom = yes]
        BY <1>3, <1>5, <2>1, Zenon
    <2>4. zone' = [zone EXCEPT ![z] = entry]
        BY <2>2, <2>3
    <2>5. zone[z] \in Geofence
        BY TypesAre
    <2>6. entry \in Geofence /\ entry.state = zone[z].state /\ entry.devices = zone[z].devices
        BY <2>2, <2>5 DEF Geofence
    <2>7. req' = [req EXCEPT ![q] = Idle] /\ req'[q] = Idle
        BY <1>3, IdleWorks, OneWorks, TypesAre DEF Done
    <2>8. ~Assigning(Idle) /\ Idle.op # "rename" /\ Idle.op # "list"
        BY DEF Idle, Assigning
    <2>9. UpToDate(q)'
        BY <2>7, <2>8, IdleWorks DEF UpToDate, IssueFresh, SaveFresh, RenameFresh, AssignFresh
    <2>10. Assigned(z)'
        <3>1. zone'[z] = entry /\ Assigned(z)
            BY <2>4, TypesAre DEF FleetSoFar
        <3>. QED  BY <1>3, <2>6, <3>1 DEF Assigned, IsLive
    <2>. QED  BY <1>1, <1>3, <2>4, <2>6, <2>7, <2>8, <2>9, <2>10, IdleWorks, TypesAre, ZoneMoves
<1>. QED  BY <1>4, <1>5

LEMMA RemoveZoneKeeps ==
    ASSUME FleetInv, FleetSoFar, NEW q \in Requests, NEW z \in ZoneIds, RemoveZone(q, z)
    PROVE  FleetInv' /\ FleetSoFar'
<1>1. /\ WriteZone(q, z, Gone) /\ wanted' = [wanted EXCEPT ![z] = {}] /\ req[q] = Idle
      /\ calls < MaxCalls /\ calls' = calls + 1
      /\ UNCHANGED <<device, unborn, group, handed, asked, mixed, doubtful, req, faults, blurred>>
    BY DEF RemoveZone, fleet
<1>2. /\ zone' = [zone EXCEPT ![z] = Gone] /\ stale \subseteq stale' /\ stale' \subseteq Requests
      /\ \A r \in Requests \ stale' :
             r # q /\ Assigning(req[r]) /\ req[r].zone = z => Gone = zone[z]
    BY <1>1, WriteZoneOvertakes
<1>3. req' = [req EXCEPT ![q] = Idle] /\ req'[q] = Idle
    BY <1>1, TypesAre
<1>4. ~Assigning(Idle) /\ Idle.op # "rename" /\ Idle.op # "list"
    BY DEF Idle, Assigning
<1>5. UpToDate(q)'
    BY <1>3, <1>4, IdleWorks DEF UpToDate, IssueFresh, SaveFresh, RenameFresh, AssignFresh
<1>6. /\ wanted' \in [ZoneIds -> SUBSET Devices] /\ wanted'[z] = {}
      /\ \A y \in ZoneIds : y # z => wanted'[y] = wanted[y]
    BY <1>1, TypesAre
<1>7. Assigned(z)'
    <2>1. zone'[z] = Gone
        BY <1>2, TypesAre
    <2>. QED  BY <1>6, <2>1, GeofencesAre DEF Assigned, IsLive
<1>8. calls' \in 0 .. MaxCalls
    BY <1>1, TypesAre, FleetAssumption
<1>9. PICK gone \in Geofence : gone = Gone
    BY GeofencesAre
<1>10. ~Issuing(req[q])
    BY <1>1, IdleWorks
<1>. QED  BY <1>1, <1>2, <1>3, <1>4, <1>5, <1>6, <1>7, <1>8, <1>9, <1>10, IdleWorks, TypesAre, ZoneMoves

LEMMA SaveMembersKeeps ==
    ASSUME FleetInv, FleetSoFar, NEW q \in Requests, SaveMembers(q)
    PROVE  FleetInv' /\ FleetSoFar'
<1>1. PICK old \in Zonings : old = req[q] /\ old.op \in {"zassign", "zremove"} /\ old.stage = "save"
    BY TypesAre, WorkIs DEF SaveMembers, ZoneOps
<1>2. PICK z \in ZoneIds, list \in SUBSET Devices, dev \in SUBSET Devices :
          z = old.zone /\ list = old.devs /\ dev = old.dev
    BY DEF Zonings
<1>3. Assigning(old) /\ ~Issuing(old)
    BY <1>1 DEF Assigning, Issuing
<1>4. Done(q) /\ UNCHANGED <<device, unborn, group, handed, asked, mixed, doubtful, faults, calls>>
    BY DEF SaveMembers, fleet
<1>5. CASE ~(list \subseteq Live)
    <2>1. UNCHANGED <<zone, wanted, blurred, stale>>
        BY <1>1, <1>2, <1>5 DEF SaveMembers, zones
    <2>. QED  BY <1>1, <1>3, <1>4, <2>1, TypesAre, LeaveKeeps
<1>6. CASE list \subseteq Live
    <2>1. PICK entry : entry = [state |-> "live", geom |-> zone[z].geom, devices |-> list]
        OBVIOUS
    <2>2. zone[z] \in Geofence
        BY TypesAre
    <2>3. entry \in Geofence /\ entry.state = "live" /\ entry.devices = list
        BY <2>1, <2>2 DEF Geofence
    <2>4. PICK given \in SUBSET Devices :
              given = IF old.op = "zassign" THEN wanted[z] \cup dev ELSE wanted[z] \ dev
        BY TypesAre
    <2>5. /\ WriteZone(q, z, entry) /\ wanted' = [wanted EXCEPT ![z] = given]
          /\ blurred' = IF q \in stale THEN blurred \cup {z} ELSE blurred
        BY <1>1, <1>2, <1>6, <2>1, <2>4 DEF SaveMembers
    <2>6. /\ zone' = [zone EXCEPT ![z] = entry] /\ stale \subseteq stale' /\ stale' \subseteq Requests
          /\ \A r \in Requests \ stale' :
                 r # q /\ Assigning(req[r]) /\ req[r].zone = z => entry = zone[z]
        BY <2>5, WriteZoneOvertakes
    <2>7. req' = [req EXCEPT ![q] = Idle] /\ req'[q] = Idle
        BY <1>4, IdleWorks, OneWorks, TypesAre DEF Done
    <2>8. ~Assigning(Idle) /\ Idle.op # "rename" /\ Idle.op # "list"
        BY DEF Idle, Assigning
    <2>9. UpToDate(q)'
        BY <2>7, <2>8, IdleWorks DEF UpToDate, IssueFresh, SaveFresh, RenameFresh, AssignFresh
    <2>10. /\ wanted' \in [ZoneIds -> SUBSET Devices] /\ wanted'[z] = given
           /\ \A y \in ZoneIds : y # z => wanted'[y] = wanted[y]
        BY <2>5, TypesAre
    <2>11. blurred' \subseteq ZoneIds /\ blurred \subseteq blurred'
        BY <2>5, TypesAre
    <2>12. Assigned(z)'
        <3>1. zone'[z] = entry
            BY <2>6, TypesAre
        <3>2. ASSUME z \notin blurred' PROVE list = given
            <4>1. q \notin stale /\ z \notin blurred
                BY <2>5, <3>2
            <4>2. AssignFresh(q) /\ Assigned(z)
                BY <4>1 DEF FleetSoFar, UpToDate
            <4>3. list = ListOf(old, zone[z].devices) /\ zone[z].devices = wanted[z]
                BY <1>1, <1>2, <1>3, <4>1, <4>2 DEF AssignFresh, Assigned
            <4>. QED  BY <1>1, <1>2, <2>4, <4>3 DEF ListOf
        <3>. QED  BY <2>3, <2>10, <3>1, <3>2 DEF Assigned, IsLive
    <2>. QED  BY <1>1, <1>3, <1>4, <2>3, <2>6, <2>7, <2>8, <2>9, <2>10, <2>11, <2>12, IdleWorks,
                 TypesAre, ZoneMoves
<1>. QED  BY <1>5, <1>6

-----------------------------------------------------------------------------
(* Steps that write the devices. *)

LEMMA OvertakesAre ==
    ASSUME FleetInv, NEW q \in Requests, NEW ds \in SUBSET Devices, NEW rows,
           NEW r \in Requests, r # q, r \notin Overtakes(q, ds, rows)
    PROVE  /\ Relies(req[r]) => req[r].devs \cap ds = {}
           /\ req[r].op = "rename" => \A d \in ds : rows[d].group # req[r].grp
<1>1. Relies(req[r]) => Held(r) = req[r].devs
    BY TypesAre, WorkIs DEF Relies, Held
<1>. QED  BY <1>1 DEF Overtakes

(* A write sets the rows it has and overtakes the handlers that count on
   those it changes. *)
LEMMA WriteIs ==
    ASSUME FleetInv, NEW q \in Requests, NEW rows, DOMAIN rows \subseteq Devices,
           \A d \in DOMAIN rows : rows[d] \in Device, Write(q, rows)
    PROVE  /\ device' \in [Devices -> Device] /\ stale \subseteq stale' /\ stale' \subseteq Requests
           /\ \A d \in DOMAIN rows : device'[d] = rows[d]
           /\ \A d \in Devices \ DOMAIN rows : device'[d] = device[d]
           /\ \A r \in Requests \ stale' : r # q =>
                  /\ Relies(req[r]) => \A d \in req[r].devs : device'[d] = device[d]
                  /\ req[r].op = "rename" =>
                        \A d \in Devices : device'[d] = device[d] \/ device'[d].group # req[r].grp
<1>1. PICK ds \in SUBSET Devices : ds = {d \in DOMAIN rows : rows[d] # device[d]}
    OBVIOUS
<1>2. /\ device' = [d \in Devices |-> IF d \in ds THEN rows[d] ELSE device[d]]
      /\ stale' = stale \cup Overtakes(q, ds, rows)
    BY <1>1 DEF Write
<1>3. device' \in [Devices -> Device]
    BY <1>1, <1>2, TypesAre
<1>4. \A d \in DOMAIN rows : device'[d] = rows[d]
    BY <1>1, <1>2
<1>5. \A d \in Devices : d \notin ds => device'[d] = device[d]
    BY <1>2
<1>6. Overtakes(q, ds, rows) \subseteq Requests
    BY DEF Overtakes
<1>7. ASSUME NEW r \in Requests \ stale', r # q
      PROVE  /\ Relies(req[r]) => \A d \in req[r].devs : device'[d] = device[d]
             /\ req[r].op = "rename" =>
                   \A d \in Devices : device'[d] = device[d] \/ device'[d].group # req[r].grp
    <2>1. /\ Relies(req[r]) => req[r].devs \cap ds = {}
          /\ req[r].op = "rename" => \A d \in ds : rows[d].group # req[r].grp
        BY <1>2, <1>7, OvertakesAre
    <2>2. Relies(req[r]) => req[r].devs \subseteq Devices
        BY TypesAre, WorkIs DEF Relies, Edits
    <2>3. \A d \in ds : device'[d] = rows[d]
        BY <1>1, <1>4
    <2>. QED  BY <1>5, <2>1, <2>2, <2>3
<1>8. \A d \in Devices \ DOMAIN rows : device'[d] = device[d]
    BY <1>1, <1>5
<1>9. stale \subseteq stale' /\ stale' \subseteq Requests
    BY <1>2, <1>6, TypesAre
<1>. QED  BY <1>3, <1>4, <1>7, <1>8, <1>9

(* Devices that join the listings move nothing out of the pages read. *)
LEMMA ListingStays ==
    ASSUME FleetInv, NEW r \in Requests, ListingSoFar(r), req'[r] = req[r],
           \A d \in Devices : device[d].live => device'[d].live
    PROVE  ListingSoFar(r)'
<1> SUFFICES ASSUME req[r].op = "list" PROVE ListingSoFar(r)'
    BY DEF ListingSoFar
<1>1. PICK work \in Listings : work = req[r]
    BY TypesAre, WorkIs
<1>2. PICK ds \in SUBSET Devices : ds = Live
    BY DEF Live
<1>3. PICK more \in SUBSET Devices : more = Live'
    BY DEF Live
<1>4. ds \in SUBSET more
    BY <1>2, <1>3 DEF Live
<1>5. /\ work.whole \subseteq ds /\ Cardinality(Skipped(ds, work)) <= work.gone
      /\ work.over => Cardinality(work.whole \ work.seen) <= work.gone
    BY <1>1, <1>2 DEF ListingSoFar
<1>6. work.whole \subseteq Devices /\ work.page \in Nat /\ work.page > 0 /\ work.gone \in Nat
    BY DEF Listings
<1>7. Skipped(more, work) \in SUBSET Skipped(ds, work)
    <2> SUFFICES ASSUME NEW w \in work.whole, Rank(more, w) < (work.page - 1) * Limit
                 PROVE  Rank(ds, w) < (work.page - 1) * Limit
        BY DEF Skipped
    <2>1. Rank(ds, w) <= Rank(more, w) /\ Rank(ds, w) \in Nat /\ Rank(more, w) \in Nat
        BY <1>4, <1>6, RankGrows, RankIs
    <2>2. (work.page - 1) * Limit \in Int
        BY <1>6, FleetAssumption
    <2>. QED  BY <2>1, <2>2
<1>8. IsFiniteSet(Skipped(ds, work))
    <2>1. Skipped(ds, work) \in SUBSET Devices
        BY <1>6 DEF Skipped
    <2>. QED  BY <2>1, FS_Subset, FleetAssumption
<1>9. Cardinality(Skipped(more, work)) <= work.gone
    <2>1. Cardinality(Skipped(more, work)) <= Cardinality(Skipped(ds, work))
          /\ IsFiniteSet(Skipped(more, work))
        BY <1>7, <1>8, FS_Subset
    <2>2. Cardinality(Skipped(more, work)) \in Nat /\ Cardinality(Skipped(ds, work)) \in Nat
        BY <1>8, <2>1, FS_CardinalityType
    <2>. QED  BY <1>5, <1>6, <2>1, <2>2
<1>10. work.whole \subseteq more
    BY <1>4, <1>5
<1>. QED  BY <1>1, <1>3, <1>5, <1>9, <1>10 DEF ListingSoFar

LEMMA DeviceMoves ==
    ASSUME FleetInv, FleetSoFar, NEW q \in Requests, NEW work \in Works,
           req' = [req EXCEPT ![q] = work], ~Saving(work), work.op # "list",
           device' \in [Devices -> Device],
           \A d \in Devices : device[d].live => device'[d].live,
           UNCHANGED <<handed, zone, wanted, blurred, faults>>,
           calls' \in 0 .. MaxCalls, group' \subseteq Groups, unborn' \subseteq unborn,
           \A d \in unborn' \cap Devices : device'[d] = device[d] /\ asked'[d] = NoGroup,
           asked' \in [Devices -> Groups \cup {NoGroup}],
           mixed' \subseteq Devices, doubtful' \subseteq Devices, doubtful \subseteq doubtful',
           stale' \subseteq Requests, stale \ {q} \subseteq stale',
           \A r \in Requests \ stale' : r # q =>
               /\ Relies(req[r]) => \A d \in req[r].devs : device'[d] = device[d]
               /\ req[r].op = "rename" =>
                     \A d \in Devices : device'[d] = device[d] \/ device'[d].group # req[r].grp,
           q \notin stale' => UpToDate(q)',
           Issuing(req[q]) => Issuing(work) /\ work.devs = req[q].devs,
           \A d \in Devices :
               \/ d \in doubtful'
               \/ Issuing(work) /\ d \in work.devs
               \/ device'[d].live =>
                     /\ device[d].live /\ device'[d].hash = device[d].hash
                     /\ device[d].username => device'[d].username,
           \A d \in Devices : GroupKept(d)'
    PROVE  FleetInv' /\ FleetSoFar'
<1>1. /\ req' \in [Requests -> Works] /\ req'[q] = work
      /\ \A r \in Requests : r # q => req'[r] = req[r]
    BY OneWorks, TypesAre
<1>2. UnbornUntouched'
    <2> SUFFICES ASSUME NEW d \in Devices \cap unborn'
                 PROVE  /\ ~device'[d].live /\ asked'[d] = NoGroup
                        /\ \A r \in Requests : Saving(req'[r]) => d \notin req'[r].devs
        BY DEF UnbornUntouched, Saving
    <2>1. /\ ~device[d].live
          /\ \A r \in Requests : Saving(req[r]) => d \notin req[r].devs
        BY DEF FleetInv, UnbornUntouched
    <2>. QED  BY <1>1, <2>1
<1>3. FleetInv'
    BY <1>1, <1>2, TypesAre, TypesMake
<1>4. ASSUME NEW r \in Requests \ stale' PROVE UpToDate(r)'
    <2>1. CASE r = q
        BY <1>4, <2>1
    <2>2. CASE r # q
        <3>1. UpToDate(r) /\ req'[r] = req[r]
            BY <1>1, <1>4, <2>2 DEF FleetSoFar
        <3>2. /\ Relies(req[r]) => \A d \in req[r].devs : device'[d] = device[d]
              /\ req[r].op = "rename" =>
                    \A d \in Devices : device'[d] = device[d] \/ device'[d].group # req[r].grp
            BY <1>4, <2>2
        <3>. QED  BY <3>1, <3>2, StaysUpToDate
    <2>. QED  BY <2>1, <2>2
<1>5. ASSUME NEW d \in Devices PROVE Credentials(d)'
    <2>1. Credentials(d)
        BY DEF FleetSoFar
    <2>2. CASE Issuing(work) /\ d \in work.devs
        BY <1>1, <2>2 DEF Credentials, Issuing
    <2>3. CASE d \in doubtful'
        BY <2>3 DEF Credentials
    <2>4. CASE ~(Issuing(work) /\ d \in work.devs) /\ d \notin doubtful'
        <3>1. \A r \in Requests : Issuing(req[r]) /\ d \in req[r].devs =>
                  (Issuing(req[r]) /\ d \in req[r].devs)'
            BY <1>1, <2>4 DEF Issuing
        <3>2. device'[d].live =>
                  /\ device[d].live /\ device'[d].hash = device[d].hash
                  /\ device[d].username => device'[d].username
            BY <2>4
        <3>. QED  BY <2>1, <2>4, <3>1, <3>2, CredentialsStay
    <2>. QED  BY <2>2, <2>3, <2>4
<1>6. ASSUME NEW z \in ZoneIds PROVE Assigned(z)'
    BY DEF FleetSoFar, Assigned, IsLive
<1>7. ASSUME NEW r \in Requests PROVE ListingSoFar(r)'
    <2>1. CASE r = q
        BY <1>1, <2>1 DEF ListingSoFar
    <2>2. CASE r # q
        BY <1>1, <2>2, ListingStays DEF FleetSoFar
    <2>. QED  BY <2>1, <2>2
<1>. QED  BY <1>3, <1>4, <1>5, <1>6, <1>7 DEF FleetSoFar

LEMMA IdleIsUpToDate ==
    ASSUME FleetInv, NEW q \in Requests, req' = [req EXCEPT ![q] = Idle]
    PROVE  UpToDate(q)' /\ ListingSoFar(q)'
<1>1. req'[q] = Idle
    BY IdleWorks, OneWorks, TypesAre
<1>2. ~Assigning(Idle) /\ Idle.op # "rename" /\ Idle.op # "list"
    BY DEF Idle, Assigning
<1>. QED  BY <1>1, <1>2, IdleWorks
     DEF UpToDate, IssueFresh, SaveFresh, RenameFresh, AssignFresh, ListingSoFar

LEMMA NewRow ==
    /\ [NoRow EXCEPT !.live = TRUE] \in Device
    /\ [NoRow EXCEPT !.live = TRUE].live
    /\ [NoRow EXCEPT !.live = TRUE].group = NoGroup
<1>1. PICK no \in BOOLEAN, yes \in {TRUE} : no = FALSE /\ yes = TRUE
    OBVIOUS
<1>2. NoRow = [live |-> no, group |-> NoGroup, username |-> no, hash |-> 0]
    BY <1>1, Zenon DEF NoRow
<1>3. 0 \in Passwords
    BY FleetAssumption DEF Passwords, FirstPassword
<1>4. PICK entry : entry = [NoRow EXCEPT !.live = yes]
    OBVIOUS
<1>5. entry = [live |-> yes, group |-> NoGroup, username |-> no, hash |-> 0]
    BY <1>2, <1>4
<1>6. entry \in [live: {TRUE}, group: Groups \cup {NoGroup}, username: BOOLEAN, hash: Passwords]
    BY <1>3, <1>5
<1>7. entry \in Device /\ entry.live = yes /\ entry.group = NoGroup
    BY <1>5, <1>6 DEF Device
<1>8. [NoRow EXCEPT !.live = TRUE] = entry
    BY <1>1, <1>4, Zenon
<1>. QED  BY <1>1, <1>7, <1>8

LEMMA CreateDeviceKeeps ==
    ASSUME FleetInv, FleetSoFar, NEW q \in Requests, CreateDevice(q), UNCHANGED zones
    PROVE  FleetInv' /\ FleetSoFar'
<1>1. PICK d \in unborn \cap Devices :
          /\ unborn' = unborn \ {d}
          /\ device' = [device EXCEPT ![d] = [NoRow EXCEPT !.live = TRUE]]
          /\ Call(q, WithPw(Editing("create", "issue", {d}, NoGroup), calls + 1))
    BY DEF CreateDevice, WithPw
<1>2. UNCHANGED <<group, handed, asked, mixed, doubtful, faults, zone, wanted, blurred>>
    BY DEF CreateDevice, zones
<1>3. PICK entry \in Device : entry = [NoRow EXCEPT !.live = TRUE]
    BY NewRow
<1>4. entry.live /\ entry.group = NoGroup
    BY <1>3, NewRow
<1>5. PICK work : work = WithPw(Editing("create", "issue", {d}, NoGroup), calls + 1)
    OBVIOUS
<1>6. /\ req[q] = Idle /\ calls < MaxCalls /\ calls' = calls + 1
      /\ req' = [req EXCEPT ![q] = work] /\ stale' = stale \ {q}
    BY <1>1, <1>5 DEF Call
<1>7. calls + 1 \in 0 .. MaxCalls /\ calls + 1 # 0
    BY <1>6, TypesAre, FleetAssumption
<1>8. /\ work \in Edits
      /\ work = [op |-> "create", stage |-> "issue", devs |-> {d}, grp |-> NoGroup,
                 copy |-> <<>>, pw |-> calls + 1]
    <2>1. {d} \in SUBSET Devices /\ "create" \in FleetOps /\ NoGroup \in Groups \cup {NoGroup}
        BY DEF FleetOps
    <2>. QED  BY <1>5, <1>7, <2>1, NoCopies, EditingIs
<1>9. work.op = "create" /\ work.stage = "issue" /\ work.devs = {d} /\ work.pw = calls + 1
    BY <1>8
<1>10. Issuing(work) /\ ~Saving(work) /\ ~Assigning(work) /\ work.op # "rename" /\ work.op # "list"
    BY <1>9 DEF Issuing, Saving, Assigning
<1>11. work \in Works
    BY <1>7, <1>8, <1>9, <1>10 DEF Works, WellShaped
<1>12. req'[q] = work
    BY <1>6, <1>11, OneWorks, TypesAre
<1>13. /\ device' \in [Devices -> Device] /\ device'[d] = entry
       /\ \A e \in Devices : e # d => device'[e] = device[e]
    BY <1>1, <1>3, TypesAre
<1>14. ~device[d].live /\ asked[d] = NoGroup
    BY DEF FleetInv, UnbornUntouched
<1>15. UpToDate(q)'
    <2>1. IssueFresh(q)'
        BY <1>4, <1>9, <1>12, <1>13 DEF IssueFresh
    <2>. QED  BY <1>10, <1>12, <2>1 DEF UpToDate, SaveFresh, RenameFresh, AssignFresh
<1>16. ASSUME NEW r \in Requests \ stale', r # q
       PROVE  /\ Relies(req[r]) => \A e \in req[r].devs : device'[e] = device[e]
              /\ req[r].op = "rename" =>
                    \A e \in Devices : device'[e] = device[e] \/ device'[e].group # req[r].grp
    <2>1. UpToDate(r) /\ req[r] \in Works
        BY <1>6, <1>16, TypesAre DEF FleetSoFar
    <2>2. ASSUME Relies(req[r]) PROVE d \notin req[r].devs
        BY <1>14, <2>1, <2>2
        DEF UpToDate, IssueFresh, SaveFresh, RenameFresh, Relies, Members, Live
    <2>3. req[r].op = "rename" => req[r].grp \in Groups
        BY <2>1, WorkIs DEF WellShaped
    <2>4. Relies(req[r]) => req[r].devs \subseteq Devices
        BY <2>1, WorkIs DEF Relies, Edits
    <2>. QED  BY <1>4, <1>13, <2>2, <2>3, <2>4, NoGroupIsNone
<1>17. ASSUME NEW e \in Devices PROVE GroupKept(e)'
    BY <1>2, <1>4, <1>13, <1>14 DEF FleetSoFar, GroupKept
<1>18. ~Issuing(req[q])
    BY <1>6, IdleWorks
<1>19. calls' \in 0 .. MaxCalls /\ stale' \subseteq Requests /\ stale \ {q} \subseteq stale'
    BY <1>6, <1>7, TypesAre
<1>20. unborn' \subseteq unborn /\ group' \subseteq Groups
       /\ \A e \in unborn' \cap Devices : device'[e] = device[e] /\ asked'[e] = NoGroup
    BY <1>1, <1>2, <1>13, TypesAre DEF FleetInv, UnbornUntouched
<1>21. \A e \in Devices : device[e].live => device'[e].live
    BY <1>4, <1>13
<1>22. ASSUME NEW e \in Devices
       PROVE  \/ e \in doubtful'
              \/ Issuing(work) /\ e \in work.devs
              \/ device'[e].live =>
                    /\ device[e].live /\ device'[e].hash = device[e].hash
                    /\ device[e].username => device'[e].username
    BY <1>9, <1>10, <1>13
<1>. QED  BY <1>2, <1>6, <1>10, <1>11, <1>13, <1>15, <1>16, <1>17, <1>18, <1>19, <1>20, <1>21, <1>22,
             TypesAre, DeviceMoves

(* The UPDATE of the credentials: an issue that was not overtaken finds the
   row and sets them. *)
LEMMA IssueCredentialsKeeps ==
    ASSUME FleetInv, FleetSoFar, NEW q \in Requests, IssueCredentials(q), UNCHANGED zones
    PROVE  FleetInv' /\ FleetSoFar'
<1>1. PICK old \in Edits : old = req[q] /\ old.op \in {"create", "regenerate"}
                             /\ old.stage = "issue" /\ WellShaped(old)
    BY TypesAre, WorkIs DEF IssueCredentials, FleetOps
<1>2. PICK d \in Devices : old.devs = {d} /\ old.pw # 0
    BY <1>1 DEF WellShaped, Issuing
<1>3. (CHOOSE e \in req[q].devs : TRUE) = d
    BY <1>1, <1>2
<1>4. PICK entry : entry = Provisioned(d, old.pw)
    OBVIOUS
<1>5. PICK rows : rows = [e \in {d} |-> entry]
    OBVIOUS
<1>6. /\ Write(q, rows)
      /\ doubtful' = IF q \in stale THEN doubtful \cup {d} ELSE doubtful
      /\ req' = [req EXCEPT ![q].stage = "answer"]
      /\ UNCHANGED <<unborn, group, handed, asked, mixed, calls, faults, zone, wanted, blurred>>
    BY <1>1, <1>2, <1>3, <1>4, <1>5 DEF IssueCredentials, Marked, Continue, zones
<1>7. old.pw \in Passwords
    BY FleetAssumption DEF Edits, Passwords, FirstPassword
<1>8. /\ entry \in Device /\ (device[d].live <=> entry.live) /\ entry.group = device[d].group
      /\ device[d].live => entry.username /\ entry.hash = old.pw
    <2>1. CASE ~device[d].live
        BY <1>4, <2>1, TypesAre DEF Provisioned
    <2>2. CASE device[d].live
        <3>1. device[d] \in [live: {TRUE}, group: Groups \cup {NoGroup}, username: BOOLEAN,
                             hash: Passwords]
            BY <2>2, RowsAre, TypesAre
        <3>2. PICK yes \in BOOLEAN : yes = TRUE
            OBVIOUS
        <3>3. entry = [device[d] EXCEPT !.username = yes, !.hash = old.pw]
            BY <1>4, <2>2, <3>2, Zenon DEF Provisioned
        <3>4. /\ entry \in [live: {TRUE}, group: Groups \cup {NoGroup}, username: BOOLEAN,
                          hash: Passwords]
              /\ entry.live /\ entry.username = yes /\ entry.hash = old.pw /\ entry.group = device[d].group
            BY <1>7, <3>1, <3>3
        <3>. QED  BY <2>2, <3>2, <3>4 DEF Device
    <2>. QED  BY <2>1, <2>2
<1>9. DOMAIN rows = {d} /\ rows[d] = entry
    BY <1>5
<1>10. /\ device' \in [Devices -> Device] /\ stale \subseteq stale' /\ stale' \subseteq Requests
       /\ device'[d] = entry /\ \A e \in Devices : e # d => device'[e] = device[e]
       /\ \A r \in Requests \ stale' : r # q =>
              /\ Relies(req[r]) => \A e \in req[r].devs : device'[e] = device[e]
              /\ req[r].op = "rename" =>
                    \A e \in Devices : device'[e] = device[e] \/ device'[e].group # req[r].grp
    <2>1. DOMAIN rows \subseteq Devices /\ \A e \in DOMAIN rows : rows[e] \in Device
        BY <1>8, <1>9
    <2>. QED  BY <1>6, <1>9, <2>1, WriteIs
<1>11. PICK work : work = [old EXCEPT !.stage = "answer"]
    OBVIOUS
<1>12. /\ work \in Edits /\ work.op = old.op /\ work.stage = "answer" /\ work.devs = {d}
       /\ work.pw = old.pw
    BY <1>2, <1>11 DEF Edits
<1>13. Issuing(work) /\ Issuing(old) /\ ~Saving(work) /\ ~Assigning(work) /\ work.op # "rename"
       /\ work.op # "list"
    BY <1>1, <1>12 DEF Issuing, Saving, Assigning
<1>14. work \in Works
    BY <1>2, <1>12, <1>13 DEF Works, WellShaped
<1>15. req' = [req EXCEPT ![q] = work]
    BY <1>1, <1>6, <1>11
<1>16. req'[q] = work
    BY <1>14, <1>15, OneWorks, TypesAre
<1>17. ASSUME q \notin stale' PROVE UpToDate(q)'
    <2>1. IssueFresh(q)
        BY <1>10, <1>17 DEF FleetSoFar, UpToDate
    <2>2. device[d].live
        BY <1>1, <1>2, <1>13, <2>1 DEF IssueFresh
    <2>3. IssueFresh(q)'
        BY <1>8, <1>10, <1>12, <1>16, <2>2 DEF IssueFresh
    <2>. QED  BY <1>13, <1>16, <2>3 DEF UpToDate, SaveFresh, RenameFresh, AssignFresh
<1>18. ASSUME NEW e \in Devices PROVE GroupKept(e)'
    BY <1>6, <1>8, <1>10 DEF FleetSoFar, GroupKept
<1>19. \A e \in Devices : device[e].live => device'[e].live
    BY <1>8, <1>10
<1>20. ASSUME NEW e \in unborn' \cap Devices PROVE device'[e] = device[e] /\ asked'[e] = NoGroup
    <2>1. ~device[e].live /\ asked[e] = NoGroup
        BY <1>6, <1>20 DEF FleetInv, UnbornUntouched
    <2>2. ~device[d].live => entry = device[d]
        BY <1>4 DEF Provisioned
    <2>. QED  BY <1>6, <1>10, <2>1, <2>2
<1>21. doubtful' \subseteq Devices /\ doubtful \subseteq doubtful'
    BY <1>6, TypesAre
<1>22. ASSUME NEW e \in Devices
       PROVE  \/ e \in doubtful'
              \/ Issuing(work) /\ e \in work.devs
              \/ device'[e].live =>
                    /\ device[e].live /\ device'[e].hash = device[e].hash
                    /\ device[e].username => device'[e].username
    BY <1>10, <1>12, <1>13
<1>23. stale \ {q} \subseteq stale' /\ unborn' \subseteq unborn /\ group' \subseteq Groups
    BY <1>6, <1>10, TypesAre
<1>24. /\ calls' \in 0 .. MaxCalls /\ mixed' \subseteq Devices
       /\ asked' \in [Devices -> Groups \cup {NoGroup}]
    BY <1>6, TypesAre
<1>25. Issuing(req[q]) => Issuing(work) /\ work.devs = req[q].devs
    BY <1>1, <1>2, <1>12, <1>13
<1>26. UNCHANGED <<handed, zone, wanted, blurred, faults>>
    BY <1>6
<1>27. device' \in [Devices -> Device] /\ stale' \subseteq Requests
       /\ \A r \in Requests \ stale' : r # q =>
              /\ Relies(req[r]) => \A e \in req[r].devs : device'[e] = device[e]
              /\ req[r].op = "rename" =>
                    \A e \in Devices : device'[e] = device[e] \/ device'[e].group # req[r].grp
    BY <1>10
<1>. QED  BY <1>13, <1>14, <1>15, <1>17, <1>18, <1>19, <1>20, <1>21, <1>22, <1>23, <1>24, <1>25, <1>26,
             <1>27, DeviceMoves

(* The save of copies: those of a handler that was not overtaken differ from
   the rows in the group an assignment puts there, and in nothing else. *)
LEMMA SavedIs ==
    ASSUME FleetInv, NEW d \in Devices, NEW copy \in Device, copy.live
    PROVE  /\ Saved(d, copy) \in Device /\ Saved(d, copy).live
           /\ Saved(d, copy).group = copy.group /\ (Saved(d, copy).username <=> copy.username)
           /\ device[d].live => Saved(d, copy).hash = device[d].hash
           /\ copy.group \in Groups \cup {NoGroup}
<1>1. copy \in [live: {TRUE}, group: Groups \cup {NoGroup}, username: BOOLEAN, hash: Passwords]
    BY RowsAre
<1>2. PICK hash \in Passwords : hash = IF device[d].live THEN device[d].hash ELSE 0
    <2>1. 0 \in Passwords
        BY FleetAssumption DEF Passwords, FirstPassword
    <2>2. ASSUME device[d].live PROVE device[d].hash \in Passwords
        <3>1. device[d] \in Device
            BY TypesAre
        <3>2. device[d] \in [live: {TRUE}, group: Groups \cup {NoGroup}, username: BOOLEAN,
                             hash: Passwords]
            BY <2>2, <3>1, RowsAre
        <3>. QED  BY <3>2
    <2>. QED  BY <2>1, <2>2
<1>3. PICK entry : entry = [copy EXCEPT !.hash = hash]
    OBVIOUS
<1>4. Saved(d, copy) = entry
    BY <1>2, <1>3 DEF Saved
<1>5. /\ entry \in [live: {TRUE}, group: Groups \cup {NoGroup}, username: BOOLEAN, hash: Passwords]
      /\ entry.group = copy.group /\ entry.username = copy.username /\ entry.hash = hash /\ entry.live
    BY <1>1, <1>3
<1>. QED  BY <1>1, <1>2, <1>4, <1>5 DEF Device

LEMMA SaveDevicesKeeps ==
    ASSUME FleetInv, FleetSoFar, NEW q \in Requests, SaveDevices(q), UNCHANGED zones
    PROVE  FleetInv' /\ FleetSoFar'
<1>1. PICK old \in Edits : old = req[q] /\ old.op \in {"update", "assign", "unassign"}
                             /\ old.stage = "save" /\ WellShaped(old)
    BY TypesAre, WorkIs DEF SaveDevices, FleetOps
<1>2. Saving(old) /\ ~Issuing(old)
    BY <1>1 DEF Saving, Issuing
<1>3. PICK ds \in SUBSET Devices, copies \in Copies :
          ds = old.devs /\ copies = old.copy
    BY DEF Edits
<1>4. DOMAIN copies = ds /\ \A d \in ds : copies[d] \in Device /\ copies[d].live
    BY <1>1, <1>2, <1>3, CopiesAre DEF WellShaped
<1>5. Done(q) /\ UNCHANGED <<unborn, group, handed, calls, faults, zone, wanted, blurred>>
    BY DEF SaveDevices, zones
<1>6. CASE ~SaveAllowed(copies)
    <2>1. UNCHANGED <<device, stale, mixed, doubtful, asked>>
        BY <1>1, <1>3, <1>6 DEF SaveDevices
    <2>. QED  BY <1>1, <1>2, <1>5, <2>1, TypesAre, LeaveKeeps
<1>7. CASE SaveAllowed(copies)
    <2>1. PICK rows : rows = [d \in ds |-> Saved(d, copies[d])]
        OBVIOUS
    <2>2. PICK moves \in BOOLEAN : moves <=> old.op # "update"
        OBVIOUS
    <2>3. /\ Write(q, rows)
          /\ doubtful' = IF q \in stale THEN doubtful \cup ds ELSE doubtful
          /\ ~moves => /\ mixed' = IF q \in stale THEN mixed \cup ds ELSE mixed
                       /\ UNCHANGED asked
          /\ moves => /\ mixed' = IF q \in stale THEN mixed \cup ds ELSE mixed \ ds
                      /\ asked' = [d \in Devices |->
                                     IF d \in ds THEN copies[d].group ELSE asked[d]]
        BY <1>1, <1>3, <1>4, <1>7, <2>1, <2>2 DEF SaveDevices, Marked, Settled
    <2>4. DOMAIN rows = ds /\ \A d \in ds : rows[d] = Saved(d, copies[d])
        BY <2>1
    <2>5. ASSUME NEW d \in ds
          PROVE  /\ rows[d] \in Device /\ rows[d].live /\ rows[d].group = copies[d].group
                 /\ rows[d].username <=> copies[d].username
                 /\ device[d].live => rows[d].hash = device[d].hash
                 /\ copies[d].group \in Groups \cup {NoGroup}
        BY <1>4, <2>4, SavedIs
    <2>6. /\ device' \in [Devices -> Device] /\ stale \subseteq stale' /\ stale' \subseteq Requests
          /\ \A d \in ds : device'[d] = rows[d]
          /\ \A d \in Devices \ ds : device'[d] = device[d]
          /\ \A r \in Requests \ stale' : r # q =>
                 /\ Relies(req[r]) => \A d \in req[r].devs : device'[d] = device[d]
                 /\ req[r].op = "rename" =>
                       \A d \in Devices : device'[d] = device[d] \/ device'[d].group # req[r].grp
        BY <2>3, <2>4, <2>5, WriteIs
    <2>7. req' = [req EXCEPT ![q] = Idle]
        BY <1>5 DEF Done
    <2>8. UpToDate(q)'
        BY <2>7, IdleIsUpToDate
    <2>9. asked' \in [Devices -> Groups \cup {NoGroup}]
        <3>1. CASE moves
            BY <2>3, <2>5, <3>1, TypesAre
        <3>2. CASE ~moves
            BY <2>3, <3>2, TypesAre
        <3>. QED  BY <3>1, <3>2
    <2>10. ASSUME q \notin stale, NEW d \in ds
           PROVE  /\ device[d].live /\ (copies[d].username <=> device[d].username)
                  /\ ~moves => copies[d].group = device[d].group
        <3>1. SaveFresh(q)
            BY <2>10 DEF FleetSoFar, UpToDate
        <3>. QED  BY <1>1, <1>2, <1>3, <2>2, <3>1 DEF SaveFresh
    <2>11. ASSUME NEW d \in Devices PROVE GroupKept(d)'
        <3>1. GroupKept(d)
            BY DEF FleetSoFar
        <3>2. CASE d \notin ds
            <4>1. asked'[d] = asked[d] /\ (d \in mixed => d \in mixed')
                BY <2>3, <3>2
            <4>. QED  BY <2>6, <3>1, <3>2, <4>1 DEF GroupKept
        <3>3. CASE d \in ds /\ moves
            BY <2>3, <2>5, <2>6, <3>3 DEF GroupKept
        <3>4. CASE d \in ds /\ ~moves
            BY <2>3, <2>5, <2>6, <2>10, <3>1, <3>4 DEF GroupKept
        <3>. QED  BY <3>2, <3>3, <3>4
    <2>12. \A d \in Devices : device[d].live => device'[d].live
        BY <2>5, <2>6
    <2>13. ASSUME NEW d \in unborn' \cap Devices PROVE device'[d] = device[d] /\ asked'[d] = NoGroup
        <3>1. d \notin ds /\ asked[d] = NoGroup
            BY <1>1, <1>2, <1>3, <1>5, <2>13 DEF FleetInv, UnbornUntouched
        <3>2. asked'[d] = asked[d]
            BY <2>3, <3>1
        <3>. QED  BY <2>6, <3>1, <3>2
    <2>14. ASSUME NEW d \in Devices
           PROVE  \/ d \in doubtful'
                  \/ Issuing(Idle) /\ d \in Idle.devs
                  \/ device'[d].live =>
                        /\ device[d].live /\ device'[d].hash = device[d].hash
                        /\ device[d].username => device'[d].username
        <3>1. CASE d \in ds /\ q \in stale
            BY <2>3, <3>1
        <3>2. CASE d \in ds /\ q \notin stale
            BY <2>5, <2>6, <2>10, <3>2
        <3>3. CASE d \notin ds
            BY <2>6, <3>3
        <3>. QED  BY <3>1, <3>2, <3>3
    <2>15. /\ calls' \in 0 .. MaxCalls /\ group' \subseteq Groups /\ unborn' \subseteq unborn
           /\ stale \ {q} \subseteq stale' /\ stale' \subseteq Requests
           /\ mixed' \subseteq Devices /\ doubtful' \subseteq Devices /\ doubtful \subseteq doubtful'
        BY <1>5, <2>3, <2>6, TypesAre
    <2>16. ~Saving(Idle) /\ Idle.op # "list" /\ Idle \in Works
        BY IdleWorks
    <2>17. Issuing(req[q]) => Issuing(Idle) /\ Idle.devs = req[q].devs
        BY <1>1, <1>2
    <2>18. UNCHANGED <<handed, zone, wanted, blurred, faults>>
        BY <1>5
    <2>19. device' \in [Devices -> Device]
           /\ \A r \in Requests \ stale' : r # q =>
                 /\ Relies(req[r]) => \A d \in req[r].devs : device'[d] = device[d]
                 /\ req[r].op = "rename" =>
                       \A d \in Devices : device'[d] = device[d] \/ device'[d].group # req[r].grp
        BY <2>6
    <2>. QED  BY <2>7, <2>8, <2>9, <2>11, <2>12, <2>13, <2>14, <2>15, <2>16, <2>17, <2>18, <2>19,
                 DeviceMoves
<1>. QED  BY <1>6, <1>7

(* A device with another group. *)
LEMMA WithGroup ==
    ASSUME NEW entry \in Device, entry.live, NEW g \in Groups \cup {NoGroup},
           NEW moved, moved = [entry EXCEPT !.group = g]
    PROVE  /\ moved \in Device /\ moved.live /\ moved.group = g /\ moved.hash = entry.hash
           /\ moved.username <=> entry.username
<1>1. entry \in [live: {TRUE}, group: Groups \cup {NoGroup}, username: BOOLEAN, hash: Passwords]
    BY RowsAre
<1>2. moved \in [live: {TRUE}, group: Groups \cup {NoGroup}, username: BOOLEAN, hash: Passwords]
      /\ moved.live /\ moved.group = g /\ moved.hash = entry.hash /\ moved.username = entry.username
    BY <1>1
<1>. QED  BY <1>2 DEF Device

(* Some devices change their group, and nothing else. *)
LEMMA GroupMoves ==
    ASSUME FleetInv, FleetSoFar, NEW q \in Requests, req' = [req EXCEPT ![q] = Idle],
           ~Issuing(req[q]), device' \in [Devices -> Device],
           NEW ds \in SUBSET Devices,
           \A d \in Devices \ ds : device'[d] = device[d],
           \A d \in ds : /\ device[d].live /\ device'[d].live /\ device'[d].hash = device[d].hash
                         /\ device'[d].username <=> device[d].username,
           UNCHANGED <<handed, doubtful, zone, wanted, blurred, faults>>,
           calls' \in 0 .. MaxCalls, group' \subseteq Groups, unborn' = unborn,
           \A d \in Devices : asked[d] = NoGroup => asked'[d] = NoGroup,
           asked' \in [Devices -> Groups \cup {NoGroup}], mixed' \subseteq Devices,
           NEW others, stale' = stale \cup Overtakes(q, ds, device') \cup others,
           others \subseteq Requests,
           \A d \in Devices : GroupKept(d)'
    PROVE  FleetInv' /\ FleetSoFar'
<1>1. PICK rows : rows = device'
    OBVIOUS
<1>2. ASSUME NEW r \in Requests \ stale', r # q
      PROVE  /\ Relies(req[r]) => \A d \in req[r].devs : device'[d] = device[d]
             /\ req[r].op = "rename" =>
                   \A d \in Devices : device'[d] = device[d] \/ device'[d].group # req[r].grp
    <2>1. /\ Relies(req[r]) => req[r].devs \cap ds = {}
          /\ req[r].op = "rename" => \A d \in ds : rows[d].group # req[r].grp
        BY <1>1, <1>2, OvertakesAre
    <2>2. Relies(req[r]) => req[r].devs \subseteq Devices
        BY TypesAre, WorkIs DEF Relies, Edits
    <2>. QED  BY <1>1, <2>1, <2>2
<1>3. UpToDate(q)'
    BY IdleIsUpToDate
<1>4. stale' \subseteq Requests /\ stale \ {q} \subseteq stale'
    <2>1. Overtakes(q, ds, rows) \subseteq Requests
        BY DEF Overtakes
    <2>. QED  BY <1>1, <2>1, TypesAre
<1>5. \A d \in unborn' \cap Devices : device'[d] = device[d] /\ asked'[d] = NoGroup
    BY DEF FleetInv, UnbornUntouched
<1>6. \A d \in Devices : device[d].live => device'[d].live
    OBVIOUS
<1>7. \A d \in Devices :
          \/ d \in doubtful'
          \/ Issuing(Idle) /\ d \in Idle.devs
          \/ device'[d].live =>
                /\ device[d].live /\ device'[d].hash = device[d].hash
                /\ device[d].username => device'[d].username
    OBVIOUS
<1>8. ~Saving(Idle) /\ Idle.op # "list" /\ Idle \in Works
    BY IdleWorks
<1>9. Issuing(req[q]) => Issuing(Idle) /\ Idle.devs = req[q].devs
    OBVIOUS
<1>10. doubtful' \subseteq Devices /\ doubtful \subseteq doubtful' /\ unborn' \subseteq unborn
       /\ UNCHANGED <<handed, zone, wanted, blurred, faults>>
    BY TypesAre
<1>. QED  BY <1>2, <1>3, <1>4, <1>5, <1>6, <1>7, <1>8, <1>9, <1>10, DeviceMoves

(* Renaming a group writes the list of devices back: a handler that was not
   overtaken writes the members there are. *)
LEMMA SaveGroupKeeps ==
    ASSUME FleetInv, FleetSoFar, NEW q \in Requests, SaveGroup(q), UNCHANGED zones
    PROVE  FleetInv' /\ FleetSoFar'
<1>1. PICK old \in Edits : old = req[q] /\ old.op = "rename" /\ old.grp \in Groups
    BY TypesAre, WorkIs DEF SaveGroup, WellShaped
<1>2. PICK g \in Groups : g = old.grp
    BY <1>1
<1>3. PICK join \in SUBSET Devices, leave \in SUBSET Devices :
          join = (old.devs \cap Live) \ Members(g) /\ leave = Members(g) \ old.devs
    BY DEF Live, Members
<1>4. /\ group' = group \cup {g}
      /\ device' = [d \in Devices |->
            CASE d \in join -> [device[d] EXCEPT !.group = g]
              [] d \in leave -> [device[d] EXCEPT !.group = NoGroup]
              [] OTHER -> device[d]]
      /\ mixed' = IF q \in stale THEN mixed \cup (join \cup leave) ELSE mixed
      /\ stale' = stale \cup Overtakes(q, join \cup leave, device')
      /\ req' = [req EXCEPT ![q] = Idle]
      /\ UNCHANGED <<unborn, handed, asked, doubtful, calls, faults, zone, wanted, blurred>>
    BY <1>1, <1>2, <1>3 DEF SaveGroup, Marked, Done, zones
<1>5. PICK ds \in SUBSET Devices : ds = join \cup leave
    OBVIOUS
<1>6. ds \subseteq Live
    BY <1>3, <1>5 DEF Members
<1>7. ASSUME NEW d \in ds
      PROVE  /\ device[d].live /\ device'[d] \in Device /\ device'[d].live
             /\ device'[d].hash = device[d].hash /\ (device'[d].username <=> device[d].username)
    <2>1. device[d].live /\ device[d] \in Device
        BY <1>6, TypesAre DEF Live
    <2>2. PICK to \in Groups \cup {NoGroup} : device'[d] = [device[d] EXCEPT !.group = to]
        <3>1. CASE d \in join
            <4>1. device'[d] = [device[d] EXCEPT !.group = g]
                BY <1>3, <1>4, <3>1
            <4>. QED  BY <4>1
        <3>2. CASE d \in leave
            <4>1. device'[d] = [device[d] EXCEPT !.group = NoGroup]
                BY <1>3, <1>4, <3>2
            <4>. QED  BY <4>1
        <3>. QED  BY <1>5, <3>1, <3>2
    <2>. QED  BY <2>1, <2>2, WithGroup
<1>8. \A d \in Devices \ ds : device'[d] = device[d]
    BY <1>4, <1>5
<1>9. device' \in [Devices -> Device]
    <2>1. \A d \in Devices : device'[d] \in Device
        BY <1>7, <1>8, TypesAre
    <2>2. PICK rows : rows = device'
        OBVIOUS
    <2>3. rows = [d \in Devices |-> rows[d]]
        BY <1>4, <2>2
    <2>. QED  BY <2>1, <2>2, <2>3
<1>10. ASSUME q \notin stale PROVE ds = {}
    <2>1. RenameFresh(q)
        BY <1>10 DEF FleetSoFar, UpToDate
    <2>. QED  BY <1>1, <1>2, <1>3, <1>5, <2>1 DEF RenameFresh
<1>11. ASSUME NEW d \in Devices PROVE GroupKept(d)'
    <2>1. GroupKept(d)
        BY DEF FleetSoFar
    <2>2. CASE d \notin ds
        BY <1>4, <1>5, <1>8, <2>1, <2>2 DEF GroupKept
    <2>3. CASE d \in ds
        BY <1>4, <1>5, <1>10, <2>3 DEF GroupKept
    <2>. QED  BY <2>2, <2>3
<1>12. ~Issuing(req[q])
    BY <1>1 DEF Issuing
<1>13. /\ calls' \in 0 .. MaxCalls /\ group' \subseteq Groups /\ mixed' \subseteq Devices
       /\ asked' \in [Devices -> Groups \cup {NoGroup}]
       /\ \A d \in Devices : asked[d] = NoGroup => asked'[d] = NoGroup
    BY <1>4, <1>5, TypesAre
<1>14. PICK others \in SUBSET Requests : others = {}
    OBVIOUS
<1>15. stale' = stale \cup Overtakes(q, ds, device') \cup others
    BY <1>4, <1>5, <1>14
<1>16. UNCHANGED <<handed, doubtful, zone, wanted, blurred, faults>> /\ unborn' = unborn
       /\ req' = [req EXCEPT ![q] = Idle]
    BY <1>4
<1>17. \A d \in ds : /\ device[d].live /\ device'[d].live /\ device'[d].hash = device[d].hash
                     /\ device'[d].username <=> device[d].username
    BY <1>7
<1>. QED  BY <1>8, <1>9, <1>11, <1>12, <1>13, <1>14, <1>15, <1>16, <1>17, GroupMoves

LEMMA RemoveGroupKeeps ==
    ASSUME FleetInv, FleetSoFar, NEW q \in Requests, NEW g \in Groups, RemoveGroup(q, g),
           UNCHANGED zones
    PROVE  FleetInv' /\ FleetSoFar'
<1>1. PICK ds \in SUBSET Devices : ds = Members(g)
    BY DEF Members, Live
<1>2. PICK others \in SUBSET Requests :
          others = {r \in Requests \ {q} : req[r].op = "rename" /\ req[r].grp = g}
    OBVIOUS
<1>3. /\ req[q] = Idle /\ calls < MaxCalls /\ calls' = calls + 1 /\ group' = group \ {g}
      /\ device' = [d \in Devices |->
            IF d \in ds THEN [device[d] EXCEPT !.group = NoGroup] ELSE device[d]]
      /\ asked' = [d \in Devices |-> IF asked[d] = g THEN NoGroup ELSE asked[d]]
      /\ stale' = stale \cup Overtakes(q, ds, device') \cup others
      /\ UNCHANGED <<unborn, handed, mixed, doubtful, req, faults, zone, wanted, blurred>>
    BY <1>1, <1>2 DEF RemoveGroup, zones
<1>4. ASSUME NEW d \in ds
      PROVE  /\ device[d].live /\ device'[d] \in Device /\ device'[d].live
             /\ device'[d].group = NoGroup /\ device[d].group = g
             /\ device'[d].hash = device[d].hash /\ (device'[d].username <=> device[d].username)
    <2>1. device[d].live /\ device[d] \in Device /\ device[d].group = g
        BY <1>1, TypesAre DEF Members, Live
    <2>2. PICK to \in Groups \cup {NoGroup} : to = NoGroup
        OBVIOUS
    <2>3. device'[d] = [device[d] EXCEPT !.group = to]
        BY <1>3, <2>2
    <2>. QED  BY <2>1, <2>2, <2>3, WithGroup
<1>5. \A d \in Devices \ ds : device'[d] = device[d]
    BY <1>3
<1>6. device' \in [Devices -> Device]
    <2>1. \A d \in Devices : device'[d] \in Device
        BY <1>4, <1>5, TypesAre
    <2>2. PICK rows : rows = device'
        OBVIOUS
    <2>3. rows = [d \in Devices |-> rows[d]]
        BY <1>3, <2>2
    <2>. QED  BY <2>1, <2>2, <2>3
<1>7. asked' \in [Devices -> Groups \cup {NoGroup}]
      /\ \A d \in Devices : asked'[d] = IF asked[d] = g THEN NoGroup ELSE asked[d]
    BY <1>3, TypesAre
<1>8. ASSUME NEW d \in Devices PROVE GroupKept(d)'
    <2>1. GroupKept(d)
        BY DEF FleetSoFar
    <2>2. CASE d \in ds
        BY <1>3, <1>4, <1>7, <2>1, <2>2 DEF GroupKept
    <2>3. CASE d \notin ds
        <3>1. device[d].live => device[d].group # g
            BY <1>1, <2>3 DEF Members, Live
        <3>. QED  BY <1>3, <1>5, <1>7, <2>1, <2>3, <3>1 DEF GroupKept
    <2>. QED  BY <2>2, <2>3
<1>9. req' = [req EXCEPT ![q] = Idle] /\ ~Issuing(req[q])
    BY <1>3, IdleWorks, TypesAre
<1>10. calls' \in 0 .. MaxCalls /\ group' \subseteq Groups /\ mixed' \subseteq Devices
    BY <1>3, TypesAre, FleetAssumption
<1>11. UNCHANGED <<handed, doubtful, zone, wanted, blurred, faults>> /\ unborn' = unborn
       /\ stale' = stale \cup Overtakes(q, ds, device') \cup others
    BY <1>3
<1>12. \A d \in ds : /\ device[d].live /\ device'[d].live /\ device'[d].hash = device[d].hash
                     /\ device'[d].username <=> device[d].username
    BY <1>4
<1>13. \A d \in Devices : asked[d] = NoGroup => asked'[d] = NoGroup
    BY <1>7
<1>. QED  BY <1>5, <1>6, <1>7, <1>8, <1>9, <1>10, <1>11, <1>12, <1>13, GroupMoves

(* A device that goes moves at most one other into the pages read. *)
LEMMA SkipsOneMore ==
    ASSUME NEW ds \in SUBSET Devices, NEW d \in Devices, NEW old \in Listings, NEW work \in Listings,
           old.whole \subseteq ds, work.whole = old.whole \ {d}, work.seen = old.seen,
           work.page = old.page
    PROVE  Cardinality(Skipped(ds \ {d}, work)) <= Cardinality(Skipped(ds, old)) + 1
<1>1. PICK n \in Int : n = (old.page - 1) * Limit
    BY FleetAssumption DEF Listings
<1>2. PICK left \in SUBSET Devices, was \in SUBSET Devices :
          left = Skipped(ds \ {d}, work) /\ was = Skipped(ds, old)
    BY DEF Skipped, Listings
<1>3. IsFiniteSet(was) /\ IsFiniteSet(left)
    BY FS_Subset, FleetAssumption
<1>4. Cardinality(was) \in Nat /\ Cardinality(left) \in Nat
    BY <1>3, FS_CardinalityType
<1>5. ASSUME NEW w \in left PROVE w \in ds /\ (w \in was \/ Rank(ds, w) = n)
    <2>1. w \in old.whole /\ w \notin old.seen /\ w \in ds /\ Rank(ds \ {d}, w) < n
        BY <1>1, <1>2 DEF Skipped
    <2>2. Rank(ds \ {d}, w) >= Rank(ds, w) - 1 /\ Rank(ds, w) \in Nat
        BY <2>1, RankShifts, RankIs
    <2>3. ds \ {d} \in SUBSET Devices /\ w \in Devices
        BY <2>1
    <2>4. Rank(ds \ {d}, w) \in Nat
        BY <2>3, RankIs
    <2>5. Rank(ds, w) < n \/ Rank(ds, w) = n
        BY <2>1, <2>2, <2>4
    <2>. QED  BY <1>1, <1>2, <2>1, <2>5 DEF Skipped
<1>6. CASE left \subseteq was
    <2>1. Cardinality(left) <= Cardinality(was)
        BY <1>3, <1>6, FS_Subset
    <2>. QED  BY <1>2, <1>4, <2>1
<1>7. CASE ~(left \subseteq was)
    <2>1. PICK v \in left : v \notin was
        BY <1>7
    <2>2. left \subseteq was \cup {v}
        BY <1>5, <2>1, RanksDiffer
    <2>3. IsFiniteSet(was \cup {v}) /\ Cardinality(was \cup {v}) = Cardinality(was) + 1
        BY <1>3, <2>1, FS_AddElement
    <2>4. Cardinality(left) <= Cardinality(was \cup {v})
        BY <2>2, <2>3, FS_Subset
    <2>. QED  BY <1>2, <1>4, <2>3, <2>4
<1>. QED  BY <1>6, <1>7

LEMMA RemoveAssignedKeeps ==
    ASSUME FleetInv, FleetSoFar, NEW q \in Requests, NEW d \in Devices, RemoveAssigned(q, d)
    PROVE  FleetInv' /\ FleetSoFar'
<1>1. PICK also \in SUBSET Requests :
          also = UNION {Holders(z) : z \in {y \in ZoneIds : d \in zone[y].devices}}
    BY DEF Holders
<1>2. /\ d \in Live /\ req[q] = Idle /\ calls < MaxCalls
      /\ device' = [device EXCEPT ![d] = NoRow]
      /\ stale' = stale \cup Overtakes(q, {d}, device') \cup also
      /\ asked' = [asked EXCEPT ![d] = NoGroup]
      /\ calls' = calls + 1
      /\ req' = [r \in Requests |->
            IF req[r].op = "list"
            THEN [req[r] EXCEPT !.whole = req[r].whole \ {d}, !.gone = req[r].gone + 1]
            ELSE req[r]]
      /\ UNCHANGED <<unborn, group, handed, mixed, doubtful, faults, blurred>>
      /\ zone' = [z \in ZoneIds |-> [zone[z] EXCEPT !.devices = zone[z].devices \ {d}]]
      /\ wanted' = [z \in ZoneIds |-> wanted[z] \ {d}]
    BY <1>1 DEF RemoveAssigned, RemoveDevice
<1>3. /\ device' \in [Devices -> Device] /\ device'[d] = NoRow /\ ~device'[d].live
      /\ \A e \in Devices : e # d => device'[e] = device[e]
    BY <1>2, RowsAre, TypesAre
<1>4. /\ asked' \in [Devices -> Groups \cup {NoGroup}] /\ asked'[d] = NoGroup
      /\ \A e \in Devices : e # d => asked'[e] = asked[e]
    BY <1>2, TypesAre
<1>5. \A r \in Requests : req[r].op # "list" => req'[r] = req[r]
    BY <1>2
<1>6. ASSUME NEW r \in Requests, req[r].op = "list"
      PROVE  /\ req[r] \in Listings /\ req'[r] \in Listings /\ req'[r].op = "list"
             /\ req'[r].whole = req[r].whole \ {d} /\ req'[r].gone = req[r].gone + 1
             /\ req'[r].seen = req[r].seen /\ req'[r].page = req[r].page
             /\ req'[r].over = req[r].over
    <2>1. PICK old \in Listings : old = req[r]
        BY <1>6, TypesAre, WorkIs
    <2>2. PICK whole \in SUBSET Devices, gone \in Nat :
              whole = old.whole \ {d} /\ gone = old.gone + 1
        <3>1. old.whole \ {d} \in SUBSET Devices /\ old.gone + 1 \in Nat
            BY DEF Listings
        <3>. QED  BY <3>1
    <2>3. PICK work : work = [old EXCEPT !.whole = whole, !.gone = gone]
        OBVIOUS
    <2>4. req'[r] = work
        BY <1>2, <1>6, <2>1, <2>2, <2>3
    <2>5. /\ work \in Listings /\ work.whole = whole /\ work.gone = gone /\ work.seen = old.seen
          /\ work.page = old.page /\ work.over = old.over /\ work.op = "list"
        BY <2>3 DEF Listings
    <2>. QED  BY <2>1, <2>2, <2>4, <2>5
<1>7. req' \in [Requests -> Works]
    <2>1. \A r \in Requests : req'[r] \in Works
        BY <1>5, <1>6, TypesAre DEF Works
    <2>2. PICK works : works = req'
        OBVIOUS
    <2>3. works = [r \in Requests |-> works[r]]
        BY <1>2, <2>2
    <2>. QED  BY <2>1, <2>2, <2>3
<1>8. \A r \in Requests : req[r].op = "list" =>
          ~Issuing(req'[r]) /\ ~Saving(req'[r]) /\ ~Assigning(req'[r]) /\ req'[r].op # "rename"
    BY <1>6 DEF Issuing, Saving, Assigning
<1>9. ASSUME NEW z \in ZoneIds
      PROVE  /\ zone'[z] \in Geofence /\ zone'[z].state = zone[z].state
             /\ zone'[z].devices = zone[z].devices \ {d}
             /\ wanted'[z] = wanted[z] \ {d}
    <2>1. zone[z] \in Geofence
        BY TypesAre
    <2>2. PICK entry : entry = [zone[z] EXCEPT !.devices = zone[z].devices \ {d}]
        OBVIOUS
    <2>3. entry \in Geofence /\ entry.state = zone[z].state /\ entry.devices = zone[z].devices \ {d}
        BY <2>1, <2>2 DEF Geofence
    <2>. QED  BY <1>2, <2>2, <2>3
<1>10. zone' \in [ZoneIds -> Geofence] /\ wanted' \in [ZoneIds -> SUBSET Devices]
    <2>1. PICK rows : rows = zone'
        OBVIOUS
    <2>2. rows = [z \in ZoneIds |-> rows[z]] /\ \A z \in ZoneIds : rows[z] \in Geofence
        BY <1>2, <1>9, <2>1
    <2>3. \A z \in ZoneIds : wanted[z] \ {d} \in SUBSET Devices
        BY TypesAre
    <2>. QED  BY <1>2, <2>1, <2>2, <2>3
<1>11. PICK rows : rows = device'
    OBVIOUS
<1>12. stale \subseteq stale' /\ stale' \subseteq Requests
    <2>1. Overtakes(q, {d}, rows) \subseteq Requests
        BY DEF Overtakes
    <2>. QED  BY <1>2, <1>11, <2>1, TypesAre
<1>13. UnbornUntouched'
    <2> SUFFICES ASSUME NEW e \in Devices \cap unborn
                 PROVE  /\ ~device'[e].live /\ asked'[e] = NoGroup
                        /\ \A r \in Requests : Saving(req'[r]) => e \notin req'[r].devs
        BY <1>2 DEF UnbornUntouched, Saving
    <2>1. /\ ~device[e].live /\ asked[e] = NoGroup
          /\ \A r \in Requests : Saving(req[r]) => e \notin req[r].devs
        BY DEF FleetInv, UnbornUntouched
    <2>. QED  BY <1>3, <1>4, <1>5, <1>8, <2>1
<1>14. calls' \in 0 .. MaxCalls
    <2>1. calls < MaxCalls /\ calls' = calls + 1
        BY <1>2
    <2>. QED  BY <2>1, TypesAre, FleetAssumption
<1>15. FleetInv'
    BY <1>2, <1>3, <1>4, <1>7, <1>10, <1>12, <1>13, <1>14, TypesAre, TypesMake
<1>16. ASSUME NEW r \in Requests \ stale' PROVE UpToDate(r)'
    <2>1. CASE req[r].op = "list"
        BY <1>8, <2>1 DEF UpToDate, IssueFresh, SaveFresh, RenameFresh, AssignFresh, Issuing,
                          Saving, Assigning
    <2>2. CASE req[r].op # "list"
        <3>1. req'[r] = req[r] /\ UpToDate(r) /\ req[r] \in Works
            BY <1>5, <1>12, <1>16, <2>2, TypesAre DEF FleetSoFar
        <3>2. Relies(req[r]) => r # q
            <4>1. Idle.op # "rename"
                BY IdleWorks
            <4>. QED  BY <1>2, <4>1, IdleWorks DEF Relies
        <3>3. r # q => r \notin Overtakes(q, {d}, rows)
            BY <1>2, <1>11, <1>16
        <3>4. r # q => (Relies(req[r]) => req[r].devs \cap {d} = {})
            BY <3>3, OvertakesAre
        <3>5. Relies(req[r]) => req[r].devs \subseteq Devices
            BY <3>1, WorkIs DEF Relies, Edits
        <3>6. Relies(req[r]) => \A e \in req[r].devs : device'[e] = device[e]
            BY <1>3, <3>2, <3>4, <3>5
        <3>7. ASSUME Assigning(req[r])
              PROVE  /\ zone'[req[r].zone].state = zone[req[r].zone].state
                     /\ zone'[req[r].zone].devices = zone[req[r].zone].devices
            <4>1. PICK z \in ZoneIds : z = req[r].zone
                BY <3>1, <3>7, WorkIs DEF Zonings
            <4>2. r \in Holders(z)
                BY <3>7, <4>1 DEF Assigning, Holders, ZoneOps
            <4>3. r \notin also
                BY <1>2, <1>16
            <4>4. d \notin zone[z].devices
                BY <1>1, <4>2, <4>3
            <4>5. zone'[z].devices = zone[z].devices /\ zone'[z].state = zone[z].state
                BY <1>9, <4>4
            <4>. QED  BY <4>1, <4>5
        <3>8. \A e \in Devices : device'[e] = device[e] \/ ~device'[e].live
            BY <1>3
        <3>. QED  BY <3>1, <3>6, <3>7, <3>8, StaysUpToDate
    <2>. QED  BY <2>1, <2>2
<1>17. ASSUME NEW e \in Devices PROVE Credentials(e)' /\ GroupKept(e)'
    <2>1. Credentials(e) /\ GroupKept(e)
        BY DEF FleetSoFar
    <2>2. CASE e = d
        BY <1>3, <2>2 DEF Credentials, GroupKept
    <2>3. CASE e # d
        <3>1. device'[e] = device[e] /\ asked'[e] = asked[e] /\ handed'[e] = handed[e]
            BY <1>2, <1>3, <1>4, <2>3
        <3>2. \A r \in Requests : Issuing(req[r]) /\ e \in req[r].devs =>
                  (Issuing(req[r]) /\ e \in req[r].devs)'
            BY <1>5 DEF Issuing
        <3>3. Credentials(e)'
            BY <1>2, <2>1, <3>1, <3>2, CredentialsStay
        <3>. QED  BY <1>2, <2>1, <3>1, <3>3 DEF GroupKept
    <2>. QED  BY <2>2, <2>3
<1>18. ASSUME NEW z \in ZoneIds PROVE Assigned(z)'
    <2>1. Assigned(z)
        BY DEF FleetSoFar
    <2>. QED  BY <1>2, <1>9, <2>1 DEF Assigned, IsLive
<1>19. ASSUME NEW r \in Requests PROVE ListingSoFar(r)'
    <2>1. CASE req[r].op # "list"
        BY <1>5, <2>1 DEF ListingSoFar
    <2>2. CASE req[r].op = "list"
        <3>1. PICK old \in Listings, work \in Listings : old = req[r] /\ work = req'[r]
            BY <1>6, <2>2
        <3>2. /\ work.whole = old.whole \ {d} /\ work.gone = old.gone + 1
              /\ work.seen = old.seen /\ work.page = old.page /\ work.over = old.over
            BY <1>6, <2>2, <3>1
        <3>3. PICK ds \in SUBSET Devices : ds = Live
            BY DEF Live
        <3>4. Live' = ds \ {d}
            BY <1>3, <3>3 DEF Live
        <3>5. /\ old.whole \subseteq ds /\ Cardinality(Skipped(ds, old)) <= old.gone
              /\ old.over => Cardinality(old.whole \ old.seen) <= old.gone
            BY <2>2, <3>1, <3>3 DEF FleetSoFar, ListingSoFar
        <3>6. Cardinality(Skipped(ds \ {d}, work)) <= Cardinality(Skipped(ds, old)) + 1
            BY <3>2, <3>5, SkipsOneMore
        <3>7. /\ Skipped(ds, old) \in SUBSET Devices /\ Skipped(ds \ {d}, work) \in SUBSET Devices
              /\ old.whole \ old.seen \in SUBSET Devices /\ old.gone \in Nat
            BY DEF Skipped, Listings
        <3>8. /\ Cardinality(Skipped(ds, old)) \in Nat /\ Cardinality(Skipped(ds \ {d}, work)) \in Nat
              /\ IsFiniteSet(old.whole \ old.seen)
            BY <3>7, FS_Subset, FS_CardinalityType, FleetAssumption
        <3>9. Cardinality(Skipped(ds \ {d}, work)) <= work.gone
            BY <3>2, <3>5, <3>6, <3>7, <3>8
        <3>10. ASSUME work.over PROVE Cardinality(work.whole \ work.seen) <= work.gone
            <4>1. work.whole \ work.seen \in SUBSET (old.whole \ old.seen)
                BY <3>2
            <4>2. /\ Cardinality(work.whole \ work.seen) <= Cardinality(old.whole \ old.seen)
                  /\ IsFiniteSet(work.whole \ work.seen)
                BY <3>8, <4>1, FS_Subset
            <4>3. /\ Cardinality(work.whole \ work.seen) \in Nat
                  /\ Cardinality(old.whole \ old.seen) \in Nat
                BY <3>8, <4>2, FS_CardinalityType
            <4>4. Cardinality(old.whole \ old.seen) <= old.gone
                BY <3>2, <3>5, <3>10
            <4>. QED  BY <3>2, <3>7, <4>2, <4>3, <4>4
        <3>11. work.whole \subseteq ds \ {d}
            BY <3>2, <3>5
        <3>. QED  BY <3>1, <3>4, <3>9, <3>10, <3>11 DEF ListingSoFar
    <2>. QED  BY <2>1, <2>2
<1>. QED  BY <1>15, <1>16, <1>17, <1>18, <1>19 DEF FleetSoFar

-----------------------------------------------------------------------------
(* The theorems. *)

LEMMA FleetInitially ==
    ASSUME Init PROVE FleetInv /\ FleetSoFar
<1>1. PICK first \in [live: {TRUE}, group: Groups \cup {NoGroup}, username: BOOLEAN,
                      hash: Passwords] :
          /\ first = [live |-> TRUE, group |-> NoGroup, username |-> TRUE, hash |-> FirstPassword]
          /\ first.live /\ first.group = NoGroup /\ first.username /\ first.hash = FirstPassword
    <2>1. PICK yes \in {TRUE} : yes = TRUE
        OBVIOUS
    <2>2. PICK named \in BOOLEAN : named = yes
        BY <2>1
    <2>3. FirstPassword \in Passwords
        BY FleetAssumption DEF Passwords, FirstPassword
    <2>4. PICK entry : entry = [live |-> yes, group |-> NoGroup, username |-> named,
                            hash |-> FirstPassword]
        OBVIOUS
    <2>5. /\ entry \in [live: {TRUE}, group: Groups \cup {NoGroup}, username: BOOLEAN,
                      hash: Passwords]
          /\ entry.live /\ entry.group = NoGroup /\ entry.username = named /\ entry.hash = FirstPassword
        BY <2>3, <2>4
    <2>6. entry = [live |-> TRUE, group |-> NoGroup, username |-> TRUE, hash |-> FirstPassword]
        BY <2>1, <2>2, <2>4, Zenon
    <2>. QED  BY <2>1, <2>2, <2>5, <2>6
<1>2. /\ device = [d \in Devices |-> IF d \in Existing THEN first ELSE NoRow]
      /\ group \in SUBSET Groups /\ unborn = (Devices \ Existing) \cup (Groups \ group)
      /\ req = [q \in Requests |-> Idle] /\ calls = 0 /\ faults = 0
      /\ handed = [d \in Devices |-> IF d \in Existing THEN FirstPassword ELSE 0]
      /\ asked = [d \in Devices |-> NoGroup]
      /\ stale = {} /\ mixed = {} /\ doubtful = {}
      /\ wanted = [z \in ZoneIds |-> {}] /\ blurred = {}
    BY <1>1, Zenon DEF Init, FleetInit
<1>3. first \in Device
    BY DEF Device
<1>4. device \in [Devices -> Device] /\ asked \in [Devices -> Groups \cup {NoGroup}]
      /\ wanted \in [ZoneIds -> SUBSET Devices] /\ req \in [Requests -> Works]
    BY <1>2, <1>3, RowsAre, IdleWorks
<1>5. handed \in [Devices -> Passwords]
    BY <1>2, FleetAssumption DEF Passwords, FirstPassword
<1>6. zone \in [ZoneIds -> Geofence] /\ \A z \in ZoneIds : zone[z].devices = {}
    <2>1. PICK no \in BOOLEAN, yes \in BOOLEAN : no = FALSE /\ yes = TRUE
        OBVIOUS
    <2>2. zone \in [ZoneIds -> {[state |-> "unborn", geom |-> no, devices |-> {}],
                                [state |-> "live", geom |-> yes, devices |-> {}]}]
        BY <2>1, Zenon DEF Init
    <2>. QED  BY <2>2 DEF Geofence
<1>7. ASSUME NEW r \in Requests
      PROVE  /\ ~Issuing(req[r]) /\ ~Saving(req[r]) /\ ~Assigning(req[r])
             /\ req[r].op # "rename" /\ req[r].op # "list"
             /\ req[r].op \in {"idle", "list"} \cup FleetOps \cup ZoneOps
    <2>1. req[r] = Idle
        BY <1>2
    <2>2. ~Assigning(Idle) /\ Idle.op # "rename" /\ Idle.op # "list"
        BY DEF Idle, Assigning
    <2>. QED  BY <2>1, <2>2, IdleWorks
<1>8. UnbornUntouched
    <2>1. \A d \in Devices \cap unborn : d \notin Existing
        BY <1>2, FleetAssumption
    <2>. QED  BY <1>2, <1>7, <2>1, RowsAre DEF UnbornUntouched
<1>9. FleetInv
    <2>1. unborn \subseteq Devices \cup Groups /\ calls \in 0 .. MaxCalls /\ faults \in 0 .. MaxFaults
          /\ mixed \cup doubtful \subseteq Devices /\ stale \subseteq Requests
          /\ blurred \subseteq ZoneIds
        BY <1>2, FleetAssumption
    <2>. QED  BY <1>2, <1>4, <1>5, <1>6, <1>7, <1>8, <2>1 DEF FleetInv, TypeOK, FleetTypeOK
<1>10. \A r \in Requests : UpToDate(r) /\ ListingSoFar(r)
    BY <1>7 DEF UpToDate, IssueFresh, SaveFresh, RenameFresh, AssignFresh, ListingSoFar
<1>11. ASSUME NEW d \in Devices PROVE Credentials(d) /\ GroupKept(d)
    <2>1. device[d].live => d \in Existing /\ device[d] = first
        BY <1>2, RowsAre
    <2>2. FirstPassword # 0
        BY FleetAssumption DEF FirstPassword
    <2>. QED  BY <1>1, <1>2, <2>1, <2>2 DEF Credentials, GroupKept
<1>12. \A z \in ZoneIds : Assigned(z)
    BY <1>2, <1>6 DEF Assigned
<1>. QED  BY <1>9, <1>10, <1>11, <1>12 DEF FleetSoFar

LEMMA FleetStepKeeps ==
    ASSUME FleetInv, FleetSoFar, [Next]_allVars
    PROVE  FleetInv' /\ FleetSoFar'
<1>1. CASE UNCHANGED allVars
    <2>1. UNCHANGED <<device, unborn, group, handed, asked, mixed, doubtful, zone, wanted, blurred,
                      req, calls, faults, stale>>
        BY <1>1 DEF allVars, fleet, zones
    <2>2. UnbornUntouched'
        BY <2>1 DEF FleetInv, UnbornUntouched, Saving
    <2>3. FleetInv'
        BY <2>1, <2>2, TypesAre, TypesMake
    <2>4. \A r \in Requests \ stale' : UpToDate(r)'
        BY <2>1, StaysUpToDate DEF FleetSoFar
    <2>5. \A d \in Devices : Credentials(d)' /\ GroupKept(d)'
        BY <2>1 DEF FleetSoFar, Credentials, GroupKept, Issuing
    <2>6. \A z \in ZoneIds : Assigned(z)'
        BY <2>1 DEF FleetSoFar, Assigned, IsLive
    <2>7. \A r \in Requests : ListingSoFar(r)'
        BY <2>1 DEF FleetSoFar, ListingSoFar, Live
    <2>. QED  BY <2>3, <2>4, <2>5, <2>6, <2>7 DEF FleetSoFar
<1>2. ASSUME NEW q \in Requests, FleetStep(q), UNCHANGED zones PROVE FleetInv' /\ FleetSoFar'
    <2>1. CASE CreateDevice(q)
        BY <1>2, <2>1, CreateDeviceKeeps
    <2>2. CASE IssueCredentials(q)
        BY <1>2, <2>2, IssueCredentialsKeeps
    <2>3. CASE Answer(q)
        BY <1>2, <2>3, AnswerKeeps
    <2>4. CASE SaveDevices(q)
        BY <1>2, <2>4, SaveDevicesKeeps
    <2>5. ASSUME NEW d \in Devices, ReadDevice(q, d) PROVE FleetInv' /\ FleetSoFar'
        BY <1>2, <2>5, ReadDeviceKeeps
    <2>6. ASSUME NEW g \in Groups,
                 CreateGroup(q, g) \/ ReadGroup(q, g) \/ RemoveGroup(q, g)
          PROVE  FleetInv' /\ FleetSoFar'
        BY <1>2, <2>6, CreateGroupKeeps, ReadGroupKeeps, RemoveGroupKeeps
    <2>7. ASSUME NEW g \in Groups, NEW ds \in SUBSET Devices, FindGroup(q, g, ds)
          PROVE  FleetInv' /\ FleetSoFar'
        BY <1>2, <2>7, FindGroupKeeps
    <2>8. CASE SaveGroup(q)
        BY <1>2, <2>8, SaveGroupKeeps
    <2>9. CASE FindDevices(q)
        BY <1>2, <2>9, FindDevicesKeeps
    <2>10. CASE StartListing(q)
        BY <1>2, <2>10, StartListingKeeps
    <2>11. CASE FetchPage(q)
        BY <1>2, <2>11, FetchPageKeeps
    <2>12. CASE CloseListing(q)
        BY <1>2, <2>12, CloseListingKeeps
    <2>. QED  BY <1>2, <2>1, <2>2, <2>3, <2>4, <2>5, <2>6, <2>7, <2>8, <2>9, <2>10, <2>11, <2>12
         DEF FleetStep
<1>3. ASSUME NEW q \in Requests, ZoneStep(q) PROVE FleetInv' /\ FleetSoFar'
    <2>1. ASSUME NEW z \in ZoneIds, CreateZone(q, z) \/ ReadZone(q, z) \/ RemoveZone(q, z)
          PROVE  FleetInv' /\ FleetSoFar'
        BY <2>1, CreateZoneKeeps, ReadZoneKeeps, RemoveZoneKeeps
    <2>2. ASSUME NEW z \in ZoneIds, NEW d \in Devices, ReadMembers(q, z, d)
          PROVE  FleetInv' /\ FleetSoFar'
        BY <2>2, ReadMembersKeeps
    <2>3. CASE SaveZone(q)
        BY <2>3, SaveZoneKeeps
    <2>4. CASE WriteShape(q)
        BY <2>4, WriteShapeKeeps
    <2>5. CASE FindAssignee(q)
        BY <2>5, FindAssigneeKeeps
    <2>6. CASE SaveMembers(q)
        BY <2>6, SaveMembersKeeps
    <2>. QED  BY <1>3, <2>1, <2>2, <2>3, <2>4, <2>5, <2>6 DEF ZoneStep
<1>4. ASSUME NEW q \in Requests, NEW d \in Devices, RemoveAssigned(q, d)
      PROVE  FleetInv' /\ FleetSoFar'
    BY <1>4, RemoveAssignedKeeps
<1>5. ASSUME NEW q \in Requests, CutZoning(q) PROVE FleetInv' /\ FleetSoFar'
    BY <1>5, CutKeeps
<1>. QED  BY <1>1, <1>2, <1>3, <1>4, <1>5 DEF Next

LEMMA FleetAlways == Spec => [](FleetInv /\ FleetSoFar)
<1>1. Init => FleetInv /\ FleetSoFar
    BY FleetInitially
<1>2. (FleetInv /\ FleetSoFar) /\ [Next]_allVars => (FleetInv /\ FleetSoFar)'
    BY FleetStepKeeps
<1>. QED  BY <1>1, <1>2, PTL DEF Spec

(* The tables of devices, groups and geofences hold rows of their types, each
   handler is at a stage of its own method, and an id no insert has used has
   left no trace (DevicesService, DeviceGroupsService, GeofencesService). *)
THEOREM FleetTypesCorrect == Spec => []TypeOK
<1>1. FleetInv => TypeOK
    BY DEF FleetInv
<1>. QED  BY <1>1, FleetAlways, PTL

(* Whatever creates, updates, regenerations, assignments, renames and removals
   overlap, and wherever a handler is cut, the password a client was last
   handed for a device opens the topics it was told and the REST interface,
   unless the device's issue was cut or overtaken (create, 106-139,
   regenerateMqttCredentials 155-181, verifyMqttCredentials 231-245). *)
THEOREM PasswordsWork == Spec => []HandedPasswordWorks
<1>1. ASSUME FleetInv, FleetSoFar PROVE HandedPasswordWorks
    <2> SUFFICES ASSUME NEW d \in Live \ doubtful,
                        ~\E q \in Requests : Issuing(req[q]) /\ d \in req[q].devs
                 PROVE  Told(d) \subseteq Authenticate(d, handed[d]) /\ Admits(d, handed[d], {d})
        BY DEF HandedPasswordWorks, Issuing
    <2>1. d \in Devices /\ device[d].live
        BY DEF Live
    <2>2. device[d].username /\ device[d].hash = handed[d] /\ device[d].hash # 0
        BY <1>1, <2>1 DEF FleetSoFar, Credentials
    <2>3. d \in Verified(d, handed[d])
        BY <2>2 DEF Verified
    <2>4. Told(d) = Acl(d)
        BY DEF Told, Acl
    <2>5. Told(d) \subseteq Authenticate(d, handed[d])
        BY <2>3, <2>4 DEF Authenticate
    <2>. QED  BY <2>3, <2>5 DEF Admits
<1>. QED  BY <1>1, FleetAlways, PTL

(* A device is in the group it was last put in: an update saves the group it
   read, and renaming a group moves no device, unless the handler saved a copy
   another had overtaken (DevicesService.update, DeviceGroupsService). *)
THEOREM GroupsAreAsAsked == Spec => []GroupIsAsAsked
<1>1. FleetSoFar => GroupIsAsAsked
    BY DEF FleetSoFar, GroupKept, GroupIsAsAsked, Live
<1>. QED  BY <1>1, FleetAlways, PTL

(* A client that reads all pages of findMine misses at most as many of the
   devices there all along as were removed meanwhile, whatever the page size
   and however many are created. *)
THEOREM ListingsMissLittle == Spec => []ListingMissesOnlyTheShifted
<1>1. FleetSoFar => ListingMissesOnlyTheShifted
    BY DEF FleetSoFar, ListingSoFar, ListingMissesOnlyTheShifted
<1>. QED  BY <1>1, FleetAlways, PTL

(* A geofence watches the devices assigned to it and not removed since, unless
   a handler saved a list another had overtaken (assignDevice, removeDevice,
   and the deletion of a device). *)
THEOREM AssignmentsAreAsAsked == Spec => []AssignmentIsAsAsked
<1>1. FleetSoFar => AssignmentIsAsAsked
    BY DEF FleetSoFar, Assigned, AssignmentIsAsAsked
<1>. QED  BY <1>1, FleetAlways, PTL

-----------------------------------------------------------------------------
(* The status of devices. *)

(* What a save under way holds: a device, a copy, and after the load the row
   it saw, which a row there is now has replaced. *)
SaveShapes ==
    \A w \in Writers :
        /\ At(w, "idle") => job[w] = NoSave
        /\ ~At(w, "idle") => job[w].dev \in Trackers /\ job[w].copy \in Copy
        /\ At(w, "write") /\ job[w].seen # NoStatus => row[job[w].dev] # NoStatus
        /\ At(w, "tell") => w # "http"

StatusInv == StatusTypeOK /\ SaveShapes

(* The row a copy was taken from is still the row. *)
Fresh(copy, r) == copy.at = IF r = NoStatus THEN Unset ELSE r.at

(* Writers that meet at a device know it, and so does the device. *)
Meetings(d) ==
    /\ \A v, w \in Writers : v # w /\ On(v, d) /\ On(w, d) => raced[d] /\ ~job[v].alone
    /\ \A w \in Writers : todo[d] # NoStatus /\ On(w, d) => raced[d] /\ ~job[w].alone

(* The consumer, while it is alone at the device. *)
ConsumerAlone(d) ==
    LET j == job["consumer"] IN
    On("consumer", d) /\ j.alone =>
        /\ j.step \in {"load", "write"} => Fresh(j.copy, row[d])
        /\ j.step = "write" => j.seen = row[d]

(* A device the sweep may take offline: online, and silent for too long. *)
Silent(r) == r # NoStatus /\ r.status = "online" /\ now - r.at > Timeout

(* The other writers at a device where nothing raced. *)
OthersOrderly(d) ==
    ~raced[d] =>
        /\ On("http", d) => row[d] = NoStatus
        /\ todo[d] # NoStatus => todo[d] = row[d] /\ Silent(row[d])
        /\ On("sweep", d) /\ ~At("sweep", "tell") =>
              /\ Silent(row[d]) /\ job["sweep"].copy = [row[d] EXCEPT !.status = "offline"]
              /\ At("sweep", "write") => job["sweep"].seen = row[d]
        /\ \A w \in Writers : On(w, d) /\ At(w, "tell") => Shows(row[d], job[w].copy)

(* What the table and the clients have of the last heartbeat. *)
LastKept(d) ==
    last[d] # NoReport /\ ~raced[d] =>
        /\ row[d] # NoStatus /\ row[d].level = last[d].level
        /\ changedAt[d] <= row[d].at
        /\ \/ row[d].status = last[d].status
           \/ /\ last[d].status = "online" /\ row[d].status = "offline"
              /\ now - changedAt[d] > Timeout
        /\ (\A w \in Writers : ~(On(w, d) /\ At(w, "tell"))) => Shows(row[d], view[d])

Orderly(d) ==
    /\ Meetings(d) /\ ConsumerAlone(d) /\ OthersOrderly(d) /\ LastKept(d)
    /\ last[d] = NoReport => changedAt[d] = 0

StatusSoFar == \A d \in Trackers : Orderly(d)

-----------------------------------------------------------------------------
(* Types. *)

LEMMA NoStatusIsNone ==
    /\ NoStatus \notin Row /\ NoStatus \notin Copy
    /\ NoReport \notin Report
    /\ Row \subseteq Copy
    /\ NoSave \in Job
BY ConstantsAssumption
DEF NoStatus, NoReport, Row, Copy, Report, Statuses, NoSave, Job, Unset, NoDevice

(* A save under way, and whether the newcomer meets it. *)
Met(j, here) == [j EXCEPT !.alone = @ /\ ~here]

LEMMA MetIs ==
    ASSUME NEW j \in Job, NEW here \in BOOLEAN
    PROVE  /\ Met(j, here) \in Job
           /\ Met(j, here).step = j.step /\ Met(j, here).dev = j.dev
           /\ Met(j, here).copy = j.copy /\ Met(j, here).seen = j.seen
           /\ Met(j, here).alone = (j.alone /\ ~here)
           /\ ~here => Met(j, here) = j
BY DEF Job, Met

(* A save that begins, and the writers that were there. *)
LEMMA Begun ==
    ASSUME StatusTypeOK, NEW w \in Writers, NEW d \in Trackers, NEW copy \in Copy,
           Begin(w, d, copy)
    PROVE  /\ job' \in [Writers -> Job]
           /\ job'[w] = [step |-> "load", dev |-> d, copy |-> copy, seen |-> NoStatus,
                         alone |-> ~Busy(d)]
           /\ \A v \in Writers : v # w => job'[v] = Met(job[v], On(v, d))
<1> DEFINE new == [step |-> "load", dev |-> d, copy |-> copy, seen |-> NoStatus,
                   alone |-> ~Busy(d)]
<1>1. Busy(d) \in BOOLEAN /\ \A v \in Writers : On(v, d) \in BOOLEAN
    BY DEF Busy, On
<1>2. new \in Job
    BY <1>1 DEF Job
<1>3. \A v \in Writers : job[v] \in Job
    BY DEF StatusTypeOK
<1>4. \A v \in Writers : Met(job[v], On(v, d)) \in Job
    BY <1>1, <1>3, MetIs
<1>5. job' = [v \in Writers |-> IF v = w THEN new ELSE Met(job[v], On(v, d))]
    BY DEF Begin, Met
<1> HIDE DEF new
<1>6. job'[w] = new /\ \A v \in Writers : v # w => job'[v] = Met(job[v], On(v, d))
    BY <1>5
<1>7. job' \in [Writers -> Job]
    BY <1>2, <1>4, <1>5
<1>. QED  BY <1>6, <1>7 DEF new

(* One save moves on. *)
LEMMA OneSaveMoves ==
    ASSUME StatusTypeOK, NEW w \in Writers, NEW j \in Job, job' = [job EXCEPT ![w] = j]
    PROVE  /\ job' \in [Writers -> Job] /\ job'[w] = j
           /\ \A v \in Writers : v # w => job'[v] = job[v]
BY DEF StatusTypeOK

(* The row after the UPDATE of a copy. *)
LEMMA MergedIs ==
    ASSUME NEW copy \in Copy, NEW seen \in Row, NEW r \in Row, now \in 0..MaxTime
    PROVE  /\ Merged(copy, seen, r) \in Row
           /\ seen = r => Shows(Merged(copy, seen, r), copy)
           /\ seen = r /\ copy.at \in {Unset, seen.at} =>
                 Merged(copy, seen, r) = r \/ Merged(copy, seen, r).at = now
BY ConstantsAssumption DEF Merged, Shows, Copy, Row, Unset

(* The row after an INSERT. *)
LEMMA InsertedIs ==
    ASSUME NEW copy \in Copy, now \in 0..MaxTime
    PROVE  /\ Inserted(copy) \in Row /\ Shows(Inserted(copy), copy)
           /\ copy.at = Unset => Inserted(copy).at = now
BY ConstantsAssumption DEF Inserted, Shows, Copy, Row, Unset

(* What is at a device where no writer arrives or writes: some may leave,
   unless they have a status to tell. *)
LEMMA Undisturbed ==
    ASSUME StatusInv, NEW d \in Trackers, Orderly(d),
           \A w \in Writers : On(w, d)' => On(w, d) /\ job'[w] = job[w],
           \A w \in Writers : On(w, d) /\ At(w, "tell") => On(w, d)',
           todo'[d] \in {todo[d], NoStatus},
           row'[d] = row[d], view'[d] = view[d],
           last'[d] = last[d], changedAt'[d] = changedAt[d], raced'[d] = raced[d],
           now' \in 0..MaxTime, now' >= now
    PROVE  Orderly(d)'
<1> USE ConstantsAssumption
<1>1. now \in 0..MaxTime /\ row[d] \in Row \union {NoStatus} /\ changedAt[d] \in 0..MaxTime
    BY DEF StatusInv, StatusTypeOK
<1>2. /\ Meetings(d) /\ ConsumerAlone(d) /\ OthersOrderly(d) /\ LastKept(d)
      /\ last[d] = NoReport => changedAt[d] = 0
    BY DEF Orderly
<1>3. Meetings(d)'
    BY <1>2 DEF Meetings
<1>4. ConsumerAlone(d)'
    <2>1. CASE On("consumer", d)'
        <3>1. On("consumer", d) /\ job'["consumer"] = job["consumer"]
            BY <2>1 DEF Writers
        <3>. QED  BY <1>2, <3>1 DEF ConsumerAlone
    <2>2. CASE ~On("consumer", d)'
        BY <2>2 DEF ConsumerAlone
    <2>. QED  BY <2>1, <2>2
<1>5. Silent(row[d]) => Silent(row[d])'
    <2> SUFFICES ASSUME row[d] # NoStatus, row[d].status = "online", now - row[d].at > Timeout
                 PROVE  now' - row[d].at > Timeout
        BY DEF Silent
    <2>1. row[d].at \in 0..MaxTime
        BY <1>1 DEF Row
    <2>. QED  BY <1>1, <2>1
<1>6. OthersOrderly(d)'
    <2> SUFFICES ASSUME ~raced'[d]
                 PROVE  /\ On("http", d)' => row'[d] = NoStatus
                        /\ todo'[d] # NoStatus => todo'[d] = row'[d] /\ Silent(row[d])'
                        /\ (On("sweep", d) /\ ~At("sweep", "tell"))' =>
                              /\ Silent(row[d])'
                              /\ job'["sweep"].copy = [row'[d] EXCEPT !.status = "offline"]
                              /\ At("sweep", "write")' => job'["sweep"].seen = row'[d]
                        /\ \A w \in Writers :
                              (On(w, d) /\ At(w, "tell"))' => Shows(row'[d], job'[w].copy)
        BY DEF OthersOrderly
    <2>2. On("http", d)' => row'[d] = NoStatus
        BY <1>2 DEF OthersOrderly, Writers
    <2>3. todo'[d] # NoStatus => todo'[d] = row'[d] /\ Silent(row[d])'
        BY <1>2, <1>5 DEF OthersOrderly
    <2>4. (On("sweep", d) /\ ~At("sweep", "tell"))' =>
              /\ Silent(row[d])'
              /\ job'["sweep"].copy = [row'[d] EXCEPT !.status = "offline"]
              /\ At("sweep", "write")' => job'["sweep"].seen = row'[d]
        <3>1. At("sweep", "tell")' = (job'["sweep"].step = "tell")
              /\ At("sweep", "write")' = (job'["sweep"].step = "write")
            BY DEF At
        <3>. QED  BY <1>2, <1>5, <3>1 DEF OthersOrderly, Writers, At
    <2>5. \A w \in Writers : (On(w, d) /\ At(w, "tell"))' => Shows(row'[d], job'[w].copy)
        BY <1>2 DEF OthersOrderly, At
    <2>. QED  BY <2>2, <2>3, <2>4, <2>5
<1>7. LastKept(d)'
    <2> SUFFICES ASSUME last[d] # NoReport, ~raced[d]
                 PROVE  /\ row[d] # NoStatus /\ row[d].level = last[d].level
                        /\ changedAt[d] <= row[d].at
                        /\ \/ row[d].status = last[d].status
                           \/ /\ last[d].status = "online" /\ row[d].status = "offline"
                              /\ now' - changedAt[d] > Timeout
                        /\ (\A w \in Writers : ~(On(w, d) /\ At(w, "tell"))') =>
                              Shows(row[d], view[d])
        BY DEF LastKept
    <2>1. now - changedAt[d] > Timeout => now' - changedAt[d] > Timeout
        BY <1>1
    <2>2. \A w \in Writers : On(w, d) /\ At(w, "tell") => (On(w, d) /\ At(w, "tell"))'
        BY DEF At
    <2>. QED  BY <1>2, <2>1, <2>2 DEF LastKept
<1>. QED  BY <1>2, <1>3, <1>4, <1>6, <1>7 DEF Orderly

LEMMA StatusInitially == StatusInit => StatusInv /\ StatusSoFar
<1> USE ConstantsAssumption, NoDeviceIsNone
<1>1. SUFFICES ASSUME StatusInit PROVE StatusInv /\ StatusSoFar
    OBVIOUS
<1>2. \A w \in Writers : job[w] = NoSave
    BY <1>1 DEF StatusInit
<1>3. job \in [Writers -> Job]
    BY <1>1, NoStatusIsNone DEF StatusInit
<1>4. StatusTypeOK
    BY <1>1, <1>3 DEF StatusInit, StatusTypeOK
<1>5. \A w \in Writers : At(w, "idle") /\ ~At(w, "tell") /\ ~At(w, "write") /\ ~At(w, "load")
    BY <1>2 DEF At, NoSave
<1>6. SaveShapes
    BY <1>2, <1>5 DEF SaveShapes
<1>7. \A w \in Writers, d \in Trackers : ~On(w, d)
    BY <1>2 DEF On, NoSave, NoDevice
<1>8. ASSUME NEW d \in Trackers PROVE Orderly(d)
    <2>1. todo[d] = NoStatus /\ last[d] = NoReport /\ changedAt[d] = 0
        BY <1>1 DEF StatusInit
    <2>2. Meetings(d)
        BY <1>7, <2>1 DEF Meetings
    <2>3. ConsumerAlone(d)
        BY <1>7 DEF ConsumerAlone, Writers
    <2>4. OthersOrderly(d)
        BY <1>7, <2>1 DEF OthersOrderly, Writers
    <2>5. LastKept(d)
        BY <2>1 DEF LastKept
    <2>. QED  BY <2>1, <2>2, <2>3, <2>4, <2>5 DEF Orderly
<1>. QED  BY <1>4, <1>6, <1>8 DEF StatusInv, StatusSoFar

(* The state of a writer, and of the one device it is at. *)
LEMMA WritersAre ==
    ASSUME StatusInv, NEW w \in Writers
    PROVE  /\ job[w] \in Job
           /\ At(w, "idle") => job[w] = NoSave /\ \A d \in Trackers : ~On(w, d)
           /\ ~At(w, "idle") => job[w].dev \in Trackers /\ job[w].copy \in Copy
                                   /\ On(w, job[w].dev)
           /\ job[w].seen \in Row \union {NoStatus} /\ job[w].alone \in BOOLEAN
BY NoDeviceIsNone DEF StatusInv, StatusTypeOK, SaveShapes, NoSave, On, At, Job

(* A writer comes to a device: types and shapes. *)
LEMMA ArrivalTypes ==
    ASSUME StatusInv, NEW w \in Writers, NEW d \in Trackers, NEW copy \in Copy,
           Begin(w, d, copy), row' = row
    PROVE  job' \in [Writers -> Job] /\ SaveShapes'
<1>1. /\ job' \in [Writers -> Job]
      /\ job'[w] = [step |-> "load", dev |-> d, copy |-> copy, seen |-> NoStatus,
                    alone |-> ~Busy(d)]
      /\ \A v \in Writers : v # w => job'[v] = Met(job[v], On(v, d))
    BY Begun DEF StatusInv
<1>2. job'[w].step = "load" /\ job'[w].dev = d /\ job'[w].copy = copy
    BY <1>1
<1>3. ASSUME NEW v \in Writers, v # w
      PROVE  /\ job'[v].step = job[v].step /\ job'[v].dev = job[v].dev
             /\ job'[v].copy = job[v].copy /\ job'[v].seen = job[v].seen
             /\ ~On(v, d) => job'[v] = job[v]
    <2>1. job[v] \in Job /\ On(v, d) \in BOOLEAN
        BY WritersAre DEF On
    <2>. QED  BY <1>1, <1>3, <2>1, MetIs
<1>4. ASSUME NEW v \in Writers
      PROVE  /\ At(v, "idle")' => job'[v] = NoSave
             /\ ~At(v, "idle")' => job'[v].dev \in Trackers /\ job'[v].copy \in Copy
             /\ At(v, "write")' /\ job'[v].seen # NoStatus => row'[job'[v].dev] # NoStatus
             /\ At(v, "tell")' => v # "http"
    <2>1. CASE v = w
        BY <1>2, <2>1 DEF At
    <2>2. CASE v # w
        <3>1. At(v, "idle") => ~On(v, d)
            BY WritersAre
        <3>. QED  BY <1>3, <2>2, <3>1 DEF At, StatusInv, SaveShapes
    <2>. QED  BY <2>1, <2>2
<1>5. SaveShapes'
    BY <1>4 DEF SaveShapes
<1>. QED  BY <1>1, <1>5

(* One save moves on, and no row goes away: shapes. *)
LEMMA MoveShapes ==
    ASSUME StatusInv, NEW w \in Writers, NEW j \in Job, job' = [job EXCEPT ![w] = j],
           \/ j = NoSave
           \/ /\ j.step # "idle" /\ j.dev \in Trackers /\ j.copy \in Copy
              /\ j.step = "write" /\ j.seen # NoStatus => row'[j.dev] # NoStatus
              /\ j.step = "tell" => w # "http",
           \A d \in Trackers : row[d] # NoStatus => row'[d] # NoStatus
    PROVE  job' \in [Writers -> Job] /\ SaveShapes'
<1>1. /\ job' \in [Writers -> Job] /\ job'[w] = j
      /\ \A v \in Writers : v # w => job'[v] = job[v]
    BY OneSaveMoves DEF StatusInv
<1>2. NoSave.step = "idle"
    BY DEF NoSave
<1>3. ASSUME NEW v \in Writers
      PROVE  /\ At(v, "idle")' => job'[v] = NoSave
             /\ ~At(v, "idle")' => job'[v].dev \in Trackers /\ job'[v].copy \in Copy
             /\ At(v, "write")' /\ job'[v].seen # NoStatus => row'[job'[v].dev] # NoStatus
             /\ At(v, "tell")' => v # "http"
    <2>1. CASE v = w
        BY <1>1, <1>2, <2>1 DEF At
    <2>2. CASE v # w
        <3>1. job'[v] = job[v]
            BY <1>1, <2>2
        <3>2. At(v, "write") => job[v].dev \in Trackers
            BY WritersAre DEF At
        <3>. QED  BY <3>1, <3>2 DEF At, StatusInv, SaveShapes
    <2>. QED  BY <2>1, <2>2
<1>4. SaveShapes'
    BY <1>3 DEF SaveShapes
<1>. QED  BY <1>1, <1>4

(* Every step keeps the types and the shapes of the saves. *)
LEMMA ArrivalsKeepTypes ==
    ASSUME StatusInv,
           \/ \E d \in Trackers, report \in Report : Upsert(d, report)
           \/ \E d \in Trackers : FindByDevice(d)
           \/ SweepStep
    PROVE  StatusInv'
<1> USE ConstantsAssumption
<1>1. ASSUME NEW d \in Trackers, NEW report \in Report, Upsert(d, report) PROVE StatusInv'
    <2> DEFINE c == [status |-> report.status, level |-> report.level,
                     at |-> IF row[d] = NoStatus THEN Unset ELSE row[d].at]
    <2>1. row[d] = NoStatus \/ row[d].at \in 0..MaxTime
        BY DEF StatusInv, StatusTypeOK, Row
    <2>2. c \in Copy
        BY <2>1 DEF Copy, Report, Unset
    <2>3. Begin("consumer", d, c) /\ row' = row /\ "consumer" \in Writers
        BY <1>1 DEF Upsert, Writers
    <2> HIDE DEF c
    <2>4. job' \in [Writers -> Job] /\ SaveShapes'
        BY <2>2, <2>3, ArrivalTypes
    <2>5. raced' \in [Trackers -> BOOLEAN] /\ reports' \in 0..MaxReports
          /\ UNCHANGED <<row, todo, view, now, last, changedAt, saveFaults>>
        BY <1>1 DEF Upsert, StatusInv, StatusTypeOK, Busy
    <2>6. StatusTypeOK'
        BY <2>4, <2>5 DEF StatusInv, StatusTypeOK
    <2>. QED  BY <2>4, <2>6 DEF StatusInv
<1>2. ASSUME NEW d \in Trackers, FindByDevice(d) PROVE StatusInv'
    <2> DEFINE c == [status |-> "offline", level |-> 0, at |-> Unset]
    <2>1. c \in Copy
        BY DEF Copy, Unset, Statuses
    <2>2. Begin("http", d, c) /\ row' = row /\ "http" \in Writers
        BY <1>2 DEF FindByDevice, Writers
    <2> HIDE DEF c
    <2>3. job' \in [Writers -> Job] /\ SaveShapes'
        BY <2>1, <2>2, ArrivalTypes
    <2>4. raced' \in [Trackers -> BOOLEAN]
          /\ UNCHANGED <<row, todo, view, now, last, changedAt, reports, saveFaults>>
        BY <1>2 DEF FindByDevice, StatusInv, StatusTypeOK, Busy
    <2>5. StatusTypeOK'
        BY <2>3, <2>4 DEF StatusInv, StatusTypeOK
    <2>. QED  BY <2>3, <2>5 DEF StatusInv
<1>3. ASSUME SweepFind PROVE StatusInv'
    <2> DEFINE found == {d \in Trackers : Expired(d)}
    <2>1. /\ todo' = [d \in Trackers |-> IF d \in found THEN row[d] ELSE NoStatus]
          /\ raced' = [d \in Trackers |-> raced[d] \/ (d \in found /\ Busy(d))]
          /\ job' = [w \in Writers |-> Met(job[w], job[w].dev \in found)]
          /\ UNCHANGED <<row, view, now, last, changedAt, reports, saveFaults>>
        BY <1>3 DEF SweepFind, Met
    <2>2. \A w \in Writers : job[w] \in Job
        BY WritersAre
    <2> HIDE DEF found
    <2>3. \A w \in Writers : job'[w] = Met(job[w], job[w].dev \in found)
        BY <2>1
    <2>4. \A w \in Writers :
             /\ job'[w] \in Job /\ job'[w].step = job[w].step /\ job'[w].dev = job[w].dev
             /\ job'[w].copy = job[w].copy /\ job'[w].seen = job[w].seen
             /\ job[w].dev \notin found => job'[w] = job[w]
        <3> TAKE w \in Writers
        <3> DEFINE here == job[w].dev \in found
        <3>1. here \in BOOLEAN /\ (~here <=> job[w].dev \notin found)
            OBVIOUS
        <3>2. job[w] \in Job /\ job'[w] = Met(job[w], here)
            BY <2>2, <2>3
        <3> HIDE DEF here
        <3>. QED  BY <3>1, <3>2, MetIs
    <2>5. job' \in [Writers -> Job]
        BY <2>1, <2>4
    <2>6. todo' \in [Trackers -> Row \union {NoStatus}] /\ raced' \in [Trackers -> BOOLEAN]
        BY <2>1 DEF StatusInv, StatusTypeOK, Busy
    <2>7. StatusTypeOK'
        BY <2>1, <2>5, <2>6 DEF StatusInv, StatusTypeOK
    <2>8. \A w \in Writers : job[w] = NoSave => job'[w] = NoSave
        <3>1. found \subseteq Trackers
            BY DEF found
        <3>. QED  BY <2>4, <3>1, NoDeviceIsNone DEF NoSave
    <2>9. SaveShapes'
        BY <2>1, <2>4, <2>8 DEF StatusInv, SaveShapes, At
    <2>. QED  BY <2>7, <2>9 DEF StatusInv
<1>4. ASSUME NEW d \in Trackers, SweepNext(d) PROVE StatusInv'
    <2> DEFINE c == [todo[d] EXCEPT !.status = "offline"]
    <2>1. todo[d] \in Row
        BY <1>4 DEF SweepNext, StatusInv, StatusTypeOK
    <2>2. c \in Copy
        BY <2>1 DEF Row, Copy, Unset, Statuses
    <2>3. Begin("sweep", d, c) /\ row' = row /\ "sweep" \in Writers
        BY <1>4 DEF SweepNext, Writers
    <2> HIDE DEF c
    <2>4. job' \in [Writers -> Job] /\ SaveShapes'
        BY <2>2, <2>3, ArrivalTypes
    <2>5. todo' \in [Trackers -> Row \union {NoStatus}]
          /\ UNCHANGED <<row, view, now, last, changedAt, raced, reports, saveFaults>>
        BY <1>4 DEF SweepNext, StatusInv, StatusTypeOK, history
    <2>6. StatusTypeOK'
        BY <2>4, <2>5 DEF StatusInv, StatusTypeOK
    <2>. QED  BY <2>4, <2>6 DEF StatusInv
<1>. QED  BY <1>1, <1>2, <1>3, <1>4 DEF SweepStep

LEMMA MovesKeepTypes ==
    ASSUME StatusInv,
           \/ \E w \in Writers : SaveStep(w) \/ SaveFails(w)
           \/ Tick
    PROVE  StatusInv'
<1> USE ConstantsAssumption
<1>1. ASSUME NEW w \in Writers, Load(w) PROVE StatusInv'
    <2> DEFINE j == [job[w] EXCEPT !.step = "write", !.seen = row[job[w].dev]]
    <2>1. job[w] \in Job /\ job[w].dev \in Trackers /\ job[w].copy \in Copy
        BY <1>1, WritersAre DEF Load, At
    <2>2. row[job[w].dev] \in Row \union {NoStatus}
        BY <2>1 DEF StatusInv, StatusTypeOK
    <2>3. /\ j \in Job /\ j.step = "write" /\ j.dev = job[w].dev /\ j.copy = job[w].copy
          /\ j.seen = row[job[w].dev]
        BY <2>1, <2>2 DEF Job
    <2>4. job' = [job EXCEPT ![w] = j]
          /\ UNCHANGED <<row, todo, view, now, last, changedAt, raced, reports, saveFaults>>
        BY <1>1 DEF Load, history
    <2> HIDE DEF j
    <2>5. job' \in [Writers -> Job] /\ SaveShapes'
        BY <2>1, <2>3, <2>4, MoveShapes
    <2>6. StatusTypeOK'
        BY <2>4, <2>5 DEF StatusInv, StatusTypeOK
    <2>. QED  BY <2>5, <2>6 DEF StatusInv
<1>2. ASSUME NEW w \in Writers, WriteRow(w) PROVE StatusInv'
    <2> DEFINE d == job[w].dev
               j == IF w = "http" THEN NoSave ELSE [job[w] EXCEPT !.step = "tell"]
    <2>1. /\ job[w] \in Job /\ d \in Trackers /\ job[w].copy \in Copy
          /\ job[w].seen \in Row \union {NoStatus} /\ job[w].alone \in BOOLEAN
        BY <1>2, WritersAre DEF WriteRow, At
    <2>2. now \in 0..MaxTime /\ row \in [Trackers -> Row \union {NoStatus}]
        BY DEF StatusInv, StatusTypeOK
    <2>3. /\ row'[d] \in Row
          /\ row' = [row EXCEPT ![d] = row'[d]]
        <3>1. CASE job[w].seen = NoStatus
            <4>1. row' = [row EXCEPT ![d] = Inserted(job[w].copy)]
                BY <1>2, <3>1 DEF WriteRow
            <4>2. Inserted(job[w].copy) \in Row
                BY <2>1, <2>2, InsertedIs
            <4>. QED  BY <2>1, <2>2, <4>1, <4>2
        <3>2. CASE job[w].seen # NoStatus
            <4>1. row' = [row EXCEPT ![d] = Merged(job[w].copy, job[w].seen, row[d])]
                BY <1>2, <3>2 DEF WriteRow
            <4>2. row[d] \in Row /\ job[w].seen \in Row
                BY <1>2, <2>1, <2>2, <3>2 DEF WriteRow, StatusInv, SaveShapes
            <4>3. Merged(job[w].copy, job[w].seen, row[d]) \in Row
                BY <2>1, <2>2, <4>2, MergedIs
            <4>. QED  BY <2>1, <2>2, <4>1, <4>3
        <3>. QED  BY <3>1, <3>2
    <2>4. row' \in [Trackers -> Row \union {NoStatus}]
          /\ \A e \in Trackers : row[e] # NoStatus => row'[e] # NoStatus
        BY <2>1, <2>2, <2>3, NoStatusIsNone
    <2>5. job' = [job EXCEPT ![w] = j]
        BY <1>2 DEF WriteRow
    <2>6. /\ j \in Job
          /\ \/ j = NoSave
             \/ j.step = "tell" /\ w # "http" /\ j.dev = d /\ j.copy = job[w].copy
        BY <2>1, NoStatusIsNone DEF Job
    <2>7. /\ last' \in [Trackers -> Report \union {NoReport}]
          /\ changedAt' \in [Trackers -> 0..MaxTime]
          /\ raced' \in [Trackers -> BOOLEAN]
        <3>1. CASE w = "consumer"
            <4>1. /\ last' = [last EXCEPT ![d] = [status |-> job[w].copy.status,
                                                  level |-> job[w].copy.level]]
                  /\ changedAt' = [changedAt EXCEPT ![d] = IF row'[d] = row[d] THEN @ ELSE now]
                  /\ raced' = [raced EXCEPT ![d] = ~job[w].alone \/ (@ /\ row'[d] = row[d])]
                BY <1>2, <3>1 DEF WriteRow, Remember
            <4>2. [status |-> job[w].copy.status, level |-> job[w].copy.level] \in Report
                BY <2>1 DEF Copy, Report
            <4>3. last' \in [Trackers -> Report \union {NoReport}]
                BY <4>1, <4>2 DEF StatusInv, StatusTypeOK
            <4>4. changedAt' \in [Trackers -> 0..MaxTime]
                BY <2>2, <4>1 DEF StatusInv, StatusTypeOK
            <4>5. (~job[w].alone \/ (raced[d] /\ row'[d] = row[d])) \in BOOLEAN
                OBVIOUS
            <4>6. raced' \in [Trackers -> BOOLEAN]
                BY <4>1, <4>5 DEF StatusInv, StatusTypeOK
            <4>. QED  BY <4>3, <4>4, <4>6
        <3>2. CASE w # "consumer"
            BY <1>2, <3>2 DEF WriteRow, Remember, history, StatusInv, StatusTypeOK
        <3>. QED  BY <3>1, <3>2
    <2>8. UNCHANGED <<todo, view, now, reports, saveFaults>>
        BY <1>2 DEF WriteRow
    <2> HIDE DEF j
    <2>9. job' \in [Writers -> Job] /\ SaveShapes'
        <3>1. j \in Job /\ job' = [job EXCEPT ![w] = j]
            BY <2>5, <2>6
        <3>2. \/ j = NoSave
              \/ /\ j.step # "idle" /\ j.dev \in Trackers /\ j.copy \in Copy
                 /\ j.step = "write" /\ j.seen # NoStatus => row'[j.dev] # NoStatus
                 /\ j.step = "tell" => w # "http"
            BY <2>1, <2>6
        <3> HIDE DEF d
        <3>. QED  BY <2>4, <3>1, <3>2, MoveShapes
    <2>10. StatusTypeOK'
        BY <2>4, <2>7, <2>8, <2>9 DEF StatusInv, StatusTypeOK
    <2>. QED  BY <2>9, <2>10 DEF StatusInv
<1>3. ASSUME NEW w \in Writers, Broadcast(w) PROVE StatusInv'
    <2>1. job[w].dev \in Trackers /\ job[w].copy \in Copy
        BY <1>3, WritersAre DEF Broadcast, At
    <2>2. [status |-> job[w].copy.status, level |-> job[w].copy.level] \in Report
        BY <2>1 DEF Copy, Report
    <2>3. view' \in [Trackers -> Report \union {NoReport}]
        BY <1>3, <2>1, <2>2 DEF Broadcast, StatusInv, StatusTypeOK
    <2>4. job' = [job EXCEPT ![w] = NoSave]
          /\ UNCHANGED <<row, todo, now, last, changedAt, raced, reports, saveFaults>>
        BY <1>3 DEF Broadcast, history
    <2>5. job' \in [Writers -> Job] /\ SaveShapes'
        BY <2>4, MoveShapes, NoStatusIsNone
    <2>6. StatusTypeOK'
        BY <2>3, <2>4, <2>5 DEF StatusInv, StatusTypeOK
    <2>. QED  BY <2>5, <2>6 DEF StatusInv
<1>4. ASSUME NEW w \in Writers, GiveUp(w), saveFaults' \in 0..MaxSaveFaults PROVE StatusInv'
    <2>1. job' = [job EXCEPT ![w] = NoSave]
          /\ UNCHANGED <<row, view, now, last, changedAt, raced, reports>>
        BY <1>4 DEF GiveUp, history
    <2>2. todo' \in [Trackers -> Row \union {NoStatus}]
        BY <1>4 DEF GiveUp, StatusInv, StatusTypeOK
    <2>3. job' \in [Writers -> Job] /\ SaveShapes'
        BY <2>1, MoveShapes, NoStatusIsNone
    <2>4. StatusTypeOK'
        BY <1>4, <2>1, <2>2, <2>3 DEF StatusInv, StatusTypeOK
    <2>. QED  BY <2>3, <2>4 DEF StatusInv
<1>5. ASSUME NEW w \in Writers, SaveFails(w) PROVE StatusInv'
    <2>1. saveFaults' \in 0..MaxSaveFaults /\ GiveUp(w)
        BY <1>5 DEF SaveFails, StatusInv, StatusTypeOK
    <2>. QED  BY <1>4, <2>1
<1>6. ASSUME NEW w \in Writers, InsertConflicts(w) PROVE StatusInv'
    <2>1. saveFaults' \in 0..MaxSaveFaults /\ GiveUp(w)
        BY <1>6 DEF InsertConflicts, StatusInv, StatusTypeOK
    <2>. QED  BY <1>4, <2>1
<1>7. ASSUME Tick PROVE StatusInv'
    <2>1. now' \in 0..MaxTime
          /\ UNCHANGED <<row, job, todo, view, last, changedAt, raced, reports, saveFaults>>
        BY <1>7 DEF Tick, history, StatusInv, StatusTypeOK
    <2>2. StatusTypeOK'
        BY <2>1 DEF StatusInv, StatusTypeOK
    <2>3. SaveShapes'
        BY <2>1 DEF StatusInv, SaveShapes, At
    <2>. QED  BY <2>2, <2>3 DEF StatusInv
<1>. QED  BY <1>1, <1>2, <1>3, <1>5, <1>6, <1>7 DEF SaveStep

LEMMA StatusStepTypes == StatusInv /\ [StatusNext]_statusVars => StatusInv'
<1>1. SUFFICES ASSUME StatusInv, [StatusNext]_statusVars PROVE StatusInv'
    OBVIOUS
<1>2. CASE StatusNext
    BY <1>1, <1>2, ArrivalsKeepTypes, MovesKeepTypes DEF StatusNext
<1>3. CASE UNCHANGED statusVars
    <2>1. UNCHANGED <<row, job, todo, view, now, last, changedAt, raced, reports, saveFaults>>
        BY <1>3 DEF statusVars
    <2>. QED  BY <1>1, <2>1 DEF StatusInv, StatusTypeOK, SaveShapes, At
<1>. QED  BY <1>1, <1>2, <1>3

(* Type correctness of device_status: every reachable state has StatusTypeOK,
   and every save under way has its shape. *)
THEOREM StatusTypesCorrect == StatusSpec => []StatusInv
<1>1. StatusInit => StatusInv
    BY StatusInitially
<1>2. StatusInv /\ [StatusNext]_statusVars => StatusInv'
    BY StatusStepTypes
<1>. QED  BY <1>1, <1>2, PTL DEF StatusSpec

(* A writer comes to a device: what it brings, and who was there. *)
LEMMA ArrivalOrderly ==
    ASSUME StatusInv, StatusSoFar, NEW w \in Writers, NEW d \in Trackers, NEW copy \in Copy,
           At(w, "idle"), Begin(w, d, copy),
           UNCHANGED <<row, view, now, last, changedAt>>,
           \A e \in Trackers : e # d => todo'[e] = todo[e] /\ raced'[e] = raced[e],
           todo'[d] \in {todo[d], NoStatus}, todo'[d] # NoStatus => raced'[d],
           raced[d] => raced'[d], (\E u \in Writers : On(u, d)) => raced'[d],
           w = "consumer" => Fresh(copy, row[d]),
           w = "http" => row[d] = NoStatus,
           w = "sweep" /\ ~raced'[d] =>
               Silent(row[d]) /\ copy = [row[d] EXCEPT !.status = "offline"]
    PROVE  StatusSoFar'
<1>1. /\ job' \in [Writers -> Job]
      /\ job'[w] = [step |-> "load", dev |-> d, copy |-> copy, seen |-> NoStatus,
                    alone |-> ~Busy(d)]
      /\ \A v \in Writers : v # w => job'[v] = Met(job[v], On(v, d))
    BY Begun DEF StatusInv
<1>2. /\ job'[w].step = "load" /\ job'[w].dev = d /\ job'[w].copy = copy
      /\ job'[w].alone = ~Busy(d)
    BY <1>1
<1>3. ASSUME NEW v \in Writers, v # w
      PROVE  /\ job'[v].step = job[v].step /\ job'[v].dev = job[v].dev
             /\ job'[v].copy = job[v].copy /\ job'[v].seen = job[v].seen
             /\ ~On(v, d) => job'[v] = job[v]
             /\ On(v, d) => ~job'[v].alone
    <2>1. job[v] \in Job /\ On(v, d) \in BOOLEAN
        BY WritersAre DEF On
    <2>2. job'[v] = Met(job[v], On(v, d))
        BY <1>1, <1>3
    <2>3. /\ job'[v].step = job[v].step /\ job'[v].dev = job[v].dev
          /\ job'[v].copy = job[v].copy /\ job'[v].seen = job[v].seen
        BY <2>1, <2>2, MetIs
    <2>4. ~On(v, d) => job'[v] = job[v]
        BY <2>1, <2>2, MetIs
    <2>5. job'[v].alone = (job[v].alone /\ ~On(v, d))
        BY <2>1, <2>2, MetIs
    <2>6. On(v, d) => ~job'[v].alone
        BY <2>5
    <2>. QED  BY <2>3, <2>4, <2>6
<1>4. \A e \in Trackers : ~On(w, e)
    BY WritersAre
<1>5. now \in 0..MaxTime /\ now' >= now
    BY ConstantsAssumption DEF StatusInv, StatusTypeOK
<1>6. ASSUME NEW e \in Trackers, e # d PROVE Orderly(e)'
    <2>1. \A v \in Writers : On(v, e)' => On(v, e) /\ job'[v] = job[v]
        BY <1>2, <1>3, <1>6 DEF On
    <2>2. \A v \in Writers : On(v, e) /\ At(v, "tell") => On(v, e)'
        BY <1>3, <1>4 DEF On
    <2>3. Orderly(e) /\ todo'[e] \in {todo[e], NoStatus} /\ raced'[e] = raced[e]
        BY <1>6 DEF StatusSoFar
    <2>. QED  BY <1>5, <2>1, <2>2, <2>3, Undisturbed
<1>7. Orderly(d)'
    <2>1. /\ Meetings(d) /\ ConsumerAlone(d) /\ OthersOrderly(d) /\ LastKept(d)
          /\ last[d] = NoReport => changedAt[d] = 0
        BY DEF StatusSoFar, Orderly
    <2>2. \A v \in Writers : v # w => (On(v, d)' <=> On(v, d))
        BY <1>3 DEF On
    <2>3. (\E u \in Writers : On(u, d)) \/ todo'[d] # NoStatus => ~job'[w].alone
        BY <1>2 DEF Busy
    <2>4. Meetings(d)'
        <3>1. ASSUME NEW u \in Writers, NEW v \in Writers, u # v, On(u, d)', On(v, d)'
              PROVE  raced'[d] /\ ~job'[u].alone
            BY <1>3, <2>2, <2>3, <3>1
        <3>2. ASSUME NEW v \in Writers, todo'[d] # NoStatus, On(v, d)'
              PROVE  raced'[d] /\ ~job'[v].alone
            BY <1>3, <2>2, <2>3, <3>2
        <3>. QED  BY <3>1, <3>2 DEF Meetings
    <2>5. ConsumerAlone(d)'
        <3>1. CASE w = "consumer"
            BY <1>2, <3>1 DEF ConsumerAlone, Fresh
        <3>2. CASE w # "consumer"
            BY <1>3, <2>2, <3>2 DEF ConsumerAlone, Writers
        <3>. QED  BY <3>1, <3>2
    <2>6. OthersOrderly(d)'
        <3> SUFFICES ASSUME ~raced'[d]
                     PROVE  /\ On("http", d)' => row'[d] = NoStatus
                            /\ todo'[d] # NoStatus => todo'[d] = row'[d] /\ Silent(row[d])'
                            /\ (On("sweep", d) /\ ~At("sweep", "tell"))' =>
                                  /\ Silent(row[d])'
                                  /\ job'["sweep"].copy = [row'[d] EXCEPT !.status = "offline"]
                                  /\ At("sweep", "write")' => job'["sweep"].seen = row'[d]
                            /\ \A v \in Writers :
                                  (On(v, d) /\ At(v, "tell"))' => Shows(row'[d], job'[v].copy)
            BY DEF OthersOrderly
        <3>1. \A v \in Writers : On(v, d)' => v = w
            BY <2>2
        <3>2. Silent(row[d]) => Silent(row[d])'
            BY DEF Silent
        <3>3. ~At(w, "tell")' /\ ~At(w, "write")'
            BY <1>2 DEF At
        <3>4. On("http", d)' => row'[d] = NoStatus
            BY <3>1 DEF Writers
        <3>5. On("sweep", d)' =>
                  Silent(row[d])' /\ job'["sweep"].copy = [row'[d] EXCEPT !.status = "offline"]
            BY <1>2, <3>1, <3>2 DEF Writers
        <3>6. At("sweep", "write")' /\ On("sweep", d)' => FALSE
            BY <3>1, <3>3 DEF Writers
        <3>. QED  BY <3>1, <3>3, <3>4, <3>5, <3>6
    <2>7. LastKept(d)'
        <3>1. \A v \in Writers : On(v, d) /\ At(v, "tell") => (On(v, d) /\ At(v, "tell"))'
            BY <1>3, <1>4 DEF On, At
        <3>. QED  BY <2>1, <3>1 DEF LastKept
    <2>. QED  BY <2>1, <2>4, <2>5, <2>6, <2>7 DEF Orderly
<1>. QED  BY <1>6, <1>7 DEF StatusSoFar

(* One save moves on: the other devices. *)
LEMMA MoveElsewhere ==
    ASSUME StatusInv, StatusSoFar, NEW w \in Writers, NEW d \in Trackers, On(w, d),
           NEW j \in Job, j = NoSave \/ j.dev = d, job' = [job EXCEPT ![w] = j],
           UNCHANGED <<todo, now>>,
           \A e \in Trackers : e # d =>
               /\ row'[e] = row[e] /\ view'[e] = view[e] /\ last'[e] = last[e]
               /\ changedAt'[e] = changedAt[e] /\ raced'[e] = raced[e],
           Orderly(d)'
    PROVE  StatusSoFar'
<1>1. job'[w] = j /\ \A v \in Writers : v # w => job'[v] = job[v]
    BY OneSaveMoves DEF StatusInv
<1>2. now \in 0..MaxTime /\ now' >= now
    BY ConstantsAssumption DEF StatusInv, StatusTypeOK
<1>3. ASSUME NEW e \in Trackers, e # d PROVE Orderly(e)'
    <2>1. ~On(w, e) /\ ~On(w, e)'
        BY <1>1, <1>3, NoDeviceIsNone DEF On, NoSave
    <2>2. \A v \in Writers : On(v, e)' => On(v, e) /\ job'[v] = job[v]
        BY <1>1, <2>1 DEF On
    <2>3. \A v \in Writers : On(v, e) => On(v, e)'
        BY <1>1, <2>1 DEF On
    <2>4. Orderly(e)
        BY DEF StatusSoFar
    <2>. QED  BY <1>2, <1>3, <2>2, <2>3, <2>4, Undisturbed
<1>. QED  BY <1>3 DEF StatusSoFar

(* The arrivals keep every device orderly. *)
LEMMA ArrivalsOrderly ==
    ASSUME StatusInv, StatusSoFar,
           \/ \E d \in Trackers, report \in Report : Upsert(d, report)
           \/ \E d \in Trackers : FindByDevice(d)
           \/ SweepStep
    PROVE  StatusSoFar'
<1> USE ConstantsAssumption
<1>1. ASSUME NEW d \in Trackers, NEW report \in Report, Upsert(d, report) PROVE StatusSoFar'
    <2> DEFINE c == [status |-> report.status, level |-> report.level,
                     at |-> IF row[d] = NoStatus THEN Unset ELSE row[d].at]
    <2>1. row[d] = NoStatus \/ row[d].at \in 0..MaxTime
        BY DEF StatusInv, StatusTypeOK, Row
    <2>2. c \in Copy
        BY <2>1 DEF Copy, Report, Unset
    <2>3. Fresh(c, row[d])
        BY DEF Fresh
    <2>4. At("consumer", "idle") /\ Begin("consumer", d, c) /\ "consumer" \in Writers
          /\ UNCHANGED <<row, todo, view, now, last, changedAt>>
          /\ raced' = [raced EXCEPT ![d] = @ \/ Busy(d)]
        BY <1>1 DEF Upsert, Writers
    <2> HIDE DEF c
    <2>5. raced \in [Trackers -> BOOLEAN]
        BY DEF StatusInv, StatusTypeOK
    <2>6. (\A e \in Trackers : e # d => raced'[e] = raced[e])
          /\ raced'[d] = (raced[d] \/ Busy(d))
        BY <2>4, <2>5
    <2>7. (\E u \in Writers : On(u, d)) \/ todo[d] # NoStatus => Busy(d)
        BY DEF Busy
    <2>. QED  BY <2>2, <2>3, <2>4, <2>6, <2>7, ArrivalOrderly
<1>2. ASSUME NEW d \in Trackers, FindByDevice(d) PROVE StatusSoFar'
    <2> DEFINE c == [status |-> "offline", level |-> 0, at |-> Unset]
    <2>1. c \in Copy
        BY DEF Copy, Unset, Statuses
    <2>2. At("http", "idle") /\ Begin("http", d, c) /\ "http" \in Writers /\ row[d] = NoStatus
          /\ UNCHANGED <<row, todo, view, now, last, changedAt>>
          /\ raced' = [raced EXCEPT ![d] = @ \/ Busy(d)]
        BY <1>2 DEF FindByDevice, Writers
    <2> HIDE DEF c
    <2>3. raced \in [Trackers -> BOOLEAN]
        BY DEF StatusInv, StatusTypeOK
    <2>4. (\A e \in Trackers : e # d => raced'[e] = raced[e])
          /\ raced'[d] = (raced[d] \/ Busy(d))
        BY <2>2, <2>3
    <2>5. (\E u \in Writers : On(u, d)) \/ todo[d] # NoStatus => Busy(d)
        BY DEF Busy
    <2>. QED  BY <2>1, <2>2, <2>4, <2>5, ArrivalOrderly
<1>3. ASSUME NEW d \in Trackers, SweepNext(d) PROVE StatusSoFar'
    <2> DEFINE c == [todo[d] EXCEPT !.status = "offline"]
    <2>1. todo[d] \in Row /\ todo[d] # NoStatus
        BY <1>3 DEF SweepNext, StatusInv, StatusTypeOK
    <2>2. c \in Copy
        BY <2>1 DEF Row, Copy, Unset, Statuses
    <2>3. At("sweep", "idle") /\ Begin("sweep", d, c) /\ "sweep" \in Writers
          /\ UNCHANGED <<row, view, now, last, changedAt, raced>>
          /\ todo' = [todo EXCEPT ![d] = NoStatus]
        BY <1>3 DEF SweepNext, Writers, history
    <2>4. todo'[d] = NoStatus /\ \A e \in Trackers : e # d => todo'[e] = todo[e]
        BY <2>3 DEF StatusInv, StatusTypeOK
    <2>5. Meetings(d) /\ OthersOrderly(d)
        BY DEF StatusSoFar, Orderly
    <2>6. (\E u \in Writers : On(u, d)) => raced[d]
        BY <2>1, <2>5 DEF Meetings
    <2>7. ~raced[d] => Silent(row[d]) /\ c = [row[d] EXCEPT !.status = "offline"]
        BY <2>1, <2>5 DEF OthersOrderly
    <2> HIDE DEF c
    <2>. QED  BY <2>2, <2>3, <2>4, <2>6, <2>7, ArrivalOrderly
<1>4. ASSUME SweepFind PROVE StatusSoFar'
    <2> DEFINE found == {d \in Trackers : Expired(d)}
    <2>1. /\ todo' = [d \in Trackers |-> IF d \in found THEN row[d] ELSE NoStatus]
          /\ raced' = [d \in Trackers |-> raced[d] \/ (d \in found /\ Busy(d))]
          /\ job' = [w \in Writers |-> Met(job[w], job[w].dev \in found)]
          /\ \A d \in Trackers : todo[d] = NoStatus
          /\ UNCHANGED <<row, view, now, last, changedAt, reports, saveFaults>>
        BY <1>4 DEF SweepFind, Met
    <2>2. \A d \in found : Silent(row[d])
        BY DEF found, Silent, Expired
    <2> HIDE DEF found
    <2>3. ASSUME NEW w \in Writers
          PROVE  /\ job'[w].step = job[w].step /\ job'[w].dev = job[w].dev
                 /\ job'[w].copy = job[w].copy /\ job'[w].seen = job[w].seen
                 /\ job[w].dev \notin found => job'[w] = job[w]
                 /\ job[w].dev \in found => ~job'[w].alone
        <3> DEFINE here == job[w].dev \in found
        <3>1. here \in BOOLEAN /\ (~here <=> job[w].dev \notin found)
            OBVIOUS
        <3>2. job[w] \in Job
            BY WritersAre
        <3>3. job'[w] = Met(job[w], here)
            BY <2>1
        <3>4. here <=> job[w].dev \in found
            OBVIOUS
        <3> HIDE DEF here
        <3>5. job'[w].alone = (job[w].alone /\ ~here)
            BY <3>1, <3>2, <3>3, MetIs
        <3>6. here => ~job'[w].alone
            BY <3>5
        <3>7. /\ job'[w].step = job[w].step /\ job'[w].dev = job[w].dev
              /\ job'[w].copy = job[w].copy /\ job'[w].seen = job[w].seen
              /\ ~here => job'[w] = job[w]
            BY <3>1, <3>2, <3>3, MetIs
        <3>. QED  BY <3>1, <3>4, <3>6, <3>7
    <2>4. now \in 0..MaxTime /\ now' >= now
        BY <2>1 DEF StatusInv, StatusTypeOK
    <2>5. ASSUME NEW d \in Trackers PROVE Orderly(d)'
        <3>1. Orderly(d)
            BY DEF StatusSoFar
        <3>2. /\ Meetings(d) /\ ConsumerAlone(d) /\ OthersOrderly(d) /\ LastKept(d)
              /\ last[d] = NoReport => changedAt[d] = 0
            BY <3>1 DEF Orderly
        <3>3. \A v \in Writers : On(v, d)' <=> On(v, d)
            BY <2>3 DEF On
        <3>4. todo'[d] = (IF d \in found THEN row[d] ELSE NoStatus)
              /\ raced'[d] = (raced[d] \/ (d \in found /\ Busy(d)))
            BY <2>1
        <3>5. CASE d \notin found
            <4>1. \A v \in Writers : On(v, d)' => On(v, d) /\ job'[v] = job[v]
                BY <2>3, <3>3, <3>5 DEF On
            <4>2. raced'[d] = raced[d] /\ todo'[d] = NoStatus
                BY <3>4, <3>5 DEF StatusInv, StatusTypeOK
            <4>. QED  BY <2>1, <2>4, <3>1, <3>3, <4>1, <4>2, Undisturbed
        <3>6. CASE d \in found
            <4>1. \A v \in Writers : On(v, d)' => raced'[d] /\ ~job'[v].alone
                BY <2>3, <3>3, <3>4, <3>6 DEF On, Busy
            <4>2. Meetings(d)'
                BY <4>1 DEF Meetings
            <4>3. ConsumerAlone(d)'
                BY <4>1 DEF ConsumerAlone, Writers
            <4>4. Silent(row[d])'
                BY <2>1, <2>2, <3>6 DEF Silent
            <4>5. OthersOrderly(d)'
                BY <2>1, <3>4, <3>6, <4>1, <4>4 DEF OthersOrderly, Writers
            <4>6. raced[d] => raced'[d]
                BY <3>4
            <4>7. LastKept(d)'
                BY <2>1, <2>3, <3>2, <4>6 DEF LastKept, On, At
            <4>. QED  BY <2>1, <3>2, <4>2, <4>3, <4>5, <4>7 DEF Orderly
        <3>. QED  BY <3>5, <3>6
    <2>. QED  BY <2>5 DEF StatusSoFar
<1>. QED  BY <1>1, <1>2, <1>3, <1>4 DEF SweepStep

(* save reads the row, and the status is sent. *)
LEMMA LoadOrderly ==
    ASSUME StatusInv, StatusSoFar, NEW w \in Writers, NEW d \in Trackers, On(w, d), Load(w)
    PROVE  StatusSoFar'
<1> DEFINE j == [job[w] EXCEPT !.step = "write", !.seen = row[job[w].dev]]
<1>1. job[w] \in Job /\ job[w].dev = d /\ At(w, "load")
    BY WritersAre DEF Load, On
<1>2. row[d] \in Row \union {NoStatus}
    BY <1>1 DEF StatusInv, StatusTypeOK
<1>3. /\ j \in Job /\ j.step = "write" /\ j.dev = d /\ j.copy = job[w].copy
      /\ j.seen = row[d] /\ j.alone = job[w].alone
    BY <1>1, <1>2 DEF Job
<1>4. job' = [job EXCEPT ![w] = j]
      /\ UNCHANGED <<row, todo, view, now, last, changedAt, raced>>
    BY DEF Load, history
<1>5. On(w, d)
    OBVIOUS
<1> HIDE DEF j
<1>6. job'[w] = j /\ \A v \in Writers : v # w => job'[v] = job[v]
    BY <1>3, <1>4, OneSaveMoves DEF StatusInv
<1>7. /\ Meetings(d) /\ ConsumerAlone(d) /\ OthersOrderly(d) /\ LastKept(d)
      /\ last[d] = NoReport => changedAt[d] = 0
    BY <1>1 DEF StatusSoFar, Orderly
<1>8. \A v \in Writers : (On(v, d)' <=> On(v, d)) /\ job'[v].alone = job[v].alone
                          /\ job'[v].copy = job[v].copy
                          /\ (At(v, "tell")' <=> At(v, "tell"))
    BY <1>1, <1>3, <1>5, <1>6 DEF On, At
<1>9. Meetings(d)'
    BY <1>4, <1>7, <1>8 DEF Meetings
<1>10. ConsumerAlone(d)'
    <2>1. CASE w = "consumer"
        BY <1>1, <1>3, <1>4, <1>5, <1>6, <1>7, <2>1 DEF ConsumerAlone, At
    <2>2. CASE w # "consumer"
        <3>1. job'["consumer"] = job["consumer"]
            BY <1>6, <2>2 DEF Writers
        <3>. QED  BY <1>4, <1>7, <1>8, <3>1 DEF ConsumerAlone, Writers
    <2>. QED  BY <2>1, <2>2
<1>11. Silent(row[d]) => Silent(row[d])'
    BY <1>4 DEF Silent
<1>12. OthersOrderly(d)'
    <2> SUFFICES ASSUME ~raced[d]
                 PROVE  /\ On("http", d)' => row[d] = NoStatus
                        /\ todo[d] # NoStatus => todo[d] = row[d] /\ Silent(row[d])'
                        /\ (On("sweep", d) /\ ~At("sweep", "tell"))' =>
                              /\ Silent(row[d])'
                              /\ job'["sweep"].copy = [row[d] EXCEPT !.status = "offline"]
                              /\ At("sweep", "write")' => job'["sweep"].seen = row[d]
                        /\ \A v \in Writers :
                              (On(v, d) /\ At(v, "tell"))' => Shows(row[d], job'[v].copy)
        BY <1>4 DEF OthersOrderly
    <2>1. On("http", d)' => row[d] = NoStatus
        BY <1>7, <1>8 DEF OthersOrderly, Writers
    <2>2. todo[d] # NoStatus => todo[d] = row[d] /\ Silent(row[d])'
        BY <1>7, <1>11 DEF OthersOrderly
    <2>3. (On("sweep", d) /\ ~At("sweep", "tell"))' =>
              Silent(row[d])' /\ job'["sweep"].copy = [row[d] EXCEPT !.status = "offline"]
        BY <1>7, <1>8, <1>11 DEF OthersOrderly, Writers
    <2>4. (On("sweep", d) /\ At("sweep", "write"))' => job'["sweep"].seen = row[d]
        <3>1. CASE w = "sweep"
            BY <1>3, <1>6, <3>1
        <3>2. CASE w # "sweep"
            <4>1. job'["sweep"] = job["sweep"]
                BY <1>6, <3>2 DEF Writers
            <4>2. On("sweep", d)' /\ At("sweep", "write")' => On("sweep", d) /\ At("sweep", "write")
                      /\ ~At("sweep", "tell")
                BY <4>1 DEF On, At
            <4>. QED  BY <1>7, <4>1, <4>2 DEF OthersOrderly
        <3>. QED  BY <3>1, <3>2
    <2>5. \A v \in Writers : (On(v, d) /\ At(v, "tell"))' => Shows(row[d], job'[v].copy)
        BY <1>7, <1>8 DEF OthersOrderly
    <2>. QED  BY <2>1, <2>2, <2>3, <2>4, <2>5
<1>13. LastKept(d)'
    BY <1>4, <1>7, <1>8 DEF LastKept
<1>14. Orderly(d)'
    BY <1>4, <1>7, <1>9, <1>10, <1>12, <1>13 DEF Orderly
<1>. QED  BY <1>1, <1>3, <1>4, <1>5, <1>14, MoveElsewhere

LEMMA BroadcastOrderly ==
    ASSUME StatusInv, StatusSoFar, NEW w \in Writers, NEW d \in Trackers, On(w, d),
           Broadcast(w)
    PROVE  StatusSoFar'
<1>1. job[w] \in Job /\ job[w].dev = d /\ At(w, "tell") /\ On(w, d)
    BY WritersAre DEF Broadcast, On
<1>2. /\ job' = [job EXCEPT ![w] = NoSave]
      /\ view' = [view EXCEPT ![d] = [status |-> job[w].copy.status,
                                      level |-> job[w].copy.level]]
      /\ UNCHANGED <<row, todo, now, last, changedAt, raced>>
    BY <1>1 DEF Broadcast, history
<1>3. job'[w] = NoSave /\ \A v \in Writers : v # w => job'[v] = job[v]
    BY <1>2, OneSaveMoves, NoStatusIsNone DEF StatusInv
<1>4. /\ Meetings(d) /\ ConsumerAlone(d) /\ OthersOrderly(d) /\ LastKept(d)
      /\ last[d] = NoReport => changedAt[d] = 0
    BY <1>1 DEF StatusSoFar, Orderly
<1>5. ~On(w, d)'
    BY <1>1, <1>3, NoDeviceIsNone DEF On, NoSave
<1>6. \A v \in Writers : On(v, d)' => v # w /\ On(v, d) /\ job'[v] = job[v]
    BY <1>3, <1>5 DEF On
<1>7. Meetings(d)'
    BY <1>2, <1>4, <1>6 DEF Meetings
<1>8. ConsumerAlone(d)'
    BY <1>2, <1>4, <1>6 DEF ConsumerAlone, Writers
<1>9. \A v \in Writers : On(v, d)' => raced[d]
    BY <1>1, <1>4, <1>6 DEF Meetings
<1>10. Silent(row[d]) => Silent(row[d])'
    BY <1>2 DEF Silent
<1>11. OthersOrderly(d)'
    BY <1>2, <1>4, <1>9, <1>10 DEF OthersOrderly, Writers
<1>12. view'[d].status = job[w].copy.status /\ view'[d].level = job[w].copy.level
       /\ \A e \in Trackers : e # d => view'[e] = view[e]
    BY <1>1, <1>2 DEF StatusInv, StatusTypeOK
<1>13. ~raced[d] => Shows(row[d], view'[d])
    BY <1>1, <1>4, <1>12 DEF OthersOrderly, Shows
<1>14. LastKept(d)'
    BY <1>2, <1>4, <1>13 DEF LastKept
<1>15. Orderly(d)'
    BY <1>2, <1>4, <1>7, <1>8, <1>11, <1>14 DEF Orderly
<1>. QED  BY <1>1, <1>2, <1>12, <1>15, MoveElsewhere, NoStatusIsNone

(* A save that is given up, and time: nobody arrives and nothing is written. *)
LEMMA GivingUpOrderly ==
    ASSUME StatusInv, StatusSoFar, NEW w \in Writers, GiveUp(w), ~At(w, "tell")
    PROVE  StatusSoFar'
<1>1. job' = [job EXCEPT ![w] = NoSave]
      /\ UNCHANGED <<row, view, now, last, changedAt, raced>>
    BY DEF GiveUp, history
<1>2. job'[w] = NoSave /\ \A v \in Writers : v # w => job'[v] = job[v]
    BY <1>1, OneSaveMoves, NoStatusIsNone DEF StatusInv
<1>3. now' \in 0..MaxTime /\ now' >= now
    BY <1>1, ConstantsAssumption DEF StatusInv, StatusTypeOK
<1>4. ASSUME NEW d \in Trackers PROVE Orderly(d)'
    <2>1. \A v \in Writers : On(v, d)' => On(v, d) /\ job'[v] = job[v]
        BY <1>2, NoDeviceIsNone DEF On, NoSave
    <2>2. \A v \in Writers : On(v, d) /\ At(v, "tell") => On(v, d)'
        BY <1>2 DEF On
    <2>3. todo'[d] \in {todo[d], NoStatus}
        BY DEF GiveUp
    <2>4. Orderly(d)
        BY DEF StatusSoFar
    <2>. QED  BY <1>1, <1>3, <2>1, <2>2, <2>3, <2>4, Undisturbed
<1>. QED  BY <1>4 DEF StatusSoFar

LEMMA TickOrderly ==
    ASSUME StatusInv, StatusSoFar, Tick
    PROVE  StatusSoFar'
<1>1. now' \in 0..MaxTime /\ now' >= now
      /\ UNCHANGED <<row, job, todo, view, last, changedAt, raced>>
    BY ConstantsAssumption DEF Tick, history, StatusInv, StatusTypeOK
<1>2. ASSUME NEW d \in Trackers PROVE Orderly(d)'
    <2>1. \A v \in Writers : On(v, d)' <=> On(v, d)
        BY <1>1 DEF On
    <2>2. Orderly(d)
        BY DEF StatusSoFar
    <2>. QED  BY <1>1, <2>1, <2>2, Undisturbed
<1>. QED  BY <1>2 DEF StatusSoFar

(* What a write does to the row: with the row as it was loaded, or absent. *)
LEMMA WritesTheCopy ==
    ASSUME StatusInv, NEW w \in Writers, NEW d \in Trackers, On(w, d), WriteRow(w)
    PROVE  /\ job[w].copy \in Copy /\ now \in 0..MaxTime /\ row'[d] \in Row
           /\ job[w].seen = row[d] =>
                 /\ Shows(row'[d], job[w].copy)
                 /\ Fresh(job[w].copy, row[d]) =>
                       row'[d].at = now \/ (row'[d] = row[d] /\ row[d] # NoStatus)
           /\ \A e \in Trackers : e # d => row'[e] = row[e]
<1>1. /\ job[w] \in Job /\ job[w].dev = d /\ job[w].copy \in Copy
      /\ job[w].seen \in Row \union {NoStatus} /\ At(w, "write")
    BY WritersAre DEF WriteRow, At, On
<1>2. now \in 0..MaxTime /\ row \in [Trackers -> Row \union {NoStatus}]
    BY DEF StatusInv, StatusTypeOK
<1>3. CASE job[w].seen = NoStatus
    <2>1. row[d] = NoStatus /\ row' = [row EXCEPT ![d] = Inserted(job[w].copy)]
        BY <1>1, <1>3 DEF WriteRow
    <2>2. row'[d] = Inserted(job[w].copy) /\ \A e \in Trackers : e # d => row'[e] = row[e]
        BY <1>2, <2>1
    <2>3. /\ Inserted(job[w].copy) \in Row /\ Shows(Inserted(job[w].copy), job[w].copy)
          /\ job[w].copy.at = Unset => Inserted(job[w].copy).at = now
        BY <1>1, <1>2, InsertedIs
    <2>. QED  BY <1>1, <1>2, <2>1, <2>2, <2>3 DEF Fresh
<1>4. CASE job[w].seen # NoStatus
    <2>1. row' = [row EXCEPT ![d] = Merged(job[w].copy, job[w].seen, row[d])]
        BY <1>1, <1>4 DEF WriteRow
    <2>2. row[d] \in Row /\ job[w].seen \in Row
        BY <1>1, <1>2, <1>4 DEF StatusInv, SaveShapes
    <2>3. row'[d] = Merged(job[w].copy, job[w].seen, row[d])
          /\ \A e \in Trackers : e # d => row'[e] = row[e]
        BY <1>2, <2>1
    <2>4. /\ Merged(job[w].copy, job[w].seen, row[d]) \in Row
          /\ job[w].seen = row[d] => Shows(Merged(job[w].copy, job[w].seen, row[d]), job[w].copy)
          /\ job[w].seen = row[d] /\ job[w].copy.at \in {Unset, job[w].seen.at} =>
                \/ Merged(job[w].copy, job[w].seen, row[d]) = row[d]
                \/ Merged(job[w].copy, job[w].seen, row[d]).at = now
        BY <1>1, <1>2, <2>2, MergedIs
    <2>5. row[d] # NoStatus
        BY <2>2, NoStatusIsNone
    <2>6. job[w].seen = row[d] /\ Fresh(job[w].copy, row[d]) =>
              job[w].copy.at \in {Unset, job[w].seen.at}
        BY <2>5 DEF Fresh
    <2>. QED  BY <1>1, <1>2, <2>3, <2>4, <2>5, <2>6
<1>. QED  BY <1>3, <1>4

(* The consumer writes: alone, its heartbeat is the row; otherwise it raced. *)
LEMMA ConsumerWrites ==
    ASSUME StatusInv, StatusSoFar, NEW d \in Trackers, On("consumer", d), WriteRow("consumer")
    PROVE  StatusSoFar'
<1> USE ConstantsAssumption
<1> DEFINE j == [job["consumer"] EXCEPT !.step = "tell"]
           w == "consumer"
<1>1. /\ w \in Writers /\ job[w] \in Job /\ job[w].dev = d /\ At(w, "write")
      /\ job[w].alone \in BOOLEAN
    BY WritersAre DEF WriteRow, On, Writers
<1>2. /\ job[w].copy \in Copy /\ now \in 0..MaxTime /\ row'[d] \in Row
      /\ job[w].seen = row[d] =>
            /\ Shows(row'[d], job[w].copy)
            /\ Fresh(job[w].copy, row[d]) =>
                  row'[d].at = now \/ (row'[d] = row[d] /\ row[d] # NoStatus)
      /\ \A e \in Trackers : e # d => row'[e] = row[e]
    BY <1>1, WritesTheCopy
<1>3. /\ j \in Job /\ j.step = "tell" /\ j.dev = d /\ j.copy = job[w].copy
      /\ j.alone = job[w].alone
    BY <1>1 DEF Job
<1>4. /\ job' = [job EXCEPT ![w] = j]
      /\ last' = [last EXCEPT ![d] = [status |-> job[w].copy.status,
                                      level |-> job[w].copy.level]]
      /\ changedAt' = [changedAt EXCEPT ![d] = IF row'[d] = row[d] THEN @ ELSE now]
      /\ raced' = [raced EXCEPT ![d] = ~job[w].alone \/ (@ /\ row'[d] = row[d])]
      /\ UNCHANGED <<todo, view, now>>
    BY <1>1 DEF WriteRow, Remember
<1> HIDE DEF j
<1>5. /\ last'[d].status = job[w].copy.status /\ last'[d].level = job[w].copy.level
      /\ last'[d] \in Report
      /\ changedAt'[d] = (IF row'[d] = row[d] THEN changedAt[d] ELSE now)
      /\ changedAt[d] \in 0..MaxTime
      /\ \A e \in Trackers : e # d =>
            last'[e] = last[e] /\ changedAt'[e] = changedAt[e] /\ raced'[e] = raced[e]
    BY <1>2, <1>4 DEF StatusInv, StatusTypeOK, Copy, Report
<1>6. raced'[d] = (~job[w].alone \/ (raced[d] /\ row'[d] = row[d]))
    BY <1>4 DEF StatusInv, StatusTypeOK
<1>7. job'[w] = j /\ \A v \in Writers : v # w => job'[v] = job[v]
    BY <1>1, <1>3, <1>4, OneSaveMoves DEF StatusInv
<1>8. /\ Meetings(d) /\ ConsumerAlone(d) /\ LastKept(d)
      /\ last[d] = NoReport => changedAt[d] = 0
    BY DEF StatusSoFar, Orderly
<1>9. \A v \in Writers : (On(v, d)' <=> On(v, d)) /\ job'[v].alone = job[v].alone
    BY <1>1, <1>3, <1>7 DEF On
<1>10. (\E v \in Writers : v # w /\ On(v, d)) \/ todo[d] # NoStatus => ~job[w].alone
    BY <1>1, <1>8 DEF Meetings
<1>11. Meetings(d)'
    <2>1. ASSUME NEW u \in Writers, NEW v \in Writers, u # v, On(u, d)', On(v, d)'
          PROVE  raced'[d] /\ ~job'[u].alone
        <3>1. ~job[u].alone /\ \E x \in Writers : x # w /\ On(x, d)
            BY <1>8, <1>9, <2>1 DEF Meetings
        <3>. QED  BY <1>6, <1>9, <1>10, <3>1
    <2>2. ASSUME NEW v \in Writers, todo'[d] # NoStatus, On(v, d)'
          PROVE  raced'[d] /\ ~job'[v].alone
        <3>1. ~job[v].alone
            BY <1>4, <1>8, <1>9, <2>2 DEF Meetings
        <3>. QED  BY <1>4, <1>6, <1>9, <1>10, <2>2, <3>1
    <2>. QED  BY <2>1, <2>2 DEF Meetings
<1>12. ConsumerAlone(d)'
    BY <1>3, <1>7 DEF ConsumerAlone
<1>13. ASSUME ~raced'[d]
       PROVE  /\ \A v \in Writers : On(v, d) => v = w
              /\ todo[d] = NoStatus
              /\ Shows(row'[d], job[w].copy)
              /\ row'[d].at = now \/ (row'[d] = row[d] /\ row[d] # NoStatus /\ ~raced[d])
    <2>1. job[w].alone
        BY <1>1, <1>6, <1>13
    <2>2. Fresh(job[w].copy, row[d]) /\ job[w].seen = row[d]
        BY <1>1, <1>8, <2>1 DEF ConsumerAlone, At
    <2>. QED  BY <1>2, <1>6, <1>10, <1>13, <2>1, <2>2
<1>14. OthersOrderly(d)'
    <2> SUFFICES ASSUME ~raced'[d]
                 PROVE  /\ ~On("http", d)' /\ ~On("sweep", d)'
                        /\ todo'[d] = NoStatus
                        /\ \A v \in Writers : On(v, d)' => Shows(row'[d], job'[v].copy)
        BY DEF OthersOrderly
    <2>1. \A v \in Writers : On(v, d)' => v = w
        BY <1>9, <1>13
    <2>. QED  BY <1>3, <1>4, <1>7, <1>13, <2>1 DEF Writers
<1>15. LastKept(d)'
    <2> SUFFICES ASSUME ~raced'[d]
                 PROVE  /\ row'[d] # NoStatus /\ row'[d].level = last'[d].level
                        /\ changedAt'[d] <= row'[d].at
                        /\ row'[d].status = last'[d].status
                        /\ (On(w, d) /\ At(w, "tell"))'
        BY <1>1 DEF LastKept
    <2>1. row'[d] # NoStatus /\ row'[d].at \in 0..MaxTime
        BY <1>2, NoStatusIsNone DEF Row
    <2>2. row'[d].level = last'[d].level /\ row'[d].status = last'[d].status
        BY <1>5, <1>13 DEF Shows
    <2>3. (On(w, d) /\ At(w, "tell"))'
        BY <1>3, <1>7 DEF On, At
    <2>4. CASE row'[d] = row[d]
        <3>1. changedAt'[d] = changedAt[d]
            BY <1>5, <2>4
        <3>2. CASE row'[d].at = now /\ raced[d]
            <4>1. changedAt[d] <= now
                BY <1>6, <1>13, <2>4, <3>2
            <4>. QED  BY <2>1, <2>2, <2>3, <3>1, <3>2, <4>1
        <3>3. CASE ~raced[d]
            <4>1. last[d] # NoReport => changedAt[d] <= row[d].at
                BY <1>8, <3>3 DEF LastKept
            <4>2. changedAt[d] <= row[d].at
                BY <1>8, <2>1, <2>4, <4>1
            <4>. QED  BY <2>1, <2>2, <2>3, <2>4, <3>1, <4>2
        <3>. QED  BY <1>6, <1>13, <2>4, <3>2, <3>3
    <2>5. CASE row'[d] # row[d]
        BY <1>2, <1>5, <1>13, <2>1, <2>2, <2>3, <2>5
    <2>. QED  BY <2>4, <2>5
<1>16. last'[d] # NoReport
    BY <1>5, NoStatusIsNone
<1>17. Orderly(d)'
    BY <1>11, <1>12, <1>14, <1>15, <1>16 DEF Orderly
<1>18. view' = view
    BY <1>4
<1>. QED  BY <1>1, <1>2, <1>3, <1>4, <1>5, <1>17, <1>18, MoveElsewhere

(* The sweep or the status request writes. *)
LEMMA OthersWrite ==
    ASSUME StatusInv, StatusSoFar, NEW w \in {"sweep", "http"}, NEW d \in Trackers, On(w, d),
           WriteRow(w)
    PROVE  StatusSoFar'
<1> USE ConstantsAssumption
<1> DEFINE j == IF w = "http" THEN NoSave ELSE [job[w] EXCEPT !.step = "tell"]
<1>1. w \in Writers /\ job[w] \in Job /\ job[w].dev = d /\ At(w, "write")
    BY WritersAre DEF WriteRow, On, Writers
<1>2. /\ job[w].copy \in Copy /\ now \in 0..MaxTime /\ row'[d] \in Row
      /\ job[w].seen = row[d] =>
            /\ Shows(row'[d], job[w].copy)
            /\ Fresh(job[w].copy, row[d]) =>
                  row'[d].at = now \/ (row'[d] = row[d] /\ row[d] # NoStatus)
      /\ \A e \in Trackers : e # d => row'[e] = row[e]
    BY <1>1, WritesTheCopy
<1>3. /\ j \in Job /\ (j = NoSave \/ j.dev = d)
      /\ w = "sweep" => j.step = "tell" /\ j.dev = d /\ j.copy = job[w].copy
                         /\ j.alone = job[w].alone
      /\ w = "http" => j = NoSave
    BY <1>1, NoStatusIsNone DEF Job
<1>4. /\ job' = [job EXCEPT ![w] = j]
      /\ UNCHANGED <<todo, view, now, last, changedAt, raced>>
    BY <1>1 DEF WriteRow, Remember, history
<1> HIDE DEF j
<1>5. job'[w] = j /\ \A v \in Writers : v # w => job'[v] = job[v]
    BY <1>1, <1>3, <1>4, OneSaveMoves DEF StatusInv
<1>6. /\ Meetings(d) /\ ConsumerAlone(d) /\ OthersOrderly(d) /\ LastKept(d)
      /\ last[d] = NoReport => changedAt[d] = 0
    BY DEF StatusSoFar, Orderly
<1>7. \A v \in Writers : On(v, d)' => On(v, d) /\ job'[v].alone = job[v].alone
    <2>1. ASSUME NEW v \in Writers, v # w, On(v, d)'
          PROVE  On(v, d) /\ job'[v].alone = job[v].alone
        BY <1>5, <2>1 DEF On
    <2>2. ASSUME On(w, d)' PROVE job'[w].alone = job[w].alone
        <3>1. w = "sweep"
            BY <1>3, <1>5, <2>2, NoDeviceIsNone DEF On, NoSave
        <3>. QED  BY <1>3, <1>5, <3>1
    <2>. QED  BY <2>1, <2>2
<1>8. Meetings(d)'
    BY <1>4, <1>6, <1>7 DEF Meetings
<1>9. ConsumerAlone(d)'
    <2>1. On("consumer", d)' => ~job'["consumer"].alone
        BY <1>1, <1>6, <1>7 DEF Meetings, Writers
    <2>. QED  BY <2>1 DEF ConsumerAlone
<1>10. ~raced[d] => todo[d] = NoStatus /\ \A v \in Writers : On(v, d) => v = w
    BY <1>1, <1>6 DEF Meetings
<1>11. ASSUME w = "http" PROVE Orderly(d)'
    <2>1. ~On(w, d)'
        BY <1>3, <1>5, <1>11, NoDeviceIsNone DEF On, NoSave
    <2>2. ~raced[d] => \A v \in Writers : ~On(v, d)'
        BY <1>7, <1>10, <2>1
    <2>3. OthersOrderly(d)'
        BY <1>4, <1>10, <2>2 DEF OthersOrderly, Writers
    <2>4. ~raced[d] => last[d] = NoReport
        BY <1>6, <1>11 DEF OthersOrderly, LastKept
    <2>5. LastKept(d)'
        BY <1>4, <2>4 DEF LastKept
    <2>. QED  BY <1>4, <1>6, <1>8, <1>9, <2>3, <2>5 DEF Orderly
<1>12. ASSUME w = "sweep" PROVE Orderly(d)'
    <2>1. ASSUME ~raced[d]
          PROVE  /\ Silent(row[d]) /\ job[w].copy = [row[d] EXCEPT !.status = "offline"]
                 /\ job[w].seen = row[d]
        BY <1>1, <1>6, <1>12, <2>1 DEF OthersOrderly, At
    <2>2. ASSUME ~raced[d]
          PROVE  /\ row[d] \in Row /\ row[d].status = "online"
                 /\ now - row[d].at > Timeout
                 /\ row'[d].status = "offline" /\ row'[d].level = row[d].level
                 /\ row'[d].at = now /\ Shows(row'[d], job[w].copy)
        <3>1. row[d] \in Row /\ row[d] # NoStatus
            BY <2>1, <2>2 DEF Silent, StatusInv, StatusTypeOK
        <3>2. /\ job[w].copy.status = "offline" /\ job[w].copy.level = row[d].level
              /\ job[w].copy.at = row[d].at
            BY <2>1, <2>2, <3>1 DEF Row
        <3>3. Fresh(job[w].copy, row[d]) /\ Shows(row'[d], job[w].copy)
            BY <1>2, <2>1, <2>2, <3>1, <3>2 DEF Fresh
        <3>4. row'[d].status = "offline" /\ row'[d].level = row[d].level
            BY <3>2, <3>3 DEF Shows
        <3>5. row[d].status = "online" /\ now - row[d].at > Timeout
            BY <2>1, <2>2 DEF Silent
        <3>. QED  BY <1>2, <2>1, <2>2, <3>1, <3>3, <3>4, <3>5
    <2>3. (On(w, d) /\ At(w, "tell"))' /\ job'[w].copy = job[w].copy
        BY <1>3, <1>5, <1>12 DEF On, At
    <2>4. OthersOrderly(d)'
        <3> SUFFICES ASSUME ~raced[d]
                     PROVE  /\ ~On("http", d)' /\ todo'[d] = NoStatus
                            /\ At("sweep", "tell")'
                            /\ \A v \in Writers : On(v, d)' => Shows(row'[d], job'[v].copy)
            BY <1>4 DEF OthersOrderly
        <3>1. \A v \in Writers : On(v, d)' => v = w
            BY <1>7, <1>10
        <3>. QED  BY <1>4, <1>10, <1>12, <2>2, <2>3, <3>1 DEF Writers
    <2>5. LastKept(d)'
        <3> SUFFICES ASSUME last[d] # NoReport, ~raced[d]
                     PROVE  /\ row'[d] # NoStatus /\ row'[d].level = last[d].level
                            /\ changedAt[d] <= row'[d].at
                            /\ last[d].status = "online" /\ row'[d].status = "offline"
                            /\ now - changedAt[d] > Timeout
                            /\ (On(w, d) /\ At(w, "tell"))'
            BY <1>1, <1>4 DEF LastKept
        <3>1. /\ row[d].level = last[d].level /\ changedAt[d] <= row[d].at
              /\ row[d].status = last[d].status \/ row[d].status = "offline"
            BY <1>6 DEF LastKept
        <3>2. changedAt[d] \in 0..MaxTime /\ row[d].at \in 0..MaxTime
            BY <2>2 DEF StatusInv, StatusTypeOK, Row
        <3>3. row'[d] # NoStatus
            BY <1>2, NoStatusIsNone
        <3>4. changedAt[d] <= row'[d].at /\ now - changedAt[d] > Timeout
            BY <1>2, <2>2, <3>1, <3>2
        <3>5. last[d].status = "online"
            BY <2>2, <3>1
        <3>. QED  BY <2>2, <2>3, <3>1, <3>3, <3>4, <3>5
    <2>. QED  BY <1>4, <1>6, <1>8, <1>9, <2>4, <2>5 DEF Orderly
<1>13. Orderly(d)'
    BY <1>11, <1>12
<1>14. UNCHANGED <<todo, now>> /\ \A e \in Trackers : e # d =>
               /\ row'[e] = row[e] /\ view'[e] = view[e] /\ last'[e] = last[e]
               /\ changedAt'[e] = changedAt[e] /\ raced'[e] = raced[e]
    BY <1>2, <1>4
<1>. QED  BY <1>1, <1>3, <1>4, <1>13, <1>14, MoveElsewhere

LEMMA StatusStepOrderly == StatusInv /\ StatusSoFar /\ [StatusNext]_statusVars => StatusSoFar'
<1>1. SUFFICES ASSUME StatusInv, StatusSoFar, [StatusNext]_statusVars PROVE StatusSoFar'
    OBVIOUS
<1>2. CASE \/ \E d \in Trackers, report \in Report : Upsert(d, report)
           \/ \E d \in Trackers : FindByDevice(d)
           \/ SweepStep
    BY <1>1, <1>2, ArrivalsOrderly
<1>3. ASSUME NEW w \in Writers, ~At(w, "idle") PROVE \E d \in Trackers : On(w, d)
    BY <1>1, <1>3, WritersAre
<1>4. ASSUME NEW w \in Writers, Load(w) PROVE StatusSoFar'
    BY <1>1, <1>3, <1>4, LoadOrderly DEF Load, At
<1>5. ASSUME NEW w \in Writers, WriteRow(w) PROVE StatusSoFar'
    <2>1. PICK d \in Trackers : On(w, d)
        BY <1>3, <1>5 DEF WriteRow, At
    <2>2. w \in {"sweep", "http"} \/ w = "consumer"
        BY DEF Writers
    <2>. QED  BY <1>1, <1>5, <2>1, <2>2, ConsumerWrites, OthersWrite
<1>6. ASSUME NEW w \in Writers, Broadcast(w) PROVE StatusSoFar'
    BY <1>1, <1>3, <1>6, BroadcastOrderly DEF Broadcast, At
<1>7. ASSUME NEW w \in Writers, SaveFails(w) \/ InsertConflicts(w) PROVE StatusSoFar'
    BY <1>1, <1>7, GivingUpOrderly DEF SaveFails, InsertConflicts, At
<1>8. CASE Tick
    BY <1>1, <1>8, TickOrderly
<1>9. CASE UNCHANGED statusVars
    <2>1. UNCHANGED <<row, job, todo, view, now, last, changedAt, raced, reports, saveFaults>>
        BY <1>9 DEF statusVars
    <2>2. StatusSoFar' = StatusSoFar
        BY <2>1 DEF StatusSoFar, Orderly, Meetings, ConsumerAlone, OthersOrderly, LastKept,
                    On, At, Silent
    <2>. QED  BY <1>1, <2>2
<1>. QED  BY <1>1, <1>2, <1>4, <1>5, <1>6, <1>7, <1>8, <1>9 DEF StatusNext, SaveStep

(* A saved heartbeat stays in the table until the sweep, rightly, takes the
   device offline, as long as no other writer overlapped it: upsert and
   sweepHeartbeats, for any devices, timeout and bounds. *)
THEOREM ReportsSurvive == StatusSpec => []ReportSurvives
<1>1. StatusInit => StatusInv /\ StatusSoFar
    BY StatusInitially
<1>2. StatusInv /\ StatusSoFar /\ [StatusNext]_statusVars => (StatusInv /\ StatusSoFar)'
    BY StatusStepTypes, StatusStepOrderly
<1>3. StatusSoFar => ReportSurvives
    BY DEF StatusSoFar, Orderly, LastKept, ReportSurvives
<1>. QED  BY <1>1, <1>2, <1>3, PTL DEF StatusSpec

(* When nobody is at a device whose heartbeats met no other writer, the status
   broadcast last is the one in the table. *)
THEOREM ClientsAreUpToDate == StatusSpec => []ClientsSeeTheRow
<1>1. StatusInit => StatusInv /\ StatusSoFar
    BY StatusInitially
<1>2. StatusInv /\ StatusSoFar /\ [StatusNext]_statusVars => (StatusInv /\ StatusSoFar)'
    BY StatusStepTypes, StatusStepOrderly
<1>3. StatusSoFar => ClientsSeeTheRow
    BY DEF StatusSoFar, Orderly, LastKept, ClientsSeeTheRow, Busy
<1>. QED  BY <1>1, <1>2, <1>3, PTL DEF StatusSpec
=============================================================================
