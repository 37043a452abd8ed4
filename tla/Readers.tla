------------------------------ MODULE Readers ------------------------------
(***************************************************************************)
(* What users read over HTTP: the lists of AlertsService, MediaLogsService, *)
(* GeofencesService, DeviceGroupsService, RoutePlansService, DeviceStatus-  *)
(* Service and TelemetryService, the rows they open from them, and the      *)
(* figures of the dashboard and the statistics page, while rows come and go *)
(* and roles change.  One step is one query; an answer may take several.    *)
(***************************************************************************)
EXTENDS Integers, FiniteSets

CONSTANTS
    Users,
    Readings,    \* requests served at a time
    Rows,        \* ids of rows, those of devices among them
    KindOf,      \* KindOf[r]: the table of r
    DeviceOf,    \* DeviceOf[r]: the device a row is about, or NoOne
    MakerOf,     \* MakerOf[r]: created_by, or owner_id of a device, plan or group
    Located,     \* media rows with coordinates
    Recent,      \* points of the last minute
    Silent,      \* devices without a status row
    NoOne,
    Stored,      \* the rows of the start
    Admins,      \* the administrators of the start
    MaxReads,    \* bound: requests made
    MaxChanges   \* bound: changes of rows, statuses and roles

Kinds == {"device", "alert", "media", "point", "plan", "zone", "group"}
Devices == {r \in Rows : KindOf[r] = "device"}

(* A plan copies the owner of its device, and rows about a device name one,
   which is there (foreign keys).  Ids of users and of rows do not mix: rooms
   are named user:<id> and device:<id>. *)
ASSUME RowsAssumption ==
    /\ KindOf \in [Rows -> Kinds] /\ MakerOf \in [Rows -> Users]
    /\ Stored \subseteq Rows /\ Recent \subseteq Rows /\ Located \subseteq Rows
    /\ \A r \in Rows : IF KindOf[r] \in {"zone", "group"} THEN DeviceOf[r] = NoOne
                        ELSE DeviceOf[r] \in Devices
    /\ \A r \in Rows : KindOf[r] = "plan" => MakerOf[r] = MakerOf[DeviceOf[r]]
    /\ \A r \in Rows : KindOf[r] = "device" => DeviceOf[r] = r
    /\ \A r \in Stored : KindOf[r] \notin {"zone", "group"} => DeviceOf[r] \in Stored
    /\ Users \cap Rows = {} /\ NoOne \notin Users \cup Rows /\ Admins \subseteq Users
    /\ MaxReads \in Nat /\ MaxChanges \in Nat

VARIABLES
    rows,      \* the rows that are there
    online,    \* the devices whose status row says online
    admin,     \* the users whose role is admin
    carried,   \* the users whose HTTP session says so: better-auth caches it
    reading,   \* reading[q]: the request in progress, or its answer
    reads, changes

readerVars == <<rows, online, admin, carried, reading, reads, changes>>

-----------------------------------------------------------------------------
(* The lists.  all: the administrator's form of the endpoint. *)
Of(kind) == {r \in rows : KindOf[r] = kind}
Owner(r) == MakerOf[DeviceOf[r]]

\* INNER JOIN of the device, with its owner.
ListAlerts(u, all) == {r \in Of("alert") : all \/ Owner(r) = u}
ListMedia(u, all) == {r \in Of("media") : all \/ Owner(r) = u}
ListPins(u, all) == {r \in Of("media") \cap Located : all \/ Owner(r) = u}
\* The user's form has every device, the administrator's every status row.
ListStatuses(u, all) ==
    IF all THEN Of("device") \ Silent ELSE {d \in Of("device") : MakerOf[d] = u}
\* DISTINCT ON (device_id): one point of each device that has any.
ListLatest(u, all) == {DeviceOf[r] : r \in {p \in Of("point") : all \/ Owner(p) = u}}
\* By the column of the row itself; groups have no administrator's form.
ListZones(u, all) == {r \in Of("zone") : all \/ MakerOf[r] = u}
\* Mutant of ListPlans: the list of the user is not filtered.
ListPlansAnyones(u, all) == Of("plan")
ListPlans(u, all) == {r \in Of("plan") : all \/ MakerOf[r] = u}
ListGroups(u) == {r \in Of("group") : MakerOf[r] = u}

Lists == {"alerts", "media", "pins", "statuses", "latest", "zones", "plans", "groups"}
List(k, u, all) ==
    CASE k = "alerts" -> ListAlerts(u, all)
      [] k = "media" -> ListMedia(u, all)
      [] k = "pins" -> ListPins(u, all)
      [] k = "statuses" -> ListStatuses(u, all)
      [] k = "latest" -> ListLatest(u, all)
      [] k = "zones" -> ListZones(u, all)
      [] k = "plans" -> ListPlans(u, all)
      [] k = "groups" -> ListGroups(u)

\* pins, statuses and latest are one query; the others count in a second one.
Paged == {"alerts", "media", "zones", "plans", "groups"}

-----------------------------------------------------------------------------
(* Opening a row: not there, not the reader's, or answered. *)
Judge(r, mine, all) ==
    IF r \notin rows THEN "missing" ELSE IF all \/ mine THEN "ok" ELSE "forbidden"

FindAlert(r, u, all) == Judge(r, Owner(r) = u, all)
FindMedia(r, u, all) == Judge(r, Owner(r) = u, all)
FindZone(r, u, all) == Judge(r, MakerOf[r] = u, all)
FindPlan(r, u, all) == Judge(r, MakerOf[r] = u, all)
FindDevice(r, u, all) == Judge(r, MakerOf[r] = u, all)
\* The owner is part of the WHERE: what is not the reader's is not there.
FindGroup(r, u) == IF r \in Of("group") /\ MakerOf[r] = u THEN "ok" ELSE "missing"

Find(r, u, all) ==
    CASE KindOf[r] = "alert" -> FindAlert(r, u, all)
      [] KindOf[r] = "media" -> FindMedia(r, u, all)
      [] KindOf[r] = "zone" -> FindZone(r, u, all)
      [] KindOf[r] = "plan" -> FindPlan(r, u, all)
      [] KindOf[r] = "device" -> FindDevice(r, u, all)
      [] KindOf[r] = "group" -> FindGroup(r, u)

\* What the second query of an opened row finds: the shape of a zone or plan,
\* the newest point of a device.
Detailed(r, list) ==
    IF list = "latest" THEN \E p \in Of("point") : DeviceOf[p] = r ELSE r \in rows

-----------------------------------------------------------------------------
(* The figures. *)
AlertStats(u) == ListAlerts(u, FALSE)
PointsOf(u) == {p \in Of("point") : Owner(p) = u}

\* Mutant of DashboardCount: online devices are counted without their owner.
DashboardCountAnyones(figure, u) ==
    CASE figure = "total" -> {d \in Of("device") : MakerOf[d] = u}
      [] figure = "online" -> Of("device") \cap online
      [] figure = "alerts" -> AlertStats(u)
      [] figure = "points" -> PointsOf(u)
      [] figure = "rate" -> PointsOf(u) \cap Recent

DashboardCount(figure, u) ==
    CASE figure = "total" -> {d \in Of("device") : MakerOf[d] = u}
      [] figure = "online" -> {d \in Of("device") \cap online : MakerOf[d] = u}
      [] figure = "alerts" -> AlertStats(u)
      [] figure = "points" -> PointsOf(u)
      [] figure = "rate" -> PointsOf(u) \cap Recent

OverviewCount(figure) ==
    CASE figure = "total" -> Of("device")
      [] figure = "online" -> online
      [] figure = "alerts" -> Of("alert")

Figures(op) == IF op = "dashboard" THEN {"total", "online", "alerts", "points", "rate"}
               ELSE {"total", "online", "alerts"}

-----------------------------------------------------------------------------
(* A request: its queries still to come, what they found so far, the rows that
   came or went since it, or the list it opens a row of, began; turned: its
   user's role changed since then. *)
Shown == {"rows", "total", "online", "alerts", "points", "rate"}
Nothing == [f \in Shown |-> {}]
NoReading == [op |-> "none", user |-> NoOne, all |-> FALSE, list |-> "none", todo |-> {},
              got |-> Nothing, row |-> NoOne, outcome |-> "none", moved |-> {},
              turned |-> FALSE]

Reading == [op : {"none", "list", "dashboard", "overview", "open"}, user : Users \cup {NoOne},
            all : BOOLEAN, list : Lists \cup {"none"}, todo : SUBSET (Shown \cup {"find", "detail"}),
            got : [Shown -> SUBSET Rows], row : Rows \cup {NoOne},
            outcome : {"none", "ok", "missing", "forbidden", "empty"},
            moved : SUBSET Rows, turned : BOOLEAN]

ReaderTypeOK ==
    /\ rows \subseteq Rows /\ online \subseteq Devices
    /\ admin \subseteq Users /\ carried \subseteq Users
    /\ reading \in [Readings -> Reading]
    /\ reads \in 0..MaxReads /\ changes \in 0..MaxChanges

ReaderInit ==
    /\ rows = Stored /\ online = {}
    /\ admin = Admins /\ carried = Admins
    /\ reading = [q \in Readings |-> NoReading]
    /\ reads = 0 /\ changes = 0

Answered(q) == reading[q].op # "none" /\ reading[q].todo = {}

\* A request may begin when the slot is free or its answer has been shown.
Begin(q, r) ==
    /\ reading[q].todo = {} /\ reads < MaxReads
    /\ reads' = reads + 1
    /\ reading' = [reading EXCEPT ![q] = r]
    /\ UNCHANGED <<rows, online, admin, carried, changes>>

\* The administrators' endpoints are guarded by the role the session carries.
AskList(q, u, k, all) ==
    /\ all => u \in carried /\ k # "groups"
    /\ k = "pins" => all = (u \in carried)
    /\ Begin(q, [NoReading EXCEPT !.op = "list", !.user = u, !.all = all, !.list = k,
                    !.todo = IF k \in Paged THEN {"rows", "total"} ELSE {"rows"}])

AskDashboard(q, u) ==
    Begin(q, [NoReading EXCEPT !.op = "dashboard", !.user = u, !.todo = Figures("dashboard")])

AskOverview(q, u) ==
    /\ u \in carried
    /\ Begin(q, [NoReading EXCEPT !.op = "overview", !.user = u, !.all = TRUE,
                    !.todo = Figures("overview")])

\* A row of the list that was shown is opened, with the role the session
\* carries now.
AskRow(q, r) ==
    /\ Answered(q) /\ reading[q].op = "list" /\ r \in reading[q].got["rows"]
    /\ Begin(q, [reading[q] EXCEPT !.op = "open", !.row = r, !.got = Nothing,
                    !.all = reading[q].user \in carried, !.todo = {"find"}])

Found(q, figure, found) ==
    /\ figure \in reading[q].todo
    /\ reading' = [reading EXCEPT ![q].todo = @ \ {figure}, ![q].got[figure] = found]
    /\ UNCHANGED <<rows, online, admin, carried, reads, changes>>

\* The page first, then its total.
ListQuery(q, figure) ==
    /\ reading[q].op = "list"
    /\ figure = "total" => "rows" \notin reading[q].todo
    /\ Found(q, figure, List(reading[q].list, reading[q].user, reading[q].all))

\* Promise.all: the counts reach the database in any order.
FigureQuery(q, figure) ==
    \/ /\ reading[q].op = "dashboard"
       /\ Found(q, figure, DashboardCount(figure, reading[q].user))
    \/ /\ reading[q].op = "overview"
       /\ Found(q, figure, OverviewCount(figure))

Ends(q, outcome) == reading' = [reading EXCEPT ![q].todo = {}, ![q].outcome = outcome]

RowQuery(q) ==
    LET r == reading[q].row
        outcome == Find(r, reading[q].user, reading[q].all) IN
    /\ reading[q].todo = {"find"}
    /\ IF outcome = "ok" /\ KindOf[r] \in {"zone", "plan", "device"}
       THEN reading' = [reading EXCEPT ![q].todo = {"detail"}]
       ELSE Ends(q, outcome)
    /\ UNCHANGED <<rows, online, admin, carried, reads, changes>>

DetailQuery(q) ==
    /\ reading[q].todo = {"detail"}
    /\ Ends(q, IF Detailed(reading[q].row, reading[q].list) THEN "ok" ELSE "empty")
    /\ UNCHANGED <<rows, online, admin, carried, reads, changes>>

-----------------------------------------------------------------------------
(* What changes meanwhile, by the other parts of the system. *)
Change == changes < MaxChanges /\ changes' = changes + 1
Under(q) == reading[q].todo # {} \/ reading[q].op = "list"
Moved(S) == reading' = [q \in Readings |->
                IF Under(q) THEN [reading[q] EXCEPT !.moved = @ \cup S] ELSE reading[q]]

\* Alerts are stored by the consumers (Viewers).
Add(r) ==
    /\ r \notin rows \cup Stored /\ KindOf[r] # "alert" /\ Change
    /\ KindOf[r] \notin {"zone", "group", "device"} => DeviceOf[r] \in rows
    /\ rows' = rows \cup {r}
    /\ Moved({r})
    /\ UNCHANGED <<online, admin, carried, reads>>

\* The rows users can delete; ON DELETE CASCADE takes what is about a device.
Remove(r) ==
    LET S == {r} \cup {o \in rows : KindOf[r] = "device" /\ DeviceOf[o] = r} IN
    /\ r \in rows /\ KindOf[r] \in {"device", "plan", "zone", "group"} /\ Change
    /\ rows' = rows \ S /\ online' = online \ S
    /\ Moved(S)
    /\ UNCHANGED <<admin, carried, reads>>

Report(d) ==
    /\ d \in Of("device") \ Silent /\ Change
    /\ online' = IF d \in online THEN online \ {d} ELSE online \cup {d}
    /\ UNCHANGED <<rows, admin, carried, reading, reads>>

SetRole(u) ==
    /\ Change
    /\ admin' = IF u \in admin THEN admin \ {u} ELSE admin \cup {u}
    /\ UNCHANGED <<rows, online, carried, reading, reads>>

\* The session is renewed from the database.
RenewSession(u) ==
    /\ (u \in carried) # (u \in admin)
    /\ carried' = IF u \in admin THEN carried \cup {u} ELSE carried \ {u}
    /\ reading' = [q \in Readings |->
          IF Under(q) /\ reading[q].user = u
          THEN [reading[q] EXCEPT !.turned = TRUE] ELSE reading[q]]
    /\ UNCHANGED <<rows, online, admin, reads, changes>>

ReaderStep ==
    \/ \E q \in Readings :
          \/ \E u \in Users :
                \/ \E k \in Lists, all \in BOOLEAN : AskList(q, u, k, all)
                \/ AskDashboard(q, u) \/ AskOverview(q, u)
          \/ \E r \in Rows : AskRow(q, r)
          \/ \E f \in reading[q].todo : ListQuery(q, f) \/ FigureQuery(q, f)
          \/ RowQuery(q) \/ DetailQuery(q)
Surroundings ==
    \/ \E r \in Rows : Add(r) \/ Remove(r)
    \/ \E d \in Devices : Report(d)
    \/ \E u \in Users : SetRole(u) \/ RenewSession(u)

-----------------------------------------------------------------------------
(* A row a list showed opens: each list selects by the column its detail
   endpoint judges by, in queries written separately, so that a row is refused
   or empty only when it came, went or the reader's role changed since the list
   was asked for. *)
WhatIsListedOpens ==
    \A q \in Readings :
        Answered(q) /\ reading[q].op = "open" /\ ~reading[q].turned =>
            reading[q].outcome = "ok" \/ reading[q].row \in reading[q].moved

(* The figures of one answer agree although separate queries read them: the
   total of a list is of its rows, the online devices are among all devices and
   the points of the last minute among all points, except for rows that came or
   went between the queries (dashboard.service.ts:31-82, geofences.service.ts:126-151). *)
FiguresAgree ==
    \A q \in Readings : Answered(q) =>
        LET got == reading[q].got
            moved == reading[q].moved IN
        /\ reading[q].op = "list" /\ reading[q].list \in Paged =>
              (got["rows"] \ got["total"]) \cup (got["total"] \ got["rows"]) \subseteq moved
        /\ reading[q].op \in {"dashboard", "overview"} =>
              /\ got["online"] \ got["total"] \subseteq moved
              /\ {DeviceOf[a] : a \in got["alerts"]} \ got["total"] \subseteq moved
              /\ got["rate"] \ got["points"] \subseteq moved
=============================================================================
