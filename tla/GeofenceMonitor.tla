-------------------------- MODULE GeofenceMonitor --------------------------
(***************************************************************************)
(* Geofence monitoring of one device (devices share no state here):         *)
(* TelemetryConsumer.checkGeofenceViolation and, within it,                 *)
(* GeofencesService.evaluateGeofenceTransitions.  A check is started for    *)
(* every stored point and not awaited, so the checks of successive points   *)
(* interleave at each database or Redis call.                               *)
(***************************************************************************)
EXTENDS Naturals, Sequences, FiniteSets

CONSTANTS
    Geofences,
    Zone,          \* Zone[g]: the type g is created with
    Checks,        \* slots: how many checks may be in flight at once
    CooldownTTL,   \* GEOFENCE_COOLDOWN_SECONDS, in ticks
    MaxPoints,     \* bound: telemetry points
    MaxEdits,      \* bound: assignments, unassignments, new types and polygons
    MaxFaults,     \* bound: failed calls to Redis or PostgreSQL
    MaxRestarts    \* bound: restarts of the backend

ZoneTypes == {"ALLOWED_ZONE", "FORBIDDEN_ZONE"}

ASSUME ConstantsAssumption ==
    /\ IsFiniteSet(Geofences)
    /\ IsFiniteSet(Checks)
    /\ Zone \in [Geofences -> ZoneTypes]
    /\ CooldownTTL \in Nat \ {0}
    /\ MaxPoints \in Nat
    /\ MaxEdits \in Nat
    /\ MaxFaults \in Nat
    /\ MaxRestarts \in Nat

VARIABLES
    points,      \* points[i]: the geofences point i lies in, by the polygons its check finds
    assigned,    \* device_geofence: geofences assigned to the device
    zone,        \* zone[g]: the geofence's type
    geom,        \* geom[g]: the geofence has its polygon
    state,       \* state[g]: the row of geofence_device_state
    cooldown,    \* cooldown[a]: time left of the key <alertType>:<device>:<g>
    chk,         \* chk[c]: the check in slot c
    alerts,      \* alerts[a]: points at which the alert was created
    suppressed,  \* suppressed[a]: points whose alert a cooldown held back
    since,       \* history: the point whose check last changed the row
    excused,     \* history: geofences whose row need not be answered
    edits, faults, restarts

data == <<points, assigned, zone, geom>>
row == <<state, since, excused>>
outcome == <<cooldown, alerts, suppressed>>
bounds == <<edits, faults, restarts>>
vars == <<points, assigned, zone, geom, state, cooldown, chk, alerts, suppressed,
          since, excused, edits, faults, restarts>>

-----------------------------------------------------------------------------
Presence == {"INSIDE", "OUTSIDE"}

AlertTypes == {"GEOFENCE_EXIT", "GEOFENCE_ENTRY"}

\* A violation of evaluateGeofenceTransitions: its alert type and its geofence.
Violations == AlertTypes \X Geofences

\* isViolation and alertType: an allowed zone is violated outside of it, a
\* forbidden zone inside.
AlertOf(type) == IF type = "ALLOWED_ZONE" THEN "GEOFENCE_EXIT" ELSE "GEOFENCE_ENTRY"
SideOf(alertType) == IF alertType = "GEOFENCE_EXIT" THEN "OUTSIDE" ELSE "INSIDE"

Calls == {"idle", "query", "previous", "find", "save", "getCooldown",
          "create", "setCooldown"}

\* A check in flight: its point, what the query said of the rows (the geofences
\* it is inside, the forbidden ones), the rows still to visit, the row it is at
\* (cur), what it read of that row (prev, exists) and its violations.
Check == [call : Calls, point : Nat, inside : SUBSET Geofences,
          forbidden : SUBSET Geofences, todo : SUBSET Geofences,
          cur : Geofences \cup {"none"}, prev : Presence \cup {"none"},
          exists : BOOLEAN, viol : Seq(Violations)]

Idle == [call |-> "idle", point |-> 0, inside |-> {}, forbidden |-> {}, todo |-> {},
         cur |-> "none", prev |-> "none", exists |-> FALSE, viol |-> <<>>]

At(c, k) == chk[c].call = k

PresenceIn(inside, g) == IF g \in inside THEN "INSIDE" ELSE "OUTSIDE"

TypeRead(k, g) == IF g \in k.forbidden THEN "FORBIDDEN_ZONE" ELSE "ALLOWED_ZONE"

Init ==
    /\ points = <<>>
    /\ assigned = Geofences
    /\ zone = Zone
    /\ geom = [g \in Geofences |-> TRUE]
    /\ state = [g \in Geofences |-> "none"]
    /\ cooldown = [a \in Violations |-> 0]
    /\ chk = [c \in Checks |-> Idle]
    /\ alerts = [a \in Violations |-> {}]
    /\ suppressed = [a \in Violations |-> {}]
    /\ since = [g \in Geofences |-> 0]
    /\ excused = {}
    /\ edits = 0 /\ faults = 0 /\ restarts = 0

-----------------------------------------------------------------------------
(* What may leave a row without its answer.  These definitions feed the history
   variable `excused' only. *)

\* The rows a check has read in its query and not saved yet.
Ahead(k) == k.todo \cup (IF k.call \in {"find", "save"} THEN {k.cur} ELSE {})

\* The check has not stored its presence at g: it has yet to run its query, or
\* to reach the row.
Sees(k, g) == k.call = "query" \/ g \in Ahead(k)

\* Some check is going to say where point n was with respect to g.
StillToSee(g, n) == \E c \in Checks : chk[c].point = n /\ Sees(chk[c], g)

\* The row says something else than point n, which is not older than the row.
Differs(g, n) == since[g] <= n /\ PresenceIn(points[n], g) # state[g]

\* The check found what its row now says, and has raised no alert of it.
Owes(k, g) ==
    /\ k.point = since[g]
    /\ \E n \in 1..Len(k.viol) :
          k.viol[n][2] = g /\ (n = 1 => k.call # "setCooldown")

\* What is lost when the check is cut short: the rows it has not stored, the
\* answers it owes.
Lost(k) ==
    {g \in Geofences : (Sees(k, g) /\ Differs(g, k.point)) \/ Owes(k, g)}

\* The check changes the row to a presence nobody has to be told of again:
\* it read the row before another check changed it, so the change is no news;
\* or with another type than the geofence has now; or its presence is older
\* than one already stored or skipped.
Overtaken(k, g) ==
    LET presence == PresenceIn(k.inside, g) IN
    \/ k.prev = presence
    \/ zone[g] # TypeRead(k, g)
    \/ \E n \in k.point + 1 .. Len(points) :
          ~StillToSee(g, n) /\ PresenceIn(points[n], g) # presence

-----------------------------------------------------------------------------
\* The device reports a point inside exactly the geofences `where`; handleBatch
\* stored it and starts its check.
StartCheck(c, where) ==
    /\ At(c, "idle")
    /\ Len(points) < MaxPoints
    /\ points' = Append(points, where)
    /\ chk' = [chk EXCEPT ![c] = [Idle EXCEPT !.call = "query", !.point = Len(points) + 1]]
    /\ UNCHANGED <<assigned, zone, geom, row, outcome, bounds>>

\* Mutant of Query: the device's newest position instead of the point's.
QueryNewest(c) ==
    /\ At(c, "query")
    /\ chk' = [chk EXCEPT ![c] =
          IF assigned = {} THEN Idle
          ELSE [@ EXCEPT !.call = "previous", !.todo = assigned,
                         !.inside = {g \in assigned \cap points[Len(points)] : geom[g]},
                         !.forbidden = {g \in assigned : zone[g] = "FORBIDDEN_ZONE"}]]
    /\ excused' = excused \cup {g \in Geofences \ assigned : Differs(g, chk[c].point)}
    /\ UNCHANGED <<data, state, since, outcome, bounds>>

\* The spatial query: one row per assigned geofence, with its type.  ST_Within
\* of a missing polygon is NULL, which the code reads as outside.  An
\* unassigned geofence keeps its row, whatever the point says of it.
Query(c) ==
    /\ At(c, "query")
    /\ chk' = [chk EXCEPT ![c] =
          IF assigned = {} THEN Idle
          ELSE [@ EXCEPT !.call = "previous", !.todo = assigned,
                         !.inside = {g \in assigned \cap points[chk[c].point] : geom[g]},
                         !.forbidden = {g \in assigned : zone[g] = "FORBIDDEN_ZONE"}]]
    /\ excused' = excused \cup {g \in Geofences \ assigned : Differs(g, chk[c].point)}
    /\ UNCHANGED <<data, state, since, outcome, bounds>>

\* getPreviousState of the next row; the query orders its rows in no way.
ReadPrevious(c, g) ==
    /\ At(c, "previous")
    /\ g \in chk[c].todo
    /\ chk' = [chk EXCEPT ![c] = [@ EXCEPT !.call = "find", !.cur = g,
                                           !.todo = chk[c].todo \ {g}, !.prev = state[g]]]
    /\ UNCHANGED <<data, row, outcome, bounds>>

\* saveCurrentState looks the row up ...
FindState(c) ==
    /\ At(c, "find")
    /\ chk' = [chk EXCEPT ![c].call = "save", ![c].exists = state[chk[c].cur] # "none"]
    /\ UNCHANGED <<data, row, outcome, bounds>>

\* Mutant of Judged: the first observation never counts as a new violation.
JudgedNotFirst(k) ==
    LET presence == PresenceIn(k.inside, k.cur)
        alertType == AlertOf(TypeRead(k, k.cur)) IN
    IF presence = SideOf(alertType) /\ k.prev \notin {"none", presence}
    THEN Append(k.viol, <<alertType, k.cur>>) ELSE k.viol

\* Mutant of Judged: every violation counts as new.
JudgedAlways(k) ==
    LET alertType == AlertOf(TypeRead(k, k.cur)) IN
    IF PresenceIn(k.inside, k.cur) = SideOf(alertType)
    THEN Append(k.viol, <<alertType, k.cur>>) ELSE k.viol

\* The violations collected once the row at hand is judged: a violation is new
\* when the row's previous presence differs.
Judged(k) ==
    LET presence == PresenceIn(k.inside, k.cur)
        alertType == AlertOf(TypeRead(k, k.cur)) IN
    IF presence = SideOf(alertType) /\ k.prev # presence
    THEN Append(k.viol, <<alertType, k.cur>>) ELSE k.viol

\* Mutant of Onward: only the last row's violation is kept.
OnwardLast(k, v) ==
    IF k.todo # {} THEN [k EXCEPT !.call = "previous"]
    ELSE IF v # <<>> THEN [k EXCEPT !.call = "getCooldown", !.viol = v]
    ELSE Idle

\* Where the check goes with violations v: the next row, the alerts, the end.
\* What it knew of the row is of no use any more.
Onward(k, v) ==
    LET done == [k EXCEPT !.cur = "none", !.prev = "none", !.exists = FALSE, !.viol = v,
                          !.inside = @ \cap k.todo, !.forbidden = @ \cap k.todo] IN
    IF k.todo # {} THEN [done EXCEPT !.call = "previous"]
    ELSE IF v # <<>> THEN [done EXCEPT !.call = "getCooldown"]
    ELSE Idle

\* ... and writes it.
SaveState(c) ==
    LET g == chk[c].cur
        presence == PresenceIn(chk[c].inside, g) IN
    /\ At(c, "save")
    /\ state' = [state EXCEPT ![g] = presence]
    /\ IF state[g] = presence
       THEN UNCHANGED <<since, excused>>
       ELSE /\ since' = [since EXCEPT ![g] = chk[c].point]
            /\ excused' = IF Overtaken(chk[c], g) THEN excused \cup {g} ELSE excused \ {g}
    /\ chk' = [chk EXCEPT ![c] = Onward(@, Judged(@))]
    /\ UNCHANGED <<data, outcome, bounds>>

\* Two first INSERTs of the same (device, geofence) key: the later one fails
\* and the whole check is abandoned.
SaveConflicts(c) ==
    /\ At(c, "save")
    /\ ~chk[c].exists
    /\ state[chk[c].cur] # "none"
    /\ chk' = [chk EXCEPT ![c] = Idle]
    /\ excused' = excused \cup Lost(chk[c])
    /\ UNCHANGED <<data, state, since, outcome, bounds>>

\* The check of the first collected violation is over.
NextViolation(k) ==
    IF Tail(k.viol) = <<>> THEN Idle
    ELSE [k EXCEPT !.call = "getCooldown", !.viol = Tail(@)]

GetCooldown(c) ==
    LET a == Head(chk[c].viol) IN
    /\ At(c, "getCooldown")
    /\ IF cooldown[a] > 0
       THEN /\ suppressed' = [suppressed EXCEPT ![a] = @ \cup {chk[c].point}]
            /\ chk' = [chk EXCEPT ![c] = NextViolation(@)]
       ELSE /\ UNCHANGED suppressed
            /\ chk' = [chk EXCEPT ![c].call = "create"]
    /\ UNCHANGED <<data, row, cooldown, alerts, bounds>>

CreateAlert(c) ==
    LET a == Head(chk[c].viol) IN
    /\ At(c, "create")
    /\ alerts' = [alerts EXCEPT ![a] = @ \cup {chk[c].point}]
    /\ chk' = [chk EXCEPT ![c].call = "setCooldown"]
    /\ UNCHANGED <<data, row, cooldown, suppressed, bounds>>

SetCooldown(c) ==
    LET a == Head(chk[c].viol) IN
    /\ At(c, "setCooldown")
    /\ cooldown' = [cooldown EXCEPT ![a] = CooldownTTL]
    /\ chk' = [chk EXCEPT ![c] = NextViolation(@)]
    /\ UNCHANGED <<data, row, alerts, suppressed, bounds>>

-----------------------------------------------------------------------------
\* A call throws and the check's catch block ends it; only the cooldown's get
\* swallows its error and answers "no key".
CallFails(c) ==
    /\ ~At(c, "idle")
    /\ faults < MaxFaults
    /\ faults' = faults + 1
    /\ IF At(c, "getCooldown")
       THEN chk' = [chk EXCEPT ![c].call = "create"] /\ UNCHANGED excused
       ELSE chk' = [chk EXCEPT ![c] = Idle] /\ excused' = excused \cup Lost(chk[c])
    /\ UNCHANGED <<data, state, since, outcome, edits, restarts>>

\* assignDevice and removeDevice; the state row of the pair stays.
Assign(g) ==
    /\ edits < MaxEdits
    /\ edits' = edits + 1
    /\ assigned' = IF g \in assigned THEN assigned \ {g} ELSE assigned \cup {g}
    /\ UNCHANGED <<points, zone, geom, row, chk, outcome, faults, restarts>>

\* update saves the other type (asked for, or the one its copy of the row was
\* loaded with).  The state rows stay: a presence that was no violation and now
\* is one is still the previous presence of the next check.
Retype(g) ==
    /\ edits < MaxEdits
    /\ edits' = edits + 1
    /\ zone' = [zone EXCEPT ![g] = IF @ = "ALLOWED_ZONE" THEN "FORBIDDEN_ZONE"
                                                        ELSE "ALLOWED_ZONE"]
    /\ excused' = excused \cup {g}
    /\ UNCHANGED <<points, assigned, geom, state, since, chk, outcome, faults, restarts>>

\* update writes a new polygon, after the save.
Redraw(g) ==
    /\ edits < MaxEdits
    /\ edits' = edits + 1
    /\ geom' = [geom EXCEPT ![g] = TRUE]
    /\ UNCHANGED <<points, assigned, zone, row, chk, outcome, faults, restarts>>

\* The backend restarts: pending checks are gone and TelemetryService's
\* onModuleInit drops the postgis extension with CASCADE, so every polygon is
\* lost and the column comes back empty (or the role may not drop it).
Restart ==
    /\ restarts < MaxRestarts
    /\ restarts' = restarts + 1
    /\ chk' = [c \in Checks |-> Idle]
    /\ \/ geom' = [g \in Geofences |-> FALSE]
       \/ UNCHANGED geom
    /\ excused' = excused \cup UNION {Lost(chk[c]) : c \in Checks}
    /\ UNCHANGED <<points, assigned, zone, state, since, outcome, edits, faults>>

\* Time passes and Redis (external) expires keys.
Tick ==
    /\ \E a \in Violations : cooldown[a] > 0
    /\ cooldown' = [a \in Violations |-> IF cooldown[a] > 0 THEN cooldown[a] - 1 ELSE 0]
    /\ UNCHANGED <<data, row, chk, alerts, suppressed, bounds>>

CheckStep(c) ==
    \/ Query(c)
    \/ \E g \in Geofences : ReadPrevious(c, g)
    \/ FindState(c) \/ SaveState(c) \/ SaveConflicts(c)
    \/ GetCooldown(c) \/ CreateAlert(c) \/ SetCooldown(c)

Next ==
    \/ \E c \in Checks, where \in SUBSET Geofences : StartCheck(c, where)
    \/ \E c \in Checks : CheckStep(c) \/ CallFails(c)
    \/ \E g \in Geofences : Assign(g) \/ Retype(g) \/ Redraw(g)
    \/ Restart
    \/ Tick

Spec == Init /\ [][Next]_vars

-----------------------------------------------------------------------------
\* Every variable keeps its shape.
TypeOK ==
    /\ points \in Seq(SUBSET Geofences)
    /\ assigned \subseteq Geofences
    /\ zone \in [Geofences -> ZoneTypes]
    /\ geom \in [Geofences -> BOOLEAN]
    /\ state \in [Geofences -> Presence \cup {"none"}]
    /\ cooldown \in [Violations -> 0..CooldownTTL]
    /\ chk \in [Checks -> Check]
    /\ alerts \in [Violations -> SUBSET (1..MaxPoints)]
    /\ suppressed \in [Violations -> SUBSET (1..MaxPoints)]
    /\ since \in [Geofences -> Nat]
    /\ excused \subseteq Geofences
    /\ edits \in 0..MaxEdits
    /\ faults \in 0..MaxFaults
    /\ restarts \in 0..MaxRestarts

\* Whether the device really is, at point i, where the violation says.
Violates(a, i) == PresenceIn(points[i], a[2]) = SideOf(a[1])

\* Points whose check has found the violation and not answered it yet.
Pending(a) ==
    {chk[c].point : c \in {k \in Checks :
        \E n \in 1..Len(chk[k].viol) : chk[k].viol[n] = a}}

Answered(a) == alerts[a] \cup suppressed[a] \cup Pending(a)

(* The comment of the zone rules: an allowed zone alerts when the device is
   outside, a forbidden zone when it is inside. *)
AlertsAreTrue == \A a \in Violations : \A i \in alerts[a] : Violates(a, i)

(* However checks, edits and failures interleave, an alert is true of the point
   it was raised at: an entry always, an exit as long as the backend was not
   restarted (a boot drops the polygons and then the device is outside of
   everything). *)
FalseAlertsNeedARestart ==
    \A a \in Violations : \A i \in alerts[a] :
        a[1] = "GEOFENCE_ENTRY" \/ restarts = 0 => Violates(a, i)

\* The violation the row stands for, if it is one.
Stored(g) == <<AlertOf(zone[g]), g>>

(* A row with a violating presence has been answered at the point that changed
   it: by an alert, by a cooldown, or by a check still under way; and every
   later point was on the same side, or its check has still to say so.  The
   causes that break it are named by `excused': a check cut short (presences
   are stored before the alerts), a check that overtakes or is overtaken by
   another, a point the device crossed the fence at while it was not assigned,
   and a change of type, which no presence reports. *)
ViolationIsAnswered ==
    \A g \in Geofences :
        state[g] = SideOf(Stored(g)[1]) /\ g \notin excused =>
            /\ since[g] \in Answered(Stored(g))
            /\ restarts = 0 =>
                  \A n \in since[g]..Len(points) :
                      StillToSee(g, n) \/ PresenceIn(points[n], g) = state[g]

(* A live cooldown key stands for an alert of its kind and geofence, so nothing
   is held back before a first alert. *)
SuppressionHasAnAlert ==
    \A a \in Violations :
        (cooldown[a] > 0 \/ suppressed[a] # {}) => alerts[a] # {}

(* "Only returns NEW violations ... avoids repeating the alert while the device
   stays in the same violating state": between two alerts of the same kind and
   geofence there is a point at which the device was on the other side. *)
OneAlertPerStay ==
    \A a \in Violations : \A i, j \in alerts[a] :
        i < j => \E n \in i..j : ~Violates(a, n)

\* The type the next presence stored for g is judged with.
TypeInUse(g) ==
    IF \E c \in Checks : g \in Ahead(chk[c])
    THEN IF \E c \in Checks : g \in Ahead(chk[c]) /\ g \in chk[c].forbidden
         THEN "FORBIDDEN_ZONE" ELSE "ALLOWED_ZONE"
    ELSE zone[g]

(* Served one check at a time the program is the edge-triggered monitor of
   GeofenceEdge: points in order, an answer at exactly the edges. *)
Edge == INSTANCE GeofenceEdge WITH
    zone <- [g \in Geofences |-> TypeInUse(g)],
    seen <- state, last <- since, raised <- [a \in Violations |-> Answered(a)]
ImplementsEdge == Edge!Spec
=============================================================================
