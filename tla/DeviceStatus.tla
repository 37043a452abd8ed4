---------------------------- MODULE DeviceStatus ----------------------------
(***************************************************************************)
(* The device_status table and the three that write it: the heartbeat      *)
(* consumer (DeviceStatusConsumer, one message at a time), the sweep of    *)
(* OfflineDetectorService, and GET /devices/:id/status, which stores a     *)
(* default row when it finds none.                                         *)
(*                                                                         *)
(* Each of them reads a row, changes its copy and calls TypeORM's save.    *)
(* save reads the row again and then writes: an INSERT when it saw no row, *)
(* otherwise an UPDATE of the columns in which the copy differs from what it*)
(* saw, and nothing when none differs.  updated_at becomes the time of the *)
(* write unless the copy's own stamp is one of the columns that differ.    *)
(*                                                                         *)
(* One sweep and one status request are under way at a time: a sweep that  *)
(* outlives the 60 s interval, and several backends, are left out.         *)
(***************************************************************************)
EXTENDS Naturals, FiniteSets

CONSTANTS
    Trackers,     \* the devices, each with at most one row
    Levels,       \* the data of a heartbeat next to its status; 0 in the default row
    Timeout,      \* the five minutes of sweepHeartbeats, in ticks
    MaxTime,      \* bound: the last instant of the clock
    MaxReports,   \* bound: heartbeats received
    MaxSaveFaults \* bound: failed saves

ASSUME ConstantsAssumption ==
    /\ IsFiniteSet(Trackers)
    /\ Levels \subseteq Nat
    /\ 0 \in Levels
    /\ Timeout \in Nat
    /\ MaxTime \in Nat
    /\ MaxReports \in Nat
    /\ MaxSaveFaults \in Nat

Statuses == {"online", "offline", "maintenance"}
Writers == {"consumer", "sweep", "http"}
Report == [status : Statuses, level : Levels]

Unset == MaxTime + 1      \* the stamp of a copy that create() made: undefined
NoDevice == "none"
NoReport == [status |-> "none", level |-> 0]
NoStatus == [status |-> "none", level |-> 0, at |-> Unset]

Row == [status : Statuses, level : Levels, at : 0..MaxTime]
Copy == [status : Statuses, level : Levels, at : 0..Unset]

ASSUME NoDeviceIsNone == NoDevice \notin Trackers

VARIABLES
    row,        \* row[d]: the device's row of device_status
    job,        \* job[w]: the save writer w has under way
    todo,       \* todo[d]: the copy sweepHeartbeats still has to save
    view,       \* view[d]: the last status broadcast to the clients
    now,
    last,       \* last[d]: the last heartbeat upsert saved
    changedAt,  \* changedAt[d]: when a heartbeat last changed the row
    raced,      \* raced[d]: writers overlapped since a heartbeat last changed the row
    reports, saveFaults

history == <<last, changedAt, raced>>
statusVars == <<row, job, todo, view, now, last, changedAt, raced, reports, saveFaults>>

-----------------------------------------------------------------------------
Job == [step : {"idle", "load", "write", "tell"}, dev : Trackers \union {NoDevice},
        copy : Copy \union {NoStatus}, seen : Row \union {NoStatus}, alone : BOOLEAN]

\* No save under way; `alone` says that no other writer came to the device.
NoSave == [step |-> "idle", dev |-> NoDevice, copy |-> NoStatus, seen |-> NoStatus,
           alone |-> TRUE]

At(w, s) == job[w].step = s
On(w, d) == job[w].dev = d

\* A writer holds a copy of d's row.
Busy(d) == todo[d] # NoStatus \/ \E w \in Writers : On(w, d)

Shows(r, report) == r.status = report.status /\ r.level = report.level

\* The find of sweepHeartbeats.
Expired(d) ==
    /\ row[d] # NoStatus
    /\ row[d].status = "online"
    /\ now - row[d].at > Timeout

\* Writer w calls save on a copy of d's row; whoever is at d is overlapped.
Begin(w, d, copy) ==
    job' = [v \in Writers |->
              IF v = w THEN [step |-> "load", dev |-> d, copy |-> copy,
                             seen |-> NoStatus, alone |-> ~Busy(d)]
              ELSE [job[v] EXCEPT !.alone = @ /\ ~On(v, d)]]

StatusInit ==
    /\ row = [d \in Trackers |-> NoStatus]
    /\ job = [w \in Writers |-> NoSave]
    /\ todo = [d \in Trackers |-> NoStatus]
    /\ view = [d \in Trackers |-> NoReport]
    /\ now = 0
    /\ last = [d \in Trackers |-> NoReport]
    /\ changedAt = [d \in Trackers |-> 0]
    /\ raced = [d \in Trackers |-> FALSE]
    /\ reports = 0
    /\ saveFaults = 0

-----------------------------------------------------------------------------
\* handleMessage takes a heartbeat; upsert finds the row and fills its copy.
Upsert(d, report) ==
    /\ At("consumer", "idle")
    /\ reports < MaxReports
    /\ reports' = reports + 1
    /\ Begin("consumer", d,
             [status |-> report.status, level |-> report.level,
              at |-> IF row[d] = NoStatus THEN Unset ELSE row[d].at])
    /\ raced' = [raced EXCEPT ![d] = @ \/ Busy(d)]
    /\ UNCHANGED <<row, todo, view, now, last, changedAt, saveFaults>>

\* findByDevice finds no row and creates the default one.
FindByDevice(d) ==
    /\ At("http", "idle")
    /\ row[d] = NoStatus
    /\ Begin("http", d, [status |-> "offline", level |-> 0, at |-> Unset])
    /\ raced' = [raced EXCEPT ![d] = @ \/ Busy(d)]
    /\ UNCHANGED <<row, todo, view, now, last, changedAt, reports, saveFaults>>

\* Mutant of SweepFind: every silent row is taken, whatever its status.
SweepFindAny ==
    LET found == {d \in Trackers : row[d] # NoStatus /\ row[d].status # "offline"
                                    /\ now - row[d].at > Timeout} IN
    /\ At("sweep", "idle")
    /\ \A d \in Trackers : todo[d] = NoStatus
    /\ found # {}
    /\ todo' = [d \in Trackers |-> IF d \in found THEN row[d] ELSE NoStatus]
    /\ raced' = [d \in Trackers |-> raced[d] \/ (d \in found /\ Busy(d))]
    /\ job' = [w \in Writers |-> [job[w] EXCEPT !.alone = @ /\ job[w].dev \notin found]]
    /\ UNCHANGED <<row, view, now, last, changedAt, reports, saveFaults>>

\* The timer fires: one query reads the online rows whose stamp is too old.
SweepFind ==
    LET found == {d \in Trackers : Expired(d)} IN
    /\ At("sweep", "idle")
    /\ \A d \in Trackers : todo[d] = NoStatus
    /\ found # {}
    /\ todo' = [d \in Trackers |-> IF d \in found THEN row[d] ELSE NoStatus]
    /\ raced' = [d \in Trackers |-> raced[d] \/ (d \in found /\ Busy(d))]
    /\ job' = [w \in Writers |-> [job[w] EXCEPT !.alone = @ /\ job[w].dev \notin found]]
    /\ UNCHANGED <<row, view, now, last, changedAt, reports, saveFaults>>

\* Mutant of SweepNext: the copy is saved as it was found.
SweepNextAsFound(d) ==
    /\ At("sweep", "idle")
    /\ todo[d] # NoStatus
    /\ todo' = [todo EXCEPT ![d] = NoStatus]
    /\ Begin("sweep", d, todo[d])
    /\ UNCHANGED <<row, view, now, history, reports, saveFaults>>

\* The loop sets the next copy OFFLINE and saves it.
SweepNext(d) ==
    /\ At("sweep", "idle")
    /\ todo[d] # NoStatus
    /\ todo' = [todo EXCEPT ![d] = NoStatus]
    /\ Begin("sweep", d, [todo[d] EXCEPT !.status = "offline"])
    /\ UNCHANGED <<row, view, now, history, reports, saveFaults>>

-----------------------------------------------------------------------------
\* TypeORM (external): save reads the row the copy is compared with.
Load(w) ==
    /\ At(w, "load")
    /\ job' = [job EXCEPT ![w].step = "write", ![w].seen = row[job[w].dev]]
    /\ UNCHANGED <<row, todo, view, now, history, reports, saveFaults>>

\* TypeORM (external): the row after the UPDATE of the differing columns.
Merged(copy, seen, r) ==
    IF Shows(copy, seen) /\ copy.at \in {Unset, seen.at} THEN r
    ELSE [status |-> IF copy.status # seen.status THEN copy.status ELSE r.status,
          level  |-> IF copy.level # seen.level THEN copy.level ELSE r.level,
          at     |-> IF copy.at \in {Unset, seen.at} THEN now ELSE copy.at]

\* TypeORM (external): the row an INSERT leaves.
Inserted(copy) ==
    [copy EXCEPT !.at = IF copy.at = Unset THEN now ELSE copy.at]

\* What upsert saved, for the properties.
Remember(w, d) ==
    IF w = "consumer"
    THEN /\ last' = [last EXCEPT ![d] = [status |-> job[w].copy.status,
                                         level |-> job[w].copy.level]]
         /\ changedAt' = [changedAt EXCEPT ![d] = IF row'[d] = row[d] THEN @ ELSE now]
         /\ raced' = [raced EXCEPT ![d] = ~job[w].alone \/ (@ /\ row'[d] = row[d])]
    ELSE UNCHANGED history

\* save writes; an INSERT needs the row to be absent still.
WriteRow(w) ==
    LET d == job[w].dev
        j == job[w] IN
    /\ At(w, "write")
    /\ IF j.seen = NoStatus
       THEN row[d] = NoStatus /\ row' = [row EXCEPT ![d] = Inserted(j.copy)]
       ELSE row' = [row EXCEPT ![d] = Merged(j.copy, j.seen, row[d])]
    /\ job' = [job EXCEPT ![w] =
                 IF w = "http" THEN NoSave ELSE [j EXCEPT !.step = "tell"]]
    /\ Remember(w, d)
    /\ UNCHANGED <<todo, view, now, reports, saveFaults>>

\* Mutant of Broadcast: the offline copy is not sent.
BroadcastQuiet(w) ==
    /\ At(w, "tell")
    /\ view' = IF w = "sweep" THEN view
               ELSE [view EXCEPT ![job[w].dev] = [status |-> job[w].copy.status,
                                                  level |-> job[w].copy.level]]
    /\ job' = [job EXCEPT ![w] = NoSave]
    /\ UNCHANGED <<row, todo, now, history, reports, saveFaults>>

\* broadcastDeviceStatus sends the copy that was saved.
Broadcast(w) ==
    /\ At(w, "tell")
    /\ view' = [view EXCEPT ![job[w].dev] = [status |-> job[w].copy.status,
                                             level |-> job[w].copy.level]]
    /\ job' = [job EXCEPT ![w] = NoSave]
    /\ UNCHANGED <<row, todo, now, history, reports, saveFaults>>

\* save throws: the heartbeat goes to the dead letters, the request fails, or
\* the whole sweep is over until the timer fires again.
GiveUp(w) ==
    /\ job' = [job EXCEPT ![w] = NoSave]
    /\ todo' = IF w = "sweep" THEN [d \in Trackers |-> NoStatus] ELSE todo
    /\ UNCHANGED <<row, view, now, history, reports>>

SaveFails(w) ==
    /\ At(w, "load") \/ At(w, "write")
    /\ saveFaults < MaxSaveFaults
    /\ saveFaults' = saveFaults + 1
    /\ GiveUp(w)

\* The INSERT meets the row another writer has inserted since.
InsertConflicts(w) ==
    /\ At(w, "write")
    /\ job[w].seen = NoStatus
    /\ row[job[w].dev] # NoStatus
    /\ GiveUp(w)
    /\ UNCHANGED saveFaults

Tick ==
    /\ now < MaxTime
    /\ now' = now + 1
    /\ UNCHANGED <<row, job, todo, view, history, reports, saveFaults>>

SweepStep ==
    \/ SweepFind
    \/ \E d \in Trackers : SweepNext(d)

SaveStep(w) == Load(w) \/ WriteRow(w) \/ Broadcast(w) \/ InsertConflicts(w)

StatusNext ==
    \/ \E d \in Trackers, report \in Report : Upsert(d, report)
    \/ \E d \in Trackers : FindByDevice(d)
    \/ SweepStep
    \/ \E w \in Writers : SaveStep(w) \/ SaveFails(w)
    \/ Tick

\* Awaited calls settle, the interval keeps firing and time passes; heartbeats
\* and requests need not come.
Fairness ==
    /\ WF_statusVars(SweepStep)
    /\ \A w \in Writers : WF_statusVars(SaveStep(w))
    /\ WF_statusVars(Tick)

StatusSpec == StatusInit /\ [][StatusNext]_statusVars
StatusFairSpec == StatusSpec /\ Fairness

-----------------------------------------------------------------------------
\* Every variable keeps its shape.
StatusTypeOK ==
    /\ row \in [Trackers -> Row \union {NoStatus}]
    /\ job \in [Writers -> Job]
    /\ todo \in [Trackers -> Row \union {NoStatus}]
    /\ view \in [Trackers -> Report \union {NoReport}]
    /\ now \in 0..MaxTime
    /\ last \in [Trackers -> Report \union {NoReport}]
    /\ changedAt \in [Trackers -> 0..MaxTime]
    /\ raced \in [Trackers -> BOOLEAN]
    /\ reports \in 0..MaxReports
    /\ saveFaults \in 0..MaxSaveFaults

(* A saved heartbeat stays: as long as no other writer overlapped it, the row
   shows it, or the sweep has taken the device offline, which happens only to
   a device last heard online whose heartbeats changed nothing for longer than
   the timeout (MAINTENANCE is never swept).  upsert, sweepHeartbeats. *)
ReportSurvives ==
    \A d \in Trackers :
        (last[d] # NoReport /\ ~raced[d]) =>
            /\ row[d] # NoStatus
            /\ row[d].level = last[d].level
            /\ \/ row[d].status = last[d].status
               \/ /\ last[d].status = "online"
                  /\ row[d].status = "offline"
                  /\ now - changedAt[d] > Timeout

(* What clients saw last is what the table holds, once the writers are done
   with the device and none overlapped: the consumer and the sweep both
   broadcast exactly what they saved. *)
ClientsSeeTheRow ==
    \A d \in Trackers :
        (last[d] # NoReport /\ ~raced[d] /\ ~Busy(d)) => Shows(row[d], view[d])

(* A silent device does not stay online: a row that has expired is marked
   offline or written afresh, failed sweeps and stale writes included. *)
ExpiredIsSwept ==
    \A d \in Trackers : Expired(d) ~> ~Expired(d)
=============================================================================
