-------------------------- MODULE TelemetryIngest --------------------------
(***************************************************************************)
(* The coordinates pipeline: a device publishes a point over MQTT,          *)
(* MqttService.forwardCoordinates appends it to the Kafka topic            *)
(* gnss.coordinates, and TelemetryConsumer.handleBatch validates,           *)
(* broadcasts, stores (one multi-row INSERT per batch) and hands the points *)
(* to the violation checks without waiting for them.                        *)
(*                                                                         *)
(* Offsets are counted from 1; a position or a committed offset n stands    *)
(* for "the first n messages of the partition".                             *)
(***************************************************************************)
EXTENDS Integers, Sequences, FiniteSets

CONSTANTS
    Devices,        \* the devices known when the run starts
    Partitions,     \* partitions of the topic gnss.coordinates
    PartitionOf,    \* the partition Kafka hashes the key deviceId to
    MaxMessages,    \* bound: messages per partition
    MaxBatch,       \* bound: messages per fetched batch
    MaxCrashes,     \* bound: process crashes
    MaxRebalances,  \* bound: batches whose offset commit fails
    MaxOutages,     \* bound: database errors not caused by the data
    MaxRemovals     \* bound: devices deleted during the run

ASSUME ConstantsAssumption ==
    /\ IsFiniteSet(Devices)
    /\ PartitionOf \in [Devices -> Partitions]
    /\ MaxMessages \in Nat
    /\ MaxBatch \in Nat \ {0}
    /\ MaxCrashes \in Nat
    /\ MaxRebalances \in Nat
    /\ MaxOutages \in Nat
    /\ MaxRemovals \in Nat

VARIABLES
    log,         \* log[p]: the messages of partition p, in order
    devices,     \* rows of the devices table
    position,    \* position[p]: messages of p the running consumer is done with
    committed,   \* committed[p]: offset the group committed, NoOffset if none
    batch,       \* the batch handleBatch is working on
    rows,        \* rows[p][o]: telemetry rows stored for message o of p
    broadcast,   \* messages sent to the WebSocket room of their device
    dropped,     \* valid points whose batch INSERT reported an error
    skipped,     \* messages a rejoin without a committed offset jumped over
    checks,      \* points whose runAsyncChecks is still pending
    checked,     \* points whose runAsyncChecks finished
    crashes, rebalances, outages, removals

consumerVars == <<position, committed, batch>>
faultVars == <<crashes, rebalances, outages, removals>>
vars == <<log, devices, position, committed, batch, rows, broadcast, dropped,
          skipped, checks, checked, crashes, rebalances, outages, removals>>

-----------------------------------------------------------------------------
Offsets == 1..MaxMessages
NoOffset == -1

\* The envelope of forwardCoordinates, reduced to what handleBatch tells
\* apart: the device and whether PayloadValidator accepts the payload.
Message == [device : Devices, valid : BOOLEAN]

Stages == {"idle", "reading", "saved", "done"}

\* first..last are the offsets of the batch, next the one the for-loop reads.
Batch == [part : Partitions, first : Nat, last : Nat, next : Nat, stage : Stages]

Point == Partitions \X Offsets

DeviceOf(pt) == log[pt[1]][pt[2]].device

\* validPoints once the loop is over.
ValidPoints(b) ==
    {pt \in Point : /\ pt[1] = b.part
                    /\ pt[2] \in b.first..b.last
                    /\ pt[2] <= Len(log[b.part])
                    /\ log[b.part][pt[2]].valid}

\* Where a consumer that joins the group starts reading a partition: the
\* committed offset, or the end of the log when there is none, because
\* subscribe is called with fromBeginning: false.
ResumeAt(p) ==
    IF committed[p] = NoOffset THEN Len(log[p]) ELSE committed[p]

Init ==
    /\ log = [p \in Partitions |-> <<>>]
    /\ devices = Devices
    /\ position = [p \in Partitions |-> 0]
    /\ committed = [p \in Partitions |-> NoOffset]
    /\ \E p \in Partitions :
          batch = [part |-> p, first |-> 1, last |-> 0, next |-> 1, stage |-> "idle"]
    /\ rows = [p \in Partitions |-> [o \in Offsets |-> 0]]
    /\ broadcast = {}
    /\ dropped = {}
    /\ skipped = {}
    /\ checks = {}
    /\ checked = {}
    /\ crashes = 0 /\ rebalances = 0 /\ outages = 0 /\ removals = 0

-----------------------------------------------------------------------------
(* MqttService.forwardCoordinates.  A payload that is not JSON, or a failed
   produce, is logged and forgotten: no message reaches the topic, which is a
   step that changes nothing here. *)
ForwardCoordinates(d, ok) ==
    LET p == PartitionOf[d] IN
    /\ Len(log[p]) < MaxMessages
    /\ log' = [log EXCEPT ![p] = Append(@, [device |-> d, valid |-> ok])]
    /\ UNCHANGED <<devices, consumerVars, rows, broadcast, dropped, skipped,
                   checks, checked, faultVars>>

\* DevicesService.remove deletes the row; telemetry rows go with it (CASCADE).
RemoveDevice(d) ==
    /\ d \in devices
    /\ removals < MaxRemovals
    /\ removals' = removals + 1
    /\ devices' = devices \ {d}
    /\ rows' = [p \in Partitions |-> [o \in Offsets |->
                   IF o <= Len(log[p]) /\ log[p][o].device = d
                   THEN 0 ELSE rows[p][o]]]
    /\ UNCHANGED <<log, consumerVars, broadcast, dropped, skipped, checks,
                   checked, crashes, rebalances, outages>>

-----------------------------------------------------------------------------
(* The consumer.  kafkajs runs one batch at a time over all partitions. *)

\* Mutant of FetchBatch: the batch is committed when it is fetched.
FetchBatchCommitting(p) ==
    /\ batch.stage = "idle"
    /\ position[p] < Len(log[p])
    /\ \E n \in 1..MaxBatch :
          /\ position[p] + n <= Len(log[p])
          /\ batch' = [part |-> p, first |-> position[p] + 1,
                       last |-> position[p] + n, next |-> position[p] + 1,
                       stage |-> "reading"]
          /\ committed' = [committed EXCEPT ![p] = position[p] + n]
    /\ UNCHANGED <<log, devices, position, rows, broadcast, dropped,
                   skipped, checks, checked, faultVars>>

\* Mutant of FetchBatch: the last message of the log is never fetched.
FetchBatchShort(p) ==
    /\ batch.stage = "idle"
    /\ \E n \in 1..MaxBatch :
          /\ position[p] + n < Len(log[p])
          /\ batch' = [part |-> p, first |-> position[p] + 1,
                       last |-> position[p] + n, next |-> position[p] + 1,
                       stage |-> "reading"]
    /\ UNCHANGED <<log, devices, position, committed, rows, broadcast, dropped,
                   skipped, checks, checked, faultVars>>

\* kafkajs (external) fetches some of the messages after the position.
FetchBatch(p) ==
    /\ batch.stage = "idle"
    /\ position[p] < Len(log[p])
    /\ \E n \in 1..MaxBatch :
          /\ position[p] + n <= Len(log[p])
          /\ batch' = [part |-> p, first |-> position[p] + 1,
                       last |-> position[p] + n, next |-> position[p] + 1,
                       stage |-> "reading"]
    /\ UNCHANGED <<log, devices, position, committed, rows, broadcast, dropped,
                   skipped, checks, checked, faultVars>>

\* One turn of the for-loop: a valid message is broadcast at once, an invalid
\* one is logged.  The validator is awaited, so other work runs in between.
ReadMessage ==
    LET pt == <<batch.part, batch.next>> IN
    /\ batch.stage = "reading"
    /\ batch.next <= batch.last
    /\ batch' = [batch EXCEPT !.next = @ + 1]
    /\ broadcast' = IF log[pt[1]][pt[2]].valid THEN broadcast \cup {pt}
                    ELSE broadcast
    /\ UNCHANGED <<log, devices, position, committed, rows, dropped, skipped,
                   checks, checked, faultVars>>

LoopOver == batch.stage = "reading" /\ batch.next > batch.last

\* Early return when no point of the batch is valid.
NoValidPoint ==
    /\ LoopOver
    /\ ValidPoints(batch) = {}
    /\ batch' = [batch EXCEPT !.stage = "done"]
    /\ UNCHANGED <<log, devices, position, committed, rows, broadcast, dropped,
                   skipped, checks, checked, faultVars>>

\* Mutant of InsertAllowed: a unique key that refuses a redelivered point.
InsertAllowedOnce(b) ==
    \A pt \in ValidPoints(b) : DeviceOf(pt) \in devices /\ rows[pt[1]][pt[2]] = 0

\* The foreign key telemetry.device_id -> devices.id holds for every row.
InsertAllowed(b) == \A pt \in ValidPoints(b) : DeviceOf(pt) \in devices

\* The rows the INSERT adds: all the points of the batch or none.
RowsAfterInsert(b) ==
    [p \in Partitions |-> [o \in Offsets |->
        IF <<p, o>> \in ValidPoints(b) THEN rows[p][o] + 1 ELSE rows[p][o]]]

\* saveBatch commits in the database and its await returns.
SaveBatch ==
    /\ LoopOver
    /\ ValidPoints(batch) # {}
    /\ InsertAllowed(batch)
    /\ rows' = RowsAfterInsert(batch)
    /\ batch' = [batch EXCEPT !.stage = "saved"]
    /\ UNCHANGED <<log, devices, position, committed, broadcast, dropped,
                   skipped, checks, checked, faultVars>>

\* saveBatch throws: the INSERT was refused (a point of a deleted device), the
\* database is unreachable, or the INSERT committed but its reply was lost.
\* The catch block logs; the points get no check and no retry.
SaveBatchFails ==
    /\ LoopOver
    /\ ValidPoints(batch) # {}
    /\ \/ /\ ~InsertAllowed(batch)
          /\ UNCHANGED <<rows, outages>>
       \/ /\ outages < MaxOutages
          /\ outages' = outages + 1
          /\ \/ UNCHANGED rows
             \/ InsertAllowed(batch) /\ rows' = RowsAfterInsert(batch)
    /\ dropped' = dropped \cup ValidPoints(batch)
    /\ batch' = [batch EXCEPT !.stage = "done"]
    /\ UNCHANGED <<log, devices, position, committed, broadcast, skipped,
                   checks, checked, crashes, rebalances, removals>>

\* runAsyncChecks is called for every point of the batch and not awaited.
SpawnChecks ==
    /\ batch.stage = "saved"
    /\ checks' = checks \cup ValidPoints(batch)
    /\ batch' = [batch EXCEPT !.stage = "done"]
    /\ UNCHANGED <<log, devices, position, committed, rows, broadcast, dropped,
                   skipped, checked, faultVars>>

\* The three checks of one point settle: speed (module SpeedCheck), geofences
\* (module GeofenceMonitor) and route deviation.
FinishChecks(pt) ==
    /\ pt \in checks
    /\ checks' = checks \ {pt}
    /\ checked' = checked \cup {pt}
    /\ UNCHANGED <<log, devices, consumerVars, rows, broadcast, dropped,
                   skipped, faultVars>>

\* Mutant of CommitBatch: the position stays on the last message.
CommitBatchShort ==
    LET p == batch.part IN
    /\ batch.stage = "done"
    /\ position' = [position EXCEPT ![p] = batch.last - 1]
    /\ committed' = [committed EXCEPT ![p] = batch.last - 1]
    /\ batch' = [batch EXCEPT !.stage = "idle"]
    /\ UNCHANGED <<log, devices, rows, broadcast, dropped, skipped, checks,
                   checked, faultVars>>

\* The handler returned: kafkajs (external) resolves and commits the batch.
CommitBatch ==
    LET p == batch.part IN
    /\ batch.stage = "done"
    /\ position' = [position EXCEPT ![p] = batch.last]
    /\ committed' = [committed EXCEPT ![p] = batch.last]
    /\ batch' = [batch EXCEPT !.stage = "idle"]
    /\ UNCHANGED <<log, devices, rows, broadcast, dropped, skipped, checks,
                   checked, faultVars>>

\* Rejoining the group: every partition is read again from ResumeAt.
Rejoin ==
    /\ position' = [p \in Partitions |-> ResumeAt(p)]
    /\ skipped' = skipped \cup
          {pt \in Point : pt[2] > position[pt[1]] /\ pt[2] <= ResumeAt(pt[1])}
    /\ batch' = [batch EXCEPT !.stage = "idle"]
    /\ UNCHANGED committed

\* handleBatch sends no heartbeat, so a batch that outlives sessionTimeout has
\* its commit refused; the consumer rejoins, the process keeps running.
CommitRefused ==
    /\ batch.stage = "done"
    /\ rebalances < MaxRebalances
    /\ rebalances' = rebalances + 1
    /\ Rejoin
    /\ UNCHANGED <<log, devices, rows, broadcast, dropped, checks, checked,
                   crashes, outages, removals>>

\* The process dies and starts again; what lived in its memory is gone.
Crash ==
    /\ crashes < MaxCrashes
    /\ crashes' = crashes + 1
    /\ Rejoin
    /\ checks' = {}
    /\ UNCHANGED <<log, devices, rows, broadcast, dropped, checked, rebalances,
                   outages, removals>>

ConsumerStep ==
    \/ \E p \in Partitions : FetchBatch(p)
    \/ ReadMessage
    \/ NoValidPoint
    \/ SaveBatch
    \/ SaveBatchFails
    \/ SpawnChecks
    \/ CommitBatch

Next ==
    \/ \E d \in Devices, ok \in BOOLEAN : ForwardCoordinates(d, ok)
    \/ \E d \in Devices : RemoveDevice(d)
    \/ ConsumerStep
    \/ \E pt \in checks : FinishChecks(pt)
    \/ CommitRefused
    \/ Crash

\* The event loop always goes on with the running handler, and a pending check
\* settles; kafkajs keeps fetching.  Nothing obliges devices to send, and
\* faults need not happen.
Fairness ==
    /\ WF_vars(ConsumerStep)
    /\ \A pt \in Point : WF_vars(FinishChecks(pt))

Spec == Init /\ [][Next]_vars
FairSpec == Spec /\ Fairness

-----------------------------------------------------------------------------
\* Every variable keeps its shape; offsets stay within the log.
TypeOK ==
    /\ log \in [Partitions -> Seq(Message)]
    /\ \A p \in Partitions : Len(log[p]) <= MaxMessages
    /\ devices \subseteq Devices
    /\ position \in [Partitions -> Nat]
    /\ committed \in [Partitions -> Nat \cup {NoOffset}]
    /\ batch \in Batch
    /\ rows \in [Partitions -> [Offsets -> Nat]]
    /\ broadcast \subseteq Point
    /\ dropped \subseteq Point
    /\ skipped \subseteq Point
    /\ checks \subseteq Point
    /\ checked \subseteq Point
    /\ crashes \in Nat /\ rebalances \in Nat /\ outages \in Nat /\ removals \in Nat

InLog(pt) == pt[2] <= Len(log[pt[1]])

DeviceGone(pt) == InLog(pt) /\ DeviceOf(pt) \notin devices

\* What the consumer may have done with a message it is finished with.
Accounted(pt) ==
    \/ ~log[pt[1]][pt[2]].valid
    \/ rows[pt[1]][pt[2]] > 0
    \/ pt \in dropped
    \/ pt \in skipped
    \/ DeviceGone(pt)

(* No message is passed over silently: the group's committed offset only
   covers messages that were invalid, stored, in a batch whose INSERT failed,
   skipped by a start without committed offset, or of a device deleted since.
   A commit before the save, or a resume past the commit, would break it. *)
CommittedIsAccounted ==
    \A pt \in Point : pt[2] <= committed[pt[1]] => Accounted(pt)

(* Redelivery is the only source of duplicate telemetry rows (the INSERT has
   no unique key): each crash or refused commit adds at most one copy. *)
DuplicatesComeFromRedelivery ==
    \A pt \in Point : rows[pt[1]][pt[2]] <= 1 + crashes + rebalances

(* The violation checks never see a point the database does not hold: a
   pending or finished check is of a point that was stored (its device may
   have been deleted since). *)
ChecksFollowSave ==
    \A pt \in checks \cup checked :
        rows[pt[1]][pt[2]] > 0 \/ DeviceGone(pt)

(* A valid point is lost at the save only for a cause outside the consumer:
   a database error, or a device deleted while its messages were on the way
   (its points take the whole batch down with them). *)
LossHasACause ==
    (outages = 0 /\ devices = Devices) => dropped = {}

(* The live map shows every point the history has: a stored point was sent to
   the room of its device, whatever faults and redeliveries came in between.
   (The converse fails: a point is broadcast before its batch is saved.) *)
StoredWasBroadcast ==
    \A pt \in Point : rows[pt[1]][pt[2]] > 0 => pt \in broadcast

(* The consumer reaches every message of the topic: failed saves, refused
   commits and crashes delay it but never stop it. *)
EveryMessageIsReached ==
    \A pt \in Point : InLog(pt) ~> (position[pt[1]] >= pt[2])
=============================================================================
