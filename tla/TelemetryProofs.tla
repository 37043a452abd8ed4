-------------------------- MODULE TelemetryProofs ---------------------------
(* Proofs about TelemetryIngest, for any devices, partitions, batch sizes and
   numbers of faults, and about SpeedCheck, for any number of devices and
   concurrent checks, any speeds, limits and TTLs. *)
EXTENDS TelemetryIngest, SpeedCheck, Integers, FiniteSetTheorems, TLAPS

-----------------------------------------------------------------------------
(* The telemetry consumer. *)

(* Where the consumer is: positions are in the log, a committed offset is the
   position, and the batch at work is the one after it. *)
Reading ==
    /\ \A p \in Partitions :
          /\ position[p] <= Len(log[p])
          /\ committed[p] \in {NoOffset, position[p]}
    /\ batch.stage # "idle" =>
          /\ batch.first = position[batch.part] + 1
          /\ batch.first <= batch.last /\ batch.first <= batch.next
          /\ batch.last <= Len(log[batch.part])

TInv == TypeOK /\ Reading

(* The consumer is done with the messages up to the position and, once their
   INSERT was tried, with those of the batch. *)
Done(pt) ==
    \/ pt[2] <= position[pt[1]]
    \/ /\ batch.stage \in {"saved", "done"}
       /\ pt[1] = batch.part /\ pt[2] \in batch.first..batch.last

(* A message the consumer is not done with will get one more copy. *)
CopyAccount ==
    \A pt \in Point :
        IF Done(pt) THEN rows[pt[1]][pt[2]] <= 1 + crashes + rebalances
                    ELSE rows[pt[1]][pt[2]] <= crashes + rebalances

(* What the consumer is done with, committed or not, is accounted for. *)
DoneIsAccounted == \A pt \in Point : Done(pt) => Accounted(pt)

(* The loop broadcasts before the INSERT. *)
SentSoFar ==
    /\ StoredWasBroadcast
    /\ batch.stage = "reading" =>
          \A pt \in ValidPoints(batch) : pt[2] < batch.next => pt \in broadcast

(* A batch that is saved is stored, but for devices removed since. *)
SavedSoFar ==
    /\ ChecksFollowSave
    /\ batch.stage = "saved" =>
          \A pt \in ValidPoints(batch) : rows[pt[1]][pt[2]] > 0 \/ DeviceGone(pt)

-----------------------------------------------------------------------------
(* Types and places. *)

(* Appending to a partition keeps the messages that are there. *)
LEMMA LogGrows ==
    ASSUME TypeOK, NEW d \in Devices, NEW ok \in BOOLEAN, ForwardCoordinates(d, ok)
    PROVE  /\ log' \in [Partitions -> Seq(Message)]
           /\ \A p \in Partitions :
                 /\ Len(log[p]) <= Len(log'[p]) /\ Len(log'[p]) <= MaxMessages
                 /\ \A o \in Offsets : o <= Len(log[p]) => log'[p][o] = log[p][o]
<1> DEFINE q == PartitionOf[d]
           m == [device |-> d, valid |-> ok]
<1>1. q \in Partitions /\ m \in Message
    BY ConstantsAssumption DEF Message
<1>2. log' = [log EXCEPT ![q] = Append(log[q], m)] /\ Len(log[q]) < MaxMessages
    BY DEF ForwardCoordinates
<1>3. log \in [Partitions -> Seq(Message)] /\ \A p \in Partitions : Len(log[p]) <= MaxMessages
    BY DEF TypeOK
<1> HIDE DEF q, m
<1>4. /\ Append(log[q], m) \in Seq(Message) /\ Len(Append(log[q], m)) = Len(log[q]) + 1
      /\ \A o \in 1..Len(log[q]) : Append(log[q], m)[o] = log[q][o]
    BY <1>1, <1>3
<1>5. \A p \in Partitions : log'[p] = IF p = q THEN Append(log[q], m) ELSE log[p]
    BY <1>1, <1>2, <1>3
<1>6. log' \in [Partitions -> Seq(Message)]
    BY <1>2, <1>3, <1>4
<1>7. ASSUME NEW p \in Partitions
      PROVE  /\ Len(log[p]) <= Len(log'[p]) /\ Len(log'[p]) <= MaxMessages
             /\ \A o \in Offsets : o <= Len(log[p]) => log'[p][o] = log[p][o]
    <2>1. CASE p = q
        BY <1>1, <1>2, <1>3, <1>4, <1>5, <2>1, ConstantsAssumption DEF Offsets
    <2>2. CASE p # q
        BY <1>3, <1>5, <2>2
    <2>. QED  BY <2>1, <2>2
<1>. QED  BY <1>6, <1>7

(* The fields of the batch, after a change of its stage or of its place. *)
LEMMA BatchFields ==
    ASSUME batch \in Batch
    PROVE  /\ batch.part \in Partitions /\ batch.stage \in Stages
           /\ batch.first \in Nat /\ batch.last \in Nat /\ batch.next \in Nat
           /\ \A s \in Stages : LET b == [batch EXCEPT !.stage = s] IN
                 /\ b \in Batch /\ b.part = batch.part /\ b.first = batch.first
                 /\ b.last = batch.last /\ b.next = batch.next /\ b.stage = s
           /\ LET b == [batch EXCEPT !.next = batch.next + 1] IN
                 /\ b \in Batch /\ b.part = batch.part /\ b.first = batch.first
                 /\ b.last = batch.last /\ b.next = batch.next + 1 /\ b.stage = batch.stage
BY DEF Batch

(* Every resume is within the log, at the committed offset if there is one. *)
LEMMA Resumed ==
    ASSUME TInv, Rejoin, UNCHANGED log
    PROVE  /\ position' \in [Partitions -> Nat] /\ committed' = committed
           /\ skipped' \subseteq Point
           /\ batch' = [batch EXCEPT !.stage = "idle"]
           /\ \A p \in Partitions :
                 /\ position'[p] <= Len(log[p])
                 /\ committed[p] \in {NoOffset, position'[p]}
<1>1. \A p \in Partitions : ResumeAt(p) \in Nat /\ ResumeAt(p) <= Len(log[p])
        /\ committed[p] \in {NoOffset, ResumeAt(p)}
    BY DEF TInv, TypeOK, Reading, ResumeAt, NoOffset
<1>. QED  BY <1>1 DEF Rejoin, TInv, TypeOK

LEMMA InitialTypes == Init => TInv
<1> SUFFICES ASSUME Init PROVE TInv
    OBVIOUS
<1>1. log \in [Partitions -> Seq(Message)] /\ \A p \in Partitions : Len(log[p]) = 0
    BY DEF Init
<1>2. batch \in Batch /\ batch.stage = "idle"
    BY DEF Init, Batch, Stages
<1>. QED  BY <1>1, <1>2, ConstantsAssumption DEF Init, TInv, TypeOK, Reading, Offsets

(* Every step keeps the types and the place of the consumer. *)
LEMMA StepTypes ==
    ASSUME TInv, [Next]_vars
    PROVE  TInv'
<1>0. /\ batch \in Batch /\ log \in [Partitions -> Seq(Message)]
      /\ \A p \in Partitions : Len(log[p]) \in Nat
    BY DEF TInv, TypeOK
<1>1. ASSUME NEW d \in Devices, NEW ok \in BOOLEAN, ForwardCoordinates(d, ok) PROVE TInv'
    <2>1. Reading'
        BY <1>0, <1>1, LogGrows, BatchFields
           DEF ForwardCoordinates, TInv, Reading, consumerVars, TypeOK
    <2>. QED  BY <1>1, <2>1, LogGrows DEF ForwardCoordinates, TInv, TypeOK, consumerVars, faultVars
<1>2. ASSUME NEW d \in Devices, RemoveDevice(d) PROVE TInv'
    BY <1>2 DEF RemoveDevice, TInv, TypeOK, Reading, consumerVars
<1>3. ASSUME NEW p \in Partitions, FetchBatch(p) PROVE TInv'
    <2>1. PICK n \in 1..MaxBatch :
              /\ position[p] + n <= Len(log[p])
              /\ batch' = [part |-> p, first |-> position[p] + 1, last |-> position[p] + n,
                           next |-> position[p] + 1, stage |-> "reading"]
        BY <1>3 DEF FetchBatch
    <2>2. n \in Nat /\ n >= 1 /\ position[p] \in Nat
        BY ConstantsAssumption DEF TInv, TypeOK
    <2>3. batch' \in Batch /\ batch'.part = p /\ batch'.first = position[p] + 1
              /\ batch'.last = position[p] + n /\ batch'.next = position[p] + 1
        BY <2>1, <2>2 DEF Batch, Stages
    <2>. QED  BY <1>3, <2>1, <2>2, <2>3 DEF FetchBatch, TInv, TypeOK, Reading, faultVars
<1>4. CASE ReadMessage
    <2>1. batch' = [batch EXCEPT !.next = batch.next + 1]
        BY <1>4 DEF ReadMessage
    <2>2. broadcast' \subseteq Point
        <3>1. batch.part \in Partitions /\ batch.next \in Nat /\ batch.last \in Nat
                 /\ batch.first \in Nat
            BY <1>0, BatchFields
        <3>2. /\ batch.first = position[batch.part] + 1 /\ batch.first <= batch.next
              /\ batch.next <= batch.last /\ batch.last <= Len(log[batch.part])
            BY <1>4 DEF ReadMessage, TInv, Reading
        <3>3. position[batch.part] \in Nat /\ Len(log[batch.part]) <= MaxMessages
            BY <3>1 DEF TInv, TypeOK
        <3>4. batch.next \in 1..MaxMessages
            BY <1>0, <3>1, <3>2, <3>3, ConstantsAssumption
        <3>5. <<batch.part, batch.next>> \in Point
            BY <3>1, <3>4 DEF Point, Offsets
        <3>. QED  BY <1>4, <3>5 DEF ReadMessage, TInv, TypeOK
    <2>. QED  BY <1>0, <1>4, <2>1, <2>2, BatchFields DEF ReadMessage, TInv, TypeOK, Reading, faultVars
<1>5. ASSUME NEW s \in Stages \ {"idle"}, batch' = [batch EXCEPT !.stage = s],
             batch.stage # "idle", UNCHANGED <<log, position, committed>>
      PROVE  Reading' /\ batch' \in Batch
    BY <1>0, <1>5, BatchFields DEF TInv, TypeOK, Reading
<1>6. CASE NoValidPoint
    BY <1>5, <1>6 DEF NoValidPoint, LoopOver, TInv, TypeOK, faultVars, Stages
<1>7. RowsAfterInsert(batch) \in [Partitions -> [Offsets -> Nat]] /\ ValidPoints(batch) \subseteq Point
    BY DEF RowsAfterInsert, TInv, TypeOK, ValidPoints
<1>8. CASE SaveBatch
    BY <1>5, <1>7, <1>8 DEF SaveBatch, LoopOver, TInv, TypeOK, faultVars, Stages
<1>9. CASE SaveBatchFails
    <2>1. rows' \in {rows, RowsAfterInsert(batch)}
        BY <1>9 DEF SaveBatchFails
    <2>2. rows' \in [Partitions -> [Offsets -> Nat]]
        BY <1>7, <2>1 DEF TInv, TypeOK
    <2>3. outages' \in Nat
        BY <1>9 DEF SaveBatchFails, TInv, TypeOK
    <2>. QED  BY <1>5, <1>7, <1>9, <2>2, <2>3 DEF SaveBatchFails, LoopOver, TInv, TypeOK, Stages
<1>10. CASE SpawnChecks
    BY <1>5, <1>7, <1>10 DEF SpawnChecks, TInv, TypeOK, faultVars, Stages
<1>11. ASSUME NEW pt \in checks, FinishChecks(pt) PROVE TInv'
    BY <1>11 DEF FinishChecks, TInv, TypeOK, Reading, consumerVars, faultVars
<1>12. CASE CommitBatch
    <2>1. batch.stage = "done" /\ "idle" \in Stages
        BY <1>12 DEF CommitBatch, Stages
    <2>2. batch' \in Batch /\ batch'.stage = "idle"
        BY <1>0, <1>12, <2>1, BatchFields DEF CommitBatch
    <2>3. batch.last \in Nat /\ batch.last <= Len(log[batch.part])
        BY <1>0, <2>1, BatchFields DEF TInv, Reading
    <2>. QED  BY <1>12, <2>2, <2>3 DEF CommitBatch, TInv, TypeOK, Reading, faultVars
<1>13. CASE CommitRefused \/ Crash
    <2>1. Rejoin /\ UNCHANGED <<log, devices, rows, broadcast, dropped, checked>>
             /\ checks' \subseteq checks
             /\ crashes' \in Nat /\ rebalances' \in Nat /\ outages' \in Nat /\ removals' \in Nat
        BY <1>13 DEF CommitRefused, Crash, TInv, TypeOK
    <2>2. batch' \in Batch /\ batch'.stage = "idle"
        BY <1>0, <2>1, Resumed, BatchFields DEF Stages
    <2>. QED  BY <2>1, <2>2, Resumed DEF TInv, TypeOK, Reading
<1>14. CASE UNCHANGED vars
    BY <1>14 DEF vars, TInv, TypeOK, Reading
<1>. QED  BY <1>1, <1>2, <1>3, <1>4, <1>6, <1>8, <1>9, <1>10, <1>11, <1>12, <1>13, <1>14
          DEF Next, ConsumerStep

(* Every variable of the consumer keeps its type, in every behaviour. *)
THEOREM TypeCorrect == Spec => []TypeOK
<1>1. TInv => TypeOK
    BY DEF TInv
<1>. QED  BY <1>1, InitialTypes, StepTypes, PTL DEF Spec

-----------------------------------------------------------------------------
(* What the consumer is done with, step by step. *)

(* The points of the batch. *)
InBatch(pt) == pt[1] = batch.part /\ pt[2] \in batch.first..batch.last

LEMMA PointFields ==
    ASSUME TInv, NEW pt \in Point
    PROVE  /\ pt[1] \in Partitions /\ pt[2] \in Offsets /\ pt[2] \in Nat
           /\ rows[pt[1]][pt[2]] \in Nat /\ position[pt[1]] \in Nat
           /\ Len(log[pt[1]]) \in Nat /\ pt = <<pt[1], pt[2]>>
<1>1. pt[1] \in Partitions /\ pt[2] \in Offsets /\ pt = <<pt[1], pt[2]>>
    BY DEF Point
<1>2. pt[2] \in Nat
    BY <1>1, ConstantsAssumption DEF Offsets
<1>3. rows[pt[1]][pt[2]] \in Nat /\ position[pt[1]] \in Nat /\ Len(log[pt[1]]) \in Nat
    BY <1>1 DEF TInv, TypeOK
<1>. QED  BY <1>1, <1>2, <1>3

(* Only a tried INSERT finishes messages, those of the batch; fetching,
   reading, checking and committing neither add nor take any. *)
LEMMA DoneMoves ==
    ASSUME TInv, NEW pt \in Point
    PROVE  /\ UNCHANGED <<position, batch>> => (Done(pt)' <=> Done(pt))
           /\ (\E p \in Partitions : FetchBatch(p)) \/ ReadMessage \/ SpawnChecks \/ CommitBatch
                 => (Done(pt)' <=> Done(pt))
           /\ NoValidPoint \/ SaveBatch \/ SaveBatchFails =>
                  /\ Done(pt)' <=> Done(pt) \/ InBatch(pt)
                  /\ InBatch(pt) => ~Done(pt)
<1>0. /\ pt[1] \in Partitions /\ pt[2] \in Nat /\ position[pt[1]] \in Nat
      /\ batch \in Batch /\ position \in [Partitions -> Nat]
    BY PointFields DEF TInv, TypeOK
<1>1. ASSUME UNCHANGED <<position, batch>> PROVE Done(pt)' <=> Done(pt)
    BY <1>1 DEF Done
<1>2. ASSUME NEW p \in Partitions, FetchBatch(p) PROVE Done(pt)' <=> Done(pt)
    <2>1. batch.stage = "idle" /\ batch'.stage = "reading" /\ position' = position
        BY <1>2 DEF FetchBatch
    <2>. QED  BY <2>1 DEF Done
<1>3. ASSUME ReadMessage PROVE Done(pt)' <=> Done(pt)
    <2>1. batch.stage = "reading" /\ batch'.stage = "reading" /\ position' = position
        BY <1>0, <1>3, BatchFields DEF ReadMessage
    <2>. QED  BY <2>1 DEF Done
<1>4. ASSUME SpawnChecks PROVE Done(pt)' <=> Done(pt)
    <2>1. /\ batch.stage = "saved" /\ batch'.stage = "done" /\ position' = position
          /\ batch'.part = batch.part /\ batch'.first = batch.first /\ batch'.last = batch.last
        BY <1>0, <1>4, BatchFields DEF SpawnChecks, Stages
    <2>. QED  BY <2>1 DEF Done
<1>5. ASSUME CommitBatch PROVE Done(pt)' <=> Done(pt)
    <2>1. /\ batch.stage = "done" /\ batch'.stage = "idle" /\ batch.first \in Nat
          /\ batch.last \in Nat /\ batch.part \in Partitions
          /\ position' = [position EXCEPT ![batch.part] = batch.last]
        BY <1>0, <1>5, BatchFields DEF CommitBatch, Stages
    <2>2. batch.first = position[batch.part] + 1 /\ batch.first <= batch.last
        BY <2>1 DEF TInv, Reading
    <2>. QED  BY <1>0, <2>1, <2>2 DEF Done
<1>6. ASSUME NoValidPoint \/ SaveBatch \/ SaveBatchFails
      PROVE  /\ Done(pt)' <=> Done(pt) \/ InBatch(pt)
             /\ InBatch(pt) => ~Done(pt)
    <2>1. /\ batch.stage = "reading" /\ batch'.stage \in {"saved", "done"}
          /\ position' = position /\ batch'.part = batch.part
          /\ batch'.first = batch.first /\ batch'.last = batch.last
          /\ batch.first \in Nat /\ batch.last \in Nat
        BY <1>0, <1>6, BatchFields DEF NoValidPoint, SaveBatch, SaveBatchFails, LoopOver, Stages
    <2>2. batch.first = position[batch.part] + 1
        BY <2>1 DEF TInv, Reading
    <2>. QED  BY <1>0, <2>1, <2>2 DEF Done, InBatch
<1>. QED  BY <1>1, <1>2, <1>3, <1>4, <1>5, <1>6

(* What an INSERT does to a row. *)
LEMMA InsertedRows ==
    ASSUME TInv, NEW pt \in Point
    PROVE  /\ pt \in ValidPoints(batch) => InBatch(pt)
           /\ RowsAfterInsert(batch)[pt[1]][pt[2]] =
                  IF pt \in ValidPoints(batch) THEN rows[pt[1]][pt[2]] + 1
                                               ELSE rows[pt[1]][pt[2]]
BY PointFields DEF RowsAfterInsert, ValidPoints, InBatch

-----------------------------------------------------------------------------
(* Copies. *)

LEMMA StepCopies ==
    ASSUME TInv, CopyAccount, [Next]_vars
    PROVE  CopyAccount'
<1> SUFFICES ASSUME NEW pt \in Point
             PROVE  IF Done(pt)' THEN rows'[pt[1]][pt[2]] <= 1 + crashes' + rebalances'
                                 ELSE rows'[pt[1]][pt[2]] <= crashes' + rebalances'
    BY DEF CopyAccount
<1>0. /\ pt[1] \in Partitions /\ pt[2] \in Offsets /\ rows[pt[1]][pt[2]] \in Nat
      /\ crashes \in Nat /\ rebalances \in Nat
      /\ IF Done(pt) THEN rows[pt[1]][pt[2]] <= 1 + crashes + rebalances
                     ELSE rows[pt[1]][pt[2]] <= crashes + rebalances
    BY PointFields DEF TInv, TypeOK, CopyAccount
<1>1. ASSUME UNCHANGED <<crashes, rebalances>>, Done(pt)' <=> Done(pt),
             rows'[pt[1]][pt[2]] \in {0, rows[pt[1]][pt[2]]}
      PROVE  IF Done(pt)' THEN rows'[pt[1]][pt[2]] <= 1 + crashes' + rebalances'
                          ELSE rows'[pt[1]][pt[2]] <= crashes' + rebalances'
    BY <1>0, <1>1
<1>2. ASSUME NEW d \in Devices, NEW ok \in BOOLEAN, ForwardCoordinates(d, ok)
      PROVE  rows' = rows /\ UNCHANGED <<position, batch, crashes, rebalances>>
    BY <1>2 DEF ForwardCoordinates, consumerVars, faultVars
<1>3. ASSUME NEW d \in Devices, RemoveDevice(d)
      PROVE  /\ rows'[pt[1]][pt[2]] \in {0, rows[pt[1]][pt[2]]}
             /\ UNCHANGED <<position, batch, crashes, rebalances>>
    BY <1>0, <1>3 DEF RemoveDevice, consumerVars
<1>4. (\E p \in Partitions : FetchBatch(p)) \/ ReadMessage \/ SpawnChecks \/ CommitBatch
         => rows' = rows /\ UNCHANGED <<crashes, rebalances>>
    BY DEF FetchBatch, ReadMessage, SpawnChecks, CommitBatch, faultVars
<1>5. ASSUME NEW q \in checks, FinishChecks(q)
      PROVE  rows' = rows /\ UNCHANGED <<position, batch, crashes, rebalances>>
    BY <1>5 DEF FinishChecks, consumerVars, faultVars
<1>6. ASSUME NoValidPoint \/ SaveBatch \/ SaveBatchFails
      PROVE  IF Done(pt)' THEN rows'[pt[1]][pt[2]] <= 1 + crashes' + rebalances'
                          ELSE rows'[pt[1]][pt[2]] <= crashes' + rebalances'
    <2>1. rows' \in {rows, RowsAfterInsert(batch)} /\ UNCHANGED <<crashes, rebalances>>
        BY <1>6 DEF NoValidPoint, SaveBatch, SaveBatchFails, faultVars
    <2>2. /\ Done(pt)' <=> Done(pt) \/ InBatch(pt)
          /\ InBatch(pt) => ~Done(pt)
        BY <1>6, DoneMoves
    <2>. QED  BY <1>0, <2>1, <2>2, InsertedRows
<1>7. ASSUME CommitRefused \/ Crash
      PROVE  IF Done(pt)' THEN rows'[pt[1]][pt[2]] <= 1 + crashes' + rebalances'
                          ELSE rows'[pt[1]][pt[2]] <= crashes' + rebalances'
    <2>1. rows' = rows /\ crashes' + rebalances' = crashes + rebalances + 1
        BY <1>0, <1>7 DEF CommitRefused, Crash
    <2>2. rows[pt[1]][pt[2]] <= crashes' + rebalances'
             /\ crashes' \in Nat /\ rebalances' \in Nat
        BY <1>0, <1>7, <2>1 DEF CommitRefused, Crash
    <2>. QED  BY <1>0, <2>1, <2>2
<1>8. CASE UNCHANGED vars
    <2>1. rows' = rows /\ UNCHANGED <<position, batch, crashes, rebalances>>
        BY <1>8 DEF vars
    <2>2. Done(pt)' <=> Done(pt)
        BY <2>1, DoneMoves
    <2>. QED  BY <1>1, <2>1, <2>2
<1>9. CASE \/ (\E p \in Partitions : FetchBatch(p)) \/ ReadMessage \/ SpawnChecks \/ CommitBatch
    <2>1. Done(pt)' <=> Done(pt)
        BY <1>9, DoneMoves
    <2>2. rows' = rows /\ UNCHANGED <<crashes, rebalances>>
        BY <1>4, <1>9
    <2>. QED  BY <1>1, <2>1, <2>2
<1>10. CASE \/ \E d \in Devices, ok \in BOOLEAN : ForwardCoordinates(d, ok)
            \/ \E d \in Devices : RemoveDevice(d)
            \/ \E q \in checks : FinishChecks(q)
    <2>1. /\ rows'[pt[1]][pt[2]] \in {0, rows[pt[1]][pt[2]]}
          /\ UNCHANGED <<position, batch, crashes, rebalances>>
        BY <1>2, <1>3, <1>5, <1>10
    <2>2. Done(pt)' <=> Done(pt)
        BY <2>1, DoneMoves
    <2>. QED  BY <1>1, <2>1, <2>2
<1>. QED  BY <1>6, <1>7, <1>8, <1>9, <1>10 DEF Next, ConsumerStep

(* A batch is saved and its offset committed by two calls: each crash and each
   refused commit between them adds at most one copy of a telemetry row, and
   nothing else does. *)
THEOREM CopiesAreOfRedelivery == Spec => []DuplicatesComeFromRedelivery
<1>1. Init => CopyAccount
    BY DEF Init, CopyAccount, Point
<1>2. TInv /\ CopyAccount => DuplicatesComeFromRedelivery
    BY PointFields DEF CopyAccount, DuplicatesComeFromRedelivery, TInv, TypeOK
<1>. QED  BY <1>1, <1>2, InitialTypes, StepTypes, StepCopies, PTL DEF Spec

-----------------------------------------------------------------------------
(* What a step can do to a message. *)

(* Messages stay in the log, what was seen of them stays seen, devices only
   go, and rows only go with their device. *)
LEMMA StepData ==
    ASSUME TInv, [Next]_vars, NEW pt \in Point
    PROVE  /\ InLog(pt) => InLog(pt)' /\ log'[pt[1]][pt[2]] = log[pt[1]][pt[2]]
           /\ devices' \subseteq devices
           /\ \/ rows'[pt[1]][pt[2]] >= rows[pt[1]][pt[2]]
              \/ InLog(pt) /\ DeviceOf(pt) \notin devices'
           /\ dropped \subseteq dropped' /\ skipped \subseteq skipped'
           /\ broadcast \subseteq broadcast'
<1>0. /\ pt[1] \in Partitions /\ pt[2] \in Offsets /\ rows[pt[1]][pt[2]] \in Nat
      /\ pt[2] \in Nat /\ Len(log[pt[1]]) \in Nat
    BY PointFields
<1>1. ASSUME NEW d \in Devices, NEW ok \in BOOLEAN, ForwardCoordinates(d, ok)
      PROVE  /\ InLog(pt) => InLog(pt)' /\ log'[pt[1]][pt[2]] = log[pt[1]][pt[2]]
             /\ UNCHANGED <<devices, rows, dropped, skipped, broadcast>>
    <2>1. log' \in [Partitions -> Seq(Message)]
        BY <1>1, LogGrows DEF TInv
    <2>2. /\ Len(log[pt[1]]) <= Len(log'[pt[1]])
          /\ pt[2] <= Len(log[pt[1]]) => log'[pt[1]][pt[2]] = log[pt[1]][pt[2]]
        BY <1>0, <1>1, LogGrows DEF TInv
    <2>3. Len(log'[pt[1]]) \in Nat
        BY <1>0, <2>1
    <2>4. InLog(pt) => InLog(pt)' /\ log'[pt[1]][pt[2]] = log[pt[1]][pt[2]]
        BY <1>0, <2>2, <2>3 DEF InLog
    <2>5. UNCHANGED <<devices, rows, dropped, skipped, broadcast>>
        BY <1>1 DEF ForwardCoordinates
    <2>. QED  BY <2>4, <2>5
<1>2. ASSUME NEW d \in Devices, RemoveDevice(d)
      PROVE  /\ devices' \subseteq devices
             /\ \/ rows'[pt[1]][pt[2]] >= rows[pt[1]][pt[2]]
                \/ InLog(pt) /\ DeviceOf(pt) \notin devices'
             /\ UNCHANGED <<log, dropped, skipped, broadcast>>
    BY <1>0, <1>2 DEF RemoveDevice, consumerVars, InLog, DeviceOf
<1>3. ASSUME ConsumerStep
      PROVE  /\ UNCHANGED <<log, devices, skipped>>
             /\ rows' \in {rows, RowsAfterInsert(batch)}
             /\ dropped \subseteq dropped' /\ broadcast \subseteq broadcast'
    BY <1>3 DEF ConsumerStep, FetchBatch, ReadMessage, NoValidPoint, SaveBatch, SaveBatchFails,
                SpawnChecks, CommitBatch
<1>4. ASSUME CommitRefused \/ Crash \/ (\E q \in checks : FinishChecks(q)) \/ UNCHANGED vars
      PROVE  UNCHANGED <<log, devices, rows, dropped, broadcast>> /\ skipped \subseteq skipped'
    BY <1>4 DEF CommitRefused, Crash, FinishChecks, Rejoin, vars
<1>5. CASE ConsumerStep
    <2>1. rows'[pt[1]][pt[2]] >= rows[pt[1]][pt[2]]
        BY <1>0, <1>3, <1>5, InsertedRows
    <2>. QED  BY <1>3, <1>5, <2>1 DEF InLog
<1>6. CASE CommitRefused \/ Crash \/ (\E q \in checks : FinishChecks(q)) \/ UNCHANGED vars
    <2>1. rows' = rows /\ UNCHANGED <<log, devices, dropped, broadcast>> /\ skipped \subseteq skipped'
        BY <1>4, <1>6
    <2>. QED  BY <1>0, <2>1 DEF InLog
<1>7. CASE \E d \in Devices, ok \in BOOLEAN : ForwardCoordinates(d, ok)
    BY <1>0, <1>1, <1>7
<1>8. CASE \E d \in Devices : RemoveDevice(d)
    BY <1>0, <1>2, <1>8 DEF InLog
<1>. QED  BY <1>5, <1>6, <1>7, <1>8 DEF Next

Stored(pt) == rows[pt[1]][pt[2]] > 0 \/ DeviceGone(pt)

LEMMA StoredStays ==
    ASSUME TInv, TInv', [Next]_vars, NEW pt \in Point, Stored(pt)
    PROVE  Stored(pt)'
<1>1. rows[pt[1]][pt[2]] \in Nat /\ rows'[pt[1]][pt[2]] \in Nat
    <2>1. pt[1] \in Partitions /\ pt[2] \in Offsets
        BY DEF Point
    <2>. QED  BY <2>1 DEF TInv, TypeOK
<1>. QED  BY <1>1, StepData DEF Stored, DeviceGone, DeviceOf

LEMMA AccountedStays ==
    ASSUME TInv, TInv', [Next]_vars, NEW pt \in Point, InLog(pt), Accounted(pt)
    PROVE  Accounted(pt)'
<1>1. CASE Stored(pt)
    BY <1>1, StoredStays DEF Stored, Accounted
<1>2. CASE ~Stored(pt)
    BY <1>2, StepData DEF Stored, Accounted
<1>. QED  BY <1>1, <1>2

-----------------------------------------------------------------------------
(* Every message is accounted for. *)

LEMMA InBatchValid ==
    ASSUME TInv, batch.stage # "idle", NEW pt \in Point, InBatch(pt)
    PROVE  InLog(pt) /\ (pt \in ValidPoints(batch) <=> log[pt[1]][pt[2]].valid)
<1>1. pt[2] \in Nat /\ batch.last <= Len(log[batch.part]) /\ batch.last \in Nat
         /\ batch.first \in Nat /\ Len(log[pt[1]]) \in Nat
    BY PointFields, BatchFields DEF TInv, TypeOK, Reading
<1>. QED  BY <1>1 DEF InBatch, InLog, ValidPoints

LEMMA DoneInLog ==
    ASSUME TInv, NEW pt \in Point, Done(pt)
    PROVE  InLog(pt)
<1>1. pt[1] \in Partitions /\ pt[2] \in Nat /\ position[pt[1]] \in Nat
         /\ Len(log[pt[1]]) \in Nat /\ position[pt[1]] <= Len(log[pt[1]])
    BY PointFields DEF TInv, Reading
<1>. QED  BY <1>1, InBatchValid DEF Done, InLog, InBatch

LEMMA StepAccounted ==
    ASSUME TInv, TInv', DoneIsAccounted, [Next]_vars
    PROVE  DoneIsAccounted'
<1> SUFFICES ASSUME NEW pt \in Point, Done(pt)' PROVE Accounted(pt)'
    BY DEF DoneIsAccounted
<1>1. CASE Done(pt)
    BY <1>1, DoneInLog, AccountedStays DEF DoneIsAccounted
<1>2. ASSUME ~Done(pt) PROVE Accounted(pt)'
    <2>0. pt[1] \in Partitions /\ rows[pt[1]][pt[2]] \in Nat
        BY PointFields
    <2>1. CASE NoValidPoint \/ SaveBatch \/ SaveBatchFails
        <3>1. InBatch(pt) /\ batch.stage = "reading"
            BY <1>2, <2>1, DoneMoves DEF NoValidPoint, SaveBatch, SaveBatchFails, LoopOver
        <3>2. log' = log
            BY <2>1 DEF NoValidPoint, SaveBatch, SaveBatchFails
        <3>3. pt \in ValidPoints(batch) <=> log[pt[1]][pt[2]].valid
            BY <3>1, InBatchValid
        <3>4. CASE NoValidPoint
            BY <3>2, <3>3, <3>4 DEF NoValidPoint, Accounted
        <3>5. CASE SaveBatch
            BY <2>0, <3>2, <3>3, <3>5, InsertedRows DEF SaveBatch, Accounted
        <3>6. CASE SaveBatchFails
            BY <3>2, <3>3, <3>6 DEF SaveBatchFails, Accounted
        <3>. QED  BY <2>1, <3>4, <3>5, <3>6
    <2>2. CASE CommitRefused \/ Crash
        <3>1. Rejoin
            BY <2>2 DEF CommitRefused, Crash
        <3>2. batch'.stage = "idle"
            BY <3>1, BatchFields DEF Rejoin, TInv, TypeOK, Stages
        <3>3. position'[pt[1]] = ResumeAt(pt[1])
            BY <2>0, <3>1 DEF Rejoin
        <3>4. pt[2] <= ResumeAt(pt[1]) /\ pt[2] > position[pt[1]]
            <4>1. pt[2] \in Nat /\ position[pt[1]] \in Nat
                BY PointFields
            <4>. QED  BY <1>2, <3>2, <3>3, <4>1 DEF Done
        <3>. QED  BY <3>1, <3>4 DEF Rejoin, Accounted
    <2>3. CASE (\E p \in Partitions : FetchBatch(p)) \/ ReadMessage \/ SpawnChecks \/ CommitBatch
        BY <1>2, <2>3, DoneMoves
    <2>4. CASE \/ \E d \in Devices, ok \in BOOLEAN : ForwardCoordinates(d, ok)
               \/ \E d \in Devices : RemoveDevice(d)
               \/ \E q \in checks : FinishChecks(q)
               \/ UNCHANGED vars
        <3>1. UNCHANGED <<position, batch>>
            BY <2>4 DEF ForwardCoordinates, RemoveDevice, FinishChecks, consumerVars, vars
        <3>. QED  BY <1>2, <3>1, DoneMoves
    <2>. QED  BY <2>1, <2>2, <2>3, <2>4 DEF Next, ConsumerStep
<1>. QED  BY <1>1, <1>2

(* No offset is committed over a message that was not stored, refused by the
   validator, in a failed INSERT, of a removed device, or skipped by a start
   without a committed offset. *)
THEOREM NothingIsPassedOver == Spec => []CommittedIsAccounted
<1>1. Init => DoneIsAccounted
    <2> SUFFICES ASSUME Init, NEW pt \in Point, Done(pt) PROVE FALSE
        BY DEF DoneIsAccounted
    <2>1. pt[1] \in Partitions /\ pt[2] \in Nat /\ pt[2] >= 1
        BY ConstantsAssumption DEF Point, Offsets
    <2>2. position[pt[1]] = 0 /\ batch.stage = "idle"
        BY <2>1 DEF Init
    <2>. QED  BY <2>1, <2>2 DEF Done
<1>2. TInv /\ DoneIsAccounted => CommittedIsAccounted
    <2> SUFFICES ASSUME TInv, DoneIsAccounted, NEW pt \in Point, pt[2] <= committed[pt[1]]
                 PROVE  Accounted(pt)
        BY DEF CommittedIsAccounted
    <2>1. pt[1] \in Partitions /\ pt[2] \in Nat
        BY PointFields
    <2>2. committed[pt[1]] \in {NoOffset, position[pt[1]]}
        BY <2>1 DEF TInv, Reading
    <2>. QED  BY <2>1, <2>2 DEF Done, DoneIsAccounted, NoOffset
<1>. QED  BY <1>1, <1>2, InitialTypes, StepTypes, StepAccounted, PTL DEF Spec
-----------------------------------------------------------------------------
(* The batch, the map and the checks. *)

(* While a batch is at work its valid points stay the same. *)
LEMMA SameValidPoints ==
    ASSUME TInv, [Next]_vars, batch.stage # "idle", batch'.part = batch.part,
           batch'.first = batch.first, batch'.last = batch.last, NEW pt \in Point
    PROVE  pt \in ValidPoints(batch)' <=> pt \in ValidPoints(batch)
<1>0. pt[1] \in Partitions /\ pt[2] \in Nat /\ batch.last \in Nat /\ batch.first \in Nat
         /\ Len(log[pt[1]]) \in Nat /\ batch.last <= Len(log[batch.part])
    BY PointFields, BatchFields DEF TInv, TypeOK, Reading
<1>1. InBatch(pt) => InLog(pt) /\ InLog(pt)' /\ log'[pt[1]][pt[2]] = log[pt[1]][pt[2]]
    BY <1>0, StepData DEF InBatch, InLog
<1>2. pt \in ValidPoints(batch) <=> InBatch(pt) /\ InLog(pt) /\ log[pt[1]][pt[2]].valid
    BY DEF ValidPoints, InBatch, InLog
<1>3. pt \in ValidPoints(batch)' <=> InBatch(pt) /\ InLog(pt)' /\ log'[pt[1]][pt[2]].valid
    BY DEF ValidPoints, InBatch, InLog
<1>. QED  BY <1>1, <1>2, <1>3

(* The batch changes its stage or its place, or it is another batch. *)
LEMMA BatchSteps ==
    ASSUME TInv, [Next]_vars
    PROVE  \/ batch'.stage = "idle"
           \/ \E p \in Partitions : FetchBatch(p)
           \/ /\ batch.stage # "idle" /\ batch'.part = batch.part
              /\ batch'.first = batch.first /\ batch'.last = batch.last
<1>0. batch \in Batch
    BY DEF TInv, TypeOK
<1>1. CASE ReadMessage
    BY <1>0, <1>1, BatchFields DEF ReadMessage
<1>2. CASE NoValidPoint \/ SaveBatch \/ SaveBatchFails \/ SpawnChecks
    <2>1. \E t \in {"saved", "done"} : batch' = [batch EXCEPT !.stage = t]
        BY <1>2 DEF NoValidPoint, SaveBatch, SaveBatchFails, SpawnChecks
    <2>2. batch.stage # "idle"
        BY <1>2 DEF NoValidPoint, SaveBatch, SaveBatchFails, SpawnChecks, LoopOver
    <2>. QED  BY <1>0, <2>1, <2>2, BatchFields DEF Stages
<1>3. CASE CommitBatch \/ CommitRefused \/ Crash
    <2>1. batch' = [batch EXCEPT !.stage = "idle"]
        BY <1>3 DEF CommitBatch, CommitRefused, Crash, Rejoin
    <2>. QED  BY <1>0, <2>1, BatchFields DEF Stages
<1>4. CASE \/ \E d \in Devices, ok \in BOOLEAN : ForwardCoordinates(d, ok)
           \/ \E d \in Devices : RemoveDevice(d)
           \/ \E q \in checks : FinishChecks(q)
           \/ UNCHANGED vars
    <2>1. batch' = batch
        BY <1>4 DEF ForwardCoordinates, RemoveDevice, FinishChecks, consumerVars, vars
    <2>. QED  BY <2>1
<1>. QED  BY <1>1, <1>2, <1>3, <1>4 DEF Next, ConsumerStep

(* A row appears by an INSERT of the batch only, after the loop. *)
LEMMA NewRows ==
    ASSUME TInv, [Next]_vars, NEW pt \in Point, rows'[pt[1]][pt[2]] > 0
    PROVE  rows[pt[1]][pt[2]] > 0 \/ (LoopOver /\ pt \in ValidPoints(batch))
<1>0. /\ pt[1] \in Partitions /\ pt[2] \in Offsets /\ rows[pt[1]][pt[2]] \in Nat
    BY PointFields
<1>1. ASSUME NEW d \in Devices, RemoveDevice(d)
      PROVE  rows'[pt[1]][pt[2]] \in {0, rows[pt[1]][pt[2]]}
    BY <1>0, <1>1 DEF RemoveDevice
<1>2. CASE SaveBatch \/ SaveBatchFails
    <2>1. LoopOver /\ rows' \in {rows, RowsAfterInsert(batch)}
        BY <1>2 DEF SaveBatch, SaveBatchFails
    <2>. QED  BY <2>1, <1>0, InsertedRows
<1>3. CASE \E d \in Devices : RemoveDevice(d)
    BY <1>0, <1>1, <1>3
<1>4. CASE \/ \E d \in Devices, ok \in BOOLEAN : ForwardCoordinates(d, ok)
           \/ \E p \in Partitions : FetchBatch(p)
           \/ ReadMessage \/ NoValidPoint \/ SpawnChecks \/ CommitBatch
           \/ \E q \in checks : FinishChecks(q)
           \/ CommitRefused \/ Crash \/ UNCHANGED vars
    <2>1. rows' = rows
        BY <1>4 DEF ForwardCoordinates, FetchBatch, ReadMessage, NoValidPoint, SpawnChecks,
                    CommitBatch, FinishChecks, CommitRefused, Crash, vars
    <2>. QED  BY <2>1
<1>. QED  BY <1>2, <1>3, <1>4 DEF Next, ConsumerStep

LEMMA StepSent ==
    ASSUME TInv, SentSoFar, [Next]_vars
    PROVE  SentSoFar'
<1>1. ASSUME NEW pt \in Point, rows'[pt[1]][pt[2]] > 0 PROVE pt \in broadcast'
    <2>1. pt \in broadcast
        <3>1. CASE rows[pt[1]][pt[2]] > 0
            BY <3>1 DEF SentSoFar, StoredWasBroadcast
        <3>2. CASE LoopOver /\ pt \in ValidPoints(batch)
            <4>1. pt[2] \in Nat /\ batch.last \in Nat /\ batch.next \in Nat /\ batch.first \in Nat
                BY PointFields, BatchFields DEF TInv, TypeOK
            <4>2. pt[2] < batch.next
                BY <3>2, <4>1 DEF ValidPoints, LoopOver
            <4>. QED  BY <3>2, <4>2 DEF SentSoFar, LoopOver
        <3>. QED  BY <1>1, <3>1, <3>2, NewRows
    <2>. QED  BY <2>1, StepData
<1>2. ASSUME NEW pt \in Point, batch'.stage = "reading", pt \in ValidPoints(batch)',
             pt[2] < batch'.next
      PROVE  pt \in broadcast'
    <2>0. pt = <<pt[1], pt[2]>> /\ pt[2] \in Nat /\ pt[1] \in Partitions /\ position[pt[1]] \in Nat
        BY PointFields
    <2>1. CASE \E p \in Partitions : FetchBatch(p)
        <3>1. batch'.first = batch'.next /\ batch'.first \in Nat
            BY <2>1 DEF FetchBatch, TInv, TypeOK
        <3>2. pt[2] >= batch'.first
            BY <1>2, <2>0, <3>1 DEF ValidPoints
        <3>. QED  BY <1>2, <2>0, <3>1, <3>2
    <2>2. CASE ~(\E p \in Partitions : FetchBatch(p))
        <3>1. /\ batch.stage # "idle" /\ batch'.part = batch.part
              /\ batch'.first = batch.first /\ batch'.last = batch.last
            BY <1>2, <2>2, BatchSteps
        <3>2. pt \in ValidPoints(batch)
            BY <1>2, <3>1, SameValidPoints
        <3>3. CASE ReadMessage
            <4>1. batch'.next = batch.next + 1 /\ batch.next \in Nat /\ batch.stage = "reading"
                BY <3>3, BatchFields DEF ReadMessage, TInv, TypeOK
            <4>2. CASE pt[2] < batch.next
                BY <3>2, <3>3, <4>1, <4>2 DEF SentSoFar, ReadMessage
            <4>3. CASE pt[2] = batch.next
                <5>1. pt[1] = batch.part /\ log[pt[1]][pt[2]].valid
                    BY <3>2 DEF ValidPoints
                <5>2. broadcast' = IF log[pt[1]][pt[2]].valid THEN broadcast \cup {<<pt[1], pt[2]>>}
                                   ELSE broadcast
                    BY <3>3, <4>3, <5>1 DEF ReadMessage
                <5>. QED  BY <2>0, <5>1, <5>2
            <4>. QED  BY <1>2, <2>0, <4>1, <4>2, <4>3
        <3>4. CASE NoValidPoint \/ SaveBatch \/ SaveBatchFails \/ SpawnChecks
            <4>1. \E t \in {"saved", "done"} : batch' = [batch EXCEPT !.stage = t]
                BY <3>4 DEF NoValidPoint, SaveBatch, SaveBatchFails, SpawnChecks
            <4>. QED  BY <1>2, <4>1, BatchFields DEF TInv, TypeOK, Stages
        <3>5. CASE CommitBatch \/ CommitRefused \/ Crash
            <4>1. batch' = [batch EXCEPT !.stage = "idle"]
                BY <3>5 DEF CommitBatch, CommitRefused, Crash, Rejoin
            <4>. QED  BY <1>2, <4>1, BatchFields DEF TInv, TypeOK, Stages
        <3>6. CASE \/ \E d \in Devices, ok \in BOOLEAN : ForwardCoordinates(d, ok)
                   \/ \E d \in Devices : RemoveDevice(d)
                   \/ \E q \in checks : FinishChecks(q)
                   \/ UNCHANGED vars
            <4>1. batch' = batch
                BY <3>6 DEF ForwardCoordinates, RemoveDevice, FinishChecks, consumerVars, vars
            <4>. QED  BY <1>2, <3>2, <4>1, StepData DEF SentSoFar
        <3>. QED  BY <2>2, <3>3, <3>4, <3>5, <3>6 DEF Next, ConsumerStep
    <2>. QED  BY <2>1, <2>2
<1>3. ValidPoints(batch)' \subseteq Point
    BY DEF ValidPoints
<1>. QED  BY <1>1, <1>2, <1>3 DEF SentSoFar, StoredWasBroadcast

(* A point the history has was sent to the room of its device. *)
THEOREM HistoryWasBroadcast == Spec => []StoredWasBroadcast
<1>1. Init => SentSoFar
    <2> SUFFICES ASSUME Init PROVE SentSoFar
        OBVIOUS
    <2>1. batch.stage = "idle" /\ \A pt \in Point : rows[pt[1]][pt[2]] = 0
        BY DEF Init, Point
    <2>. QED  BY <2>1 DEF SentSoFar, StoredWasBroadcast
<1>2. SentSoFar => StoredWasBroadcast
    BY DEF SentSoFar
<1>. QED  BY <1>1, <1>2, InitialTypes, StepTypes, StepSent, PTL DEF Spec

LEMMA StepSaved ==
    ASSUME TInv, TInv', SavedSoFar, [Next]_vars
    PROVE  SavedSoFar'
<1>1. \A pt \in Point : Stored(pt) => Stored(pt)'
    BY StoredStays
<1>2. ASSUME NEW pt \in checks' \cup checked' PROVE Stored(pt)'
    <2>1. CASE pt \in checks \cup checked
        BY <1>1, <2>1 DEF SavedSoFar, ChecksFollowSave, Stored, TInv, TypeOK
    <2>2. CASE SpawnChecks /\ pt \in ValidPoints(batch)
        <3>1. pt \in Point /\ Stored(pt)
            BY <2>2 DEF SpawnChecks, SavedSoFar, Stored, ValidPoints
        <3>. QED  BY <1>1, <3>1
    <2>3. pt \in checks \cup checked \/ (SpawnChecks /\ pt \in ValidPoints(batch))
        <3>1. CASE SpawnChecks
            BY <1>2, <3>1 DEF SpawnChecks
        <3>2. CASE \E q \in checks : FinishChecks(q)
            BY <1>2, <3>2 DEF FinishChecks
        <3>3. CASE ~SpawnChecks /\ ~(\E q \in checks : FinishChecks(q))
            <4>1. checks' \subseteq checks /\ checked' = checked
                BY <3>3 DEF Next, ConsumerStep, ForwardCoordinates, RemoveDevice, FetchBatch,
                            ReadMessage, NoValidPoint, SaveBatch, SaveBatchFails, CommitBatch,
                            CommitRefused, Crash, vars
            <4>. QED  BY <1>2, <4>1
        <3>. QED  BY <3>1, <3>2, <3>3
    <2>. QED  BY <2>1, <2>2, <2>3
<1>3. ASSUME batch'.stage = "saved", NEW pt \in Point, pt \in ValidPoints(batch)'
      PROVE  Stored(pt)'
    <2>0. batch \in Batch
        BY DEF TInv, TypeOK
    <2>1. ~(\E p \in Partitions : FetchBatch(p))
        BY <1>3 DEF FetchBatch
    <2>2. /\ batch.stage # "idle" /\ batch'.part = batch.part
          /\ batch'.first = batch.first /\ batch'.last = batch.last
        BY <1>3, <2>1, BatchSteps
    <2>3. pt \in ValidPoints(batch)
        BY <1>3, <2>2, SameValidPoints
    <2>4. CASE SaveBatch
        <3>1. rows' = RowsAfterInsert(batch)
            BY <2>4 DEF SaveBatch
        <3>. QED  BY <2>3, <3>1, PointFields, InsertedRows DEF Stored
    <2>5. CASE batch' = batch
        BY <1>1, <1>3, <2>3, <2>5 DEF SavedSoFar, Stored
    <2>6. CASE NoValidPoint \/ SaveBatchFails \/ SpawnChecks
        <3>1. batch' = [batch EXCEPT !.stage = "done"]
            BY <2>6 DEF NoValidPoint, SaveBatchFails, SpawnChecks
        <3>. QED  BY <1>3, <2>0, <3>1, BatchFields DEF Stages
    <2>7. CASE CommitBatch \/ CommitRefused \/ Crash
        <3>1. batch' = [batch EXCEPT !.stage = "idle"]
            BY <2>7 DEF CommitBatch, CommitRefused, Crash, Rejoin
        <3>. QED  BY <1>3, <2>0, <3>1, BatchFields DEF Stages
    <2>8. CASE ReadMessage
        <3>1. batch.stage = "reading" /\ batch'.stage = batch.stage
            BY <2>0, <2>8, BatchFields DEF ReadMessage
        <3>. QED  BY <1>3, <3>1
    <2>9. CASE \/ \E d \in Devices, ok \in BOOLEAN : ForwardCoordinates(d, ok)
               \/ \E d \in Devices : RemoveDevice(d)
               \/ \E q \in checks : FinishChecks(q)
               \/ UNCHANGED vars
        BY <2>5, <2>9 DEF ForwardCoordinates, RemoveDevice, FinishChecks, consumerVars, vars
    <2>. QED  BY <2>1, <2>4, <2>6, <2>7, <2>8, <2>9 DEF Next, ConsumerStep
<1>4. ValidPoints(batch)' \subseteq Point
    BY DEF ValidPoints
<1>. QED  BY <1>2, <1>3, <1>4 DEF SavedSoFar, ChecksFollowSave, Stored

(* No check ever runs on a point the database does not hold, unless its
   device, and its rows with it, was removed. *)
THEOREM ChecksAreOfStoredPoints == Spec => []ChecksFollowSave
<1>1. Init => SavedSoFar
    BY DEF Init, SavedSoFar, ChecksFollowSave
<1>2. SavedSoFar => ChecksFollowSave
    BY DEF SavedSoFar
<1>. QED  BY <1>1, <1>2, InitialTypes, StepTypes, StepSaved, PTL DEF Spec

(* Valid points are refused by the INSERT only when the database fails or a
   device of the batch was removed. *)
THEOREM LossesHaveACause == Spec => []LossHasACause
<1>1. Init => LossHasACause
    BY DEF Init, LossHasACause
<1>2. TInv /\ LossHasACause /\ [Next]_vars => LossHasACause'
    <2> SUFFICES ASSUME TInv, LossHasACause, [Next]_vars, outages' = 0, devices' = Devices
                 PROVE  dropped' = {}
        BY DEF LossHasACause
    <2>1. outages \in Nat /\ devices \subseteq Devices /\ log \in [Partitions -> Seq(Message)]
             /\ batch \in Batch
        BY DEF TInv, TypeOK
    <2>2. ASSUME UNCHANGED <<outages, devices, dropped>> PROVE dropped' = {}
        BY <2>2 DEF LossHasACause
    <2>3. InsertAllowed(batch) \/ devices # Devices
        <3>1. ASSUME devices = Devices, NEW pt \in ValidPoints(batch) PROVE DeviceOf(pt) \in Devices
            <4>1. pt \in Point /\ pt[1] \in Partitions /\ pt[2] \in 1..Len(log[pt[1]])
                <5>1. pt \in Point /\ pt[1] = batch.part /\ pt[2] <= Len(log[batch.part])
                    BY DEF ValidPoints
                <5>. QED  BY <5>1, <2>1, PointFields, ConstantsAssumption DEF Offsets
            <4>2. log[pt[1]][pt[2]] \in Message
                BY <2>1, <4>1
            <4>. QED  BY <4>2 DEF DeviceOf, Message
        <3>. QED  BY <3>1 DEF InsertAllowed
    <2>4. CASE SaveBatchFails
        <3>1. devices' = devices
            BY <2>4 DEF SaveBatchFails
        <3>. QED  BY <2>1, <2>3, <2>4, <3>1 DEF SaveBatchFails
    <2>5. ASSUME NEW d \in Devices, RemoveDevice(d) PROVE FALSE
        BY <2>5 DEF RemoveDevice
    <2>6. CASE \/ \E d \in Devices, ok \in BOOLEAN : ForwardCoordinates(d, ok)
               \/ \E q \in checks : FinishChecks(q)
               \/ CommitRefused \/ Crash \/ UNCHANGED vars
        BY <2>2, <2>6 DEF ForwardCoordinates, FinishChecks, CommitRefused, Crash, faultVars, vars
    <2>7. CASE \/ \E p \in Partitions : FetchBatch(p)
               \/ ReadMessage \/ NoValidPoint \/ SaveBatch \/ SpawnChecks \/ CommitBatch
        BY <2>2, <2>7 DEF FetchBatch, ReadMessage, NoValidPoint, SaveBatch, SpawnChecks,
                          CommitBatch, faultVars
    <2>. QED  BY <2>4, <2>5, <2>6, <2>7 DEF Next, ConsumerStep
<1>. QED  BY <1>1, <1>2, InitialTypes, StepTypes, PTL DEF Spec

-----------------------------------------------------------------------------
(* The speeding check. *)

-----------------------------------------------------------------------------
(* The processes at some point of their code form a finite set, and a step of one
   process moves only that process in or out. *)

\* 1 if x is in S, else 0.
Has(S, x) == IF x \in S THEN 1 ELSE 0

(* Two sets that agree except perhaps on x: their sizes differ by x alone. *)
LEMMA ChangeOne ==
    ASSUME NEW S, NEW T, NEW x, IsFiniteSet(S), S \ {x} = T \ {x}
    PROVE  /\ IsFiniteSet(T)
           /\ Cardinality(S) \in Nat
           /\ Cardinality(T) \in Nat
           /\ Cardinality(T) = Cardinality(S) + Has(T, x) - Has(S, x)
<1>1. IsFiniteSet(S \ {x}) /\ Cardinality(S \ {x}) = Cardinality(S) - Has(S, x)
    BY FS_RemoveElement, FS_CardinalityType DEF Has
<1>2. CASE x \in T
    <2>1. T = (S \ {x}) \cup {x}
        BY <1>2
    <2>2. IsFiniteSet(T) /\ Cardinality(T) = Cardinality(S \ {x}) + 1
        BY <1>1, <2>1, FS_AddElement
    <2>. QED  BY <1>1, <1>2, <2>2, FS_CardinalityType DEF Has
<1>3. CASE x \notin T
    <2>1. T = S \ {x}
        BY <1>3
    <2>. QED  BY <1>1, <1>3, <2>1, FS_CardinalityType DEF Has
<1>. QED  BY <1>2, <1>3

(* Parts of a finite set are no larger than it. *)
LEMMA PartOf ==
    ASSUME NEW S, IsFiniteSet(S), NEW T, T \subseteq S
    PROVE  /\ IsFiniteSet(T)
           /\ Cardinality(T) \in Nat
           /\ Cardinality(S) \in Nat
           /\ Cardinality(T) <= Cardinality(S)
BY FS_Subset, FS_CardinalityType

(* Two disjoint parts together are no larger than the whole. *)
LEMMA DisjointParts ==
    ASSUME NEW S, IsFiniteSet(S), NEW T, NEW U,
           T \subseteq S, U \subseteq S, T \cap U = {}
    PROVE  Cardinality(T) + Cardinality(U) <= Cardinality(S)
<1>1. IsFiniteSet(T) /\ IsFiniteSet(U)
    BY PartOf
<1>2. Cardinality(T \cup U) = Cardinality(T) + Cardinality(U)
    <2>1. Cardinality(T \cup U)
              = Cardinality(T) + Cardinality(U) - Cardinality(T \cap U)
        BY <1>1, FS_Union
    <2>2. Cardinality(T \cap U) = 0
        BY FS_EmptySet
    <2>3. Cardinality(T) \in Nat /\ Cardinality(U) \in Nat
        BY <1>1, FS_CardinalityType
    <2>. QED  BY <2>1, <2>2, <2>3
<1>3. Cardinality(T \cup U) <= Cardinality(S)
    BY PartOf
<1>. QED  BY <1>2, <1>3

-----------------------------------------------------------------------------
(* Every variable keeps its shape, in every behaviour of the checks. *)
THEOREM SpeedTypesCorrect == SpeedSpec => []SpeedTypeOK
<1>1. SpeedInit => SpeedTypeOK
    BY SpeedAssumption DEF SpeedInit, SpeedTypeOK, Check, CacheEntry, Calls
<1>2. SpeedTypeOK /\ [SpeedNext]_speedVars => SpeedTypeOK'
    <2> SUFFICES ASSUME SpeedTypeOK, [SpeedNext]_speedVars PROVE SpeedTypeOK'
        OBVIOUS
    <2> USE SpeedAssumption DEF SpeedTypeOK, Check, Calls, At, GoTo
    <2>1. ASSUME NEW c \in Checks, NEW d \in Trackers, NEW s \in Speeds,
                 StartCheck(c, d, s)
          PROVE  SpeedTypeOK'
        BY <2>1 DEF StartCheck
    <2>2. ASSUME NEW c \in Checks, CheckStep(c)
          PROVE  SpeedTypeOK'
        <3>1. CASE GetLimit(c)
            <4>1. cache[chk[c].dev] \in CacheEntry
                OBVIOUS
            <4>. QED  BY <3>1, <4>1 DEF GetLimit, Judge, CacheEntry
        <3>2. CASE FindDevice(c)
            BY <3>2 DEF FindDevice
        <3>3. CASE CacheLimit(c)
            <4>1. [value |-> chk[c].limit, left |-> CacheTTL] \in CacheEntry
                BY DEF CacheEntry
            <4>. QED  BY <3>3, <4>1 DEF CacheLimit, Judge
        <3>4. CASE GetCooldown(c)
            BY <3>4 DEF GetCooldown
        <3>5. CASE CreateAlert(c)
            BY <3>5 DEF CreateAlert
        <3>6. CASE SetCooldown(c)
            BY <3>6 DEF SetCooldown
        <3>. QED  BY <2>2, <3>1, <3>2, <3>3, <3>4, <3>5, <3>6 DEF CheckStep
    <2>3. ASSUME NEW c \in Checks, GetFails(c)
          PROVE  SpeedTypeOK'
        BY <2>3 DEF GetFails
    <2>4. ASSUME NEW c \in Checks, CallFails(c)
          PROVE  SpeedTypeOK'
        BY <2>4 DEF CallFails
    <2>5. ASSUME NEW d \in Trackers, NEW l \in Limits, UpdateLimit(d, l)
          PROVE  SpeedTypeOK'
        BY <2>5 DEF UpdateLimit
    <2>6. CASE Tick
        <3>1. cooldown' \in [Trackers -> 0..CooldownTTL]
            BY <2>6 DEF Tick
        <3>2. cache' \in [Trackers -> CacheEntry]
            <4>1. ASSUME NEW d \in Trackers
                  PROVE  [cache[d] EXCEPT !.left = IF @ > 0 THEN @ - 1 ELSE 0]
                             \in CacheEntry
                <5>1. cache[d] \in CacheEntry /\ cache[d].left \in 0..CacheTTL
                    BY DEF CacheEntry
                <5>2. (IF cache[d].left > 0 THEN cache[d].left - 1 ELSE 0)
                          \in 0..CacheTTL
                    BY <5>1
                <5>. QED  BY <5>1, <5>2 DEF CacheEntry
            <4>. QED  BY <2>6, <4>1 DEF Tick
        <3>3. \A d \in Trackers : Cardinality(Alerting(d)) \in Nat
            BY PartOf DEF Alerting
        <3>4. cycle' \in [Trackers -> Nat]
            BY <2>6, <3>3 DEF Tick
        <3>. QED  BY <2>6, <3>1, <3>2, <3>4 DEF Tick
    <2>7. CASE UNCHANGED speedVars
        BY <2>7 DEF speedVars
    <2>. QED  BY <2>1, <2>2, <2>3, <2>4, <2>5, <2>6, <2>7 DEF SpeedNext
<1>. QED  BY <1>1, <1>2, PTL DEF SpeedSpec

-----------------------------------------------------------------------------
(* Counting the checks that hold a claim on a device's cooldown cycle. *)

(* The two groups are disjoint parts of the finite set of checks. *)
LEMMA ClaimsAreCounted ==
    ASSUME NEW d
    PROVE  /\ IsFiniteSet(Alerting(d)) /\ IsFiniteSet(Admitted(d))
           /\ Cardinality(Alerting(d)) \in Nat
           /\ Cardinality(Admitted(d)) \in Nat
           /\ Cardinality(Checks) \in Nat
           /\ Cardinality(Alerting(d)) + Cardinality(Admitted(d)) <= Cardinality(Checks)
<1>1. Alerting(d) \subseteq Checks /\ Admitted(d) \subseteq Checks
    BY DEF Alerting, Admitted
<1>2. Alerting(d) \cap Admitted(d) = {}
    BY DEF Alerting, Admitted, At
<1>. QED  BY <1>1, <1>2, PartOf, DisjointParts, SpeedAssumption

\* 1 if the check k is about to make call l for device d, else 0.
Claim(k, l, d) == IF k.call = l /\ k.dev = d THEN 1 ELSE 0

(* A step that changes the check in slot c moves only c in or out of them. *)
LEMMA OneCheckMoves ==
    ASSUME SpeedTypeOK, SpeedTypeOK', NEW c \in Checks,
           \A k \in Checks \ {c} : chk'[k] = chk[k],
           NEW d \in Trackers
    PROVE  /\ Cardinality(Alerting(d)') \in Nat
           /\ Cardinality(Admitted(d)') \in Nat
           /\ Cardinality(Alerting(d)') = Cardinality(Alerting(d))
                  + Claim(chk'[c], "setCooldown", d) - Claim(chk[c], "setCooldown", d)
           /\ Cardinality(Admitted(d)') = Cardinality(Admitted(d))
                  + Claim(chk'[c], "create", d) - Claim(chk[c], "create", d)
<1>1. Alerting(d) \ {c} = Alerting(d)' \ {c}
    BY DEF Alerting, At
<1>2. Admitted(d) \ {c} = Admitted(d)' \ {c}
    BY DEF Admitted, At
<1>3. /\ Has(Alerting(d)', c) = Claim(chk'[c], "setCooldown", d)
      /\ Has(Alerting(d), c) = Claim(chk[c], "setCooldown", d)
      /\ Has(Admitted(d)', c) = Claim(chk'[c], "create", d)
      /\ Has(Admitted(d), c) = Claim(chk[c], "create", d)
    BY DEF Alerting, Admitted, At, Has, Claim
<1>4. IsFiniteSet(Alerting(d)) /\ IsFiniteSet(Admitted(d))
    BY ClaimsAreCounted
<1>5. /\ Cardinality(Alerting(d)') \in Nat
      /\ Cardinality(Alerting(d)') = Cardinality(Alerting(d))
             + Has(Alerting(d)', c) - Has(Alerting(d), c)
    BY <1>1, <1>4, ChangeOne
<1>6. /\ Cardinality(Admitted(d)') \in Nat
      /\ Cardinality(Admitted(d)') = Cardinality(Admitted(d))
             + Has(Admitted(d)', c) - Has(Admitted(d), c)
    BY <1>2, <1>4, ChangeOne
<1>. QED  BY <1>3, <1>5, <1>6

(* What each step of a check does to the slot's call and device, and to the
   device's key and cycle. *)
LEMMA CheckMoves ==
    ASSUME SpeedTypeOK, NEW c \in Checks
    PROVE  /\ \A d \in Trackers, s \in Speeds : StartCheck(c, d, s) =>
                 chk[c].call = "idle" /\ chk'[c].call = "getLimit"
           /\ GetLimit(c) => /\ chk[c].call = "getLimit"
                             /\ chk'[c].call \in {"idle", "getCooldown", "findDevice"}
           /\ FindDevice(c) => /\ chk[c].call = "findDevice"
                               /\ chk'[c].call = "cacheLimit"
           /\ CacheLimit(c) => /\ chk[c].call = "cacheLimit"
                               /\ chk'[c].call \in {"idle", "getCooldown"}
           /\ GetCooldown(c) => /\ chk[c].call = "getCooldown"
                                /\ chk'[c].dev = chk[c].dev
                                /\ chk'[c].call = IF cooldown[chk[c].dev] > 0
                                                  THEN "idle" ELSE "create"
           /\ CreateAlert(c) => /\ chk[c].call = "create"
                                /\ chk'[c].dev = chk[c].dev
                                /\ chk'[c].call = "setCooldown"
           /\ SetCooldown(c) => /\ chk[c].call = "setCooldown"
                                /\ chk'[c].call = "idle"
           /\ GetFails(c) => /\ chk[c].call \in {"getLimit", "getCooldown"}
                             /\ chk'[c].dev = chk[c].dev
                             /\ chk'[c].call \in {"findDevice", "create"}
           /\ CallFails(c) => chk'[c].call = "idle"
<1> USE DEF SpeedTypeOK, Check, Calls, At, GoTo, Judge
<1>1. \A d \in Trackers, s \in Speeds : StartCheck(c, d, s) =>
          chk[c].call = "idle" /\ chk'[c].call = "getLimit"
    BY DEF StartCheck
<1>2. GetLimit(c) => /\ chk[c].call = "getLimit"
                     /\ chk'[c].call \in {"idle", "getCooldown", "findDevice"}
    BY DEF GetLimit
<1>3. /\ FindDevice(c) => chk[c].call = "findDevice" /\ chk'[c].call = "cacheLimit"
      /\ CacheLimit(c) => /\ chk[c].call = "cacheLimit"
                          /\ chk'[c].call \in {"idle", "getCooldown"}
    BY DEF FindDevice, CacheLimit
<1>4. GetCooldown(c) => /\ chk[c].call = "getCooldown"
                        /\ chk'[c].dev = chk[c].dev
                        /\ chk'[c].call = IF cooldown[chk[c].dev] > 0
                                          THEN "idle" ELSE "create"
    BY DEF GetCooldown
<1>5. /\ CreateAlert(c) => /\ chk[c].call = "create"
                           /\ chk'[c].dev = chk[c].dev
                           /\ chk'[c].call = "setCooldown"
      /\ SetCooldown(c) => chk[c].call = "setCooldown" /\ chk'[c].call = "idle"
    BY DEF CreateAlert, SetCooldown
<1>6. /\ GetFails(c) => /\ chk[c].call \in {"getLimit", "getCooldown"}
                        /\ chk'[c].dev = chk[c].dev
                        /\ chk'[c].call \in {"findDevice", "create"}
      /\ CallFails(c) => chk'[c].call = "idle"
    BY DEF GetFails, CallFails
<1>. QED  BY <1>1, <1>2, <1>3, <1>4, <1>5, <1>6

\* Only slot c changes in a step of c.
LEMMA OnlyOneCheck ==
    ASSUME SpeedTypeOK, NEW c \in Checks,
           \/ \E d \in Trackers, s \in Speeds : StartCheck(c, d, s)
           \/ CheckStep(c) \/ GetFails(c) \/ CallFails(c)
    PROVE  \A k \in Checks \ {c} : chk'[k] = chk[k]
BY DEF SpeedTypeOK, StartCheck, CheckStep, GetFails, CallFails, GetLimit, FindDevice,
       CacheLimit, GetCooldown, CreateAlert, SetCooldown, Judge, GoTo

-----------------------------------------------------------------------------
(* The account of the cooldown cycle is kept by every step: a check that found
   no key is admitted or alerting until it sets the key, and while the key
   lives no check is admitted except by a failed Redis read. *)
THEOREM CycleAccountHolds == SpeedSpec => []CycleAccount
<1>1. SpeedInit => CycleAccount
    <2> SUFFICES ASSUME SpeedInit, NEW d \in Trackers
                 PROVE  cooldown[d] = 0 /\ cycle[d] <= Cardinality(Alerting(d)) + faults
        BY DEF CycleAccount, SpeedInit
    <2>. QED  BY ClaimsAreCounted DEF SpeedInit
<1>2. SpeedTypeOK /\ SpeedTypeOK' /\ CycleAccount /\ [SpeedNext]_speedVars => CycleAccount'
    <2> SUFFICES ASSUME SpeedTypeOK, SpeedTypeOK', CycleAccount, [SpeedNext]_speedVars, NEW d \in Trackers
                 PROVE  IF cooldown'[d] > 0
                        THEN cycle'[d] + Cardinality(Admitted(d)') <= Cardinality(Checks) + faults'
                        ELSE cycle'[d] <= Cardinality(Alerting(d)') + faults'
        BY DEF CycleAccount
    <2> DEFINE Goal == IF cooldown'[d] > 0
                       THEN cycle'[d] + Cardinality(Admitted(d)') <= Cardinality(Checks) + faults'
                       ELSE cycle'[d] <= Cardinality(Alerting(d)') + faults'
    <2>a. /\ cooldown[d] \in Nat /\ cycle[d] \in Nat /\ faults \in Nat
          /\ IF cooldown[d] > 0
             THEN cycle[d] + Cardinality(Admitted(d)) <= Cardinality(Checks) + faults
             ELSE cycle[d] <= Cardinality(Alerting(d)) + faults
        BY SpeedAssumption DEF SpeedTypeOK, CycleAccount
    <2>b. /\ Cardinality(Alerting(d)) \in Nat /\ Cardinality(Admitted(d)) \in Nat
          /\ Cardinality(Checks) \in Nat
          /\ Cardinality(Alerting(d)) + Cardinality(Admitted(d)) <= Cardinality(Checks)
        BY ClaimsAreCounted
    <2>c. ASSUME chk' = chk PROVE  /\ Alerting(d)' = Alerting(d)
                                   /\ Admitted(d)' = Admitted(d)
        BY <2>c DEF Alerting, Admitted, At
    \* A step of a check that takes up no claim and whose slot has no key to set.
    <2>d. ASSUME NEW c \in Checks, \A k \in Checks \ {c} : chk'[k] = chk[k],
                 chk'[c].call \notin {"create", "setCooldown"},
                 chk[c].call # "setCooldown",
                 UNCHANGED <<cooldown, cycle, faults>>
          PROVE  Goal
        BY <2>a, <2>b, <2>d, OneCheckMoves DEF Claim
    <2>1. ASSUME NEW c \in Checks, NEW e \in Trackers, NEW s \in Speeds,
                 StartCheck(c, e, s)
          PROVE  Goal
        BY <2>1, <2>d, OnlyOneCheck, CheckMoves DEF StartCheck
    <2>2. ASSUME NEW c \in Checks, CheckStep(c)
          PROVE  Goal
        <3>0. \A k \in Checks \ {c} : chk'[k] = chk[k]
            BY <2>2, OnlyOneCheck
        <3>1. CASE GetLimit(c)
            BY <3>0, <3>1, <2>d, CheckMoves DEF GetLimit
        <3>2. CASE FindDevice(c)
            BY <3>0, <3>2, <2>d, CheckMoves DEF FindDevice
        <3>3. CASE CacheLimit(c)
            BY <3>0, <3>3, <2>d, CheckMoves DEF CacheLimit
        <3>4. CASE GetCooldown(c)
            BY <3>0, <3>4, <2>a, <2>b, CheckMoves, OneCheckMoves DEF GetCooldown, Claim
        <3>5. CASE CreateAlert(c)
            <4>1. /\ cooldown' = cooldown /\ faults' = faults
                  /\ cycle'[d] = IF chk[c].dev = d THEN cycle[d] + 1 ELSE cycle[d]
                BY <3>5 DEF CreateAlert, SpeedTypeOK
            <4>. QED  BY <3>0, <3>5, <4>1, <2>a, <2>b, CheckMoves, OneCheckMoves DEF Claim
        <3>6. CASE SetCooldown(c)
            <4>1. /\ cycle' = cycle /\ faults' = faults
                  /\ cooldown'[d] = IF chk[c].dev = d THEN CooldownTTL ELSE cooldown[d]
                BY <3>6 DEF SetCooldown, SpeedTypeOK
            <4>2. CooldownTTL > 0 /\ CooldownTTL \in Nat
                BY SpeedAssumption
            <4>. QED  BY <3>0, <3>6, <4>1, <4>2, <2>a, <2>b, CheckMoves, OneCheckMoves
                      DEF Claim
        <3>. QED  BY <2>2, <3>1, <3>2, <3>3, <3>4, <3>5, <3>6 DEF CheckStep
    <2>3. ASSUME NEW c \in Checks, GetFails(c)
          PROVE  Goal
        <3>1. UNCHANGED <<cooldown, cycle>> /\ faults' = faults + 1
            BY <2>3 DEF GetFails
        <3>2. \A k \in Checks \ {c} : chk'[k] = chk[k]
            BY <2>3, OnlyOneCheck
        <3>. QED  BY <2>3, <3>1, <3>2, <2>a, <2>b, CheckMoves, OneCheckMoves DEF Claim
    <2>4. ASSUME NEW c \in Checks, CallFails(c)
          PROVE  Goal
        <3>1. UNCHANGED <<cooldown, cycle>> /\ faults' = faults + 1
            BY <2>4 DEF CallFails
        <3>2. \A k \in Checks \ {c} : chk'[k] = chk[k]
            BY <2>4, OnlyOneCheck
        <3>. QED  BY <2>4, <3>1, <3>2, <2>a, <2>b, CheckMoves, OneCheckMoves DEF Claim
    <2>5. ASSUME NEW e \in Trackers, NEW l \in Limits, UpdateLimit(e, l)
          PROVE  Goal
        BY <2>5, <2>a, <2>c DEF UpdateLimit
    <2>6. CASE Tick
        <3>1. /\ Alerting(d)' = Alerting(d) /\ Admitted(d)' = Admitted(d)
              /\ faults' = faults
            BY <2>6, <2>c DEF Tick
        <3>2. /\ cooldown'[d] = IF cooldown[d] > 0 THEN cooldown[d] - 1 ELSE 0
              /\ cycle'[d] = IF cooldown[d] = 1 THEN Cardinality(Alerting(d)) ELSE cycle[d]
            BY <2>6 DEF Tick
        <3>. QED  BY <3>1, <3>2, <2>a, <2>b
    <2>7. CASE UNCHANGED speedVars
        BY <2>7, <2>a, <2>c DEF speedVars
    <2>. QED  BY <2>1, <2>2, <2>3, <2>4, <2>5, <2>6, <2>7 DEF SpeedNext
<1>. QED  BY <1>1, <1>2, SpeedTypesCorrect, PTL DEF SpeedSpec

(* The bound for any number of concurrent checks and faults. *)
THEOREM AlertsPerCycle == SpeedSpec => []AlertsPerCycleBounded
<1>1. SpeedTypeOK /\ CycleAccount => AlertsPerCycleBounded
    BY ClaimsAreCounted, SpeedAssumption
    DEF SpeedTypeOK, CycleAccount, AlertsPerCycleBounded
<1>. QED  BY <1>1, SpeedTypesCorrect, CycleAccountHolds, PTL

(* What the comment of checkSpeedViolation promises, where it is true: with one
   check at a time and no failing call, one alert per cooldown cycle. *)
THEOREM OneAlertWhenSerial ==
    ASSUME Cardinality(Checks) = 1, MaxFaults = 0
    PROVE  SpeedSpec => []OneAlertPerCycle
<1>1. SpeedTypeOK /\ AlertsPerCycleBounded => OneAlertPerCycle
    BY DEF SpeedTypeOK, AlertsPerCycleBounded, OneAlertPerCycle
<1>. QED  BY <1>1, SpeedTypesCorrect, AlertsPerCycle, PTL

-----------------------------------------------------------------------------
\* A check that is about to set the key has an alert behind it.
AlertingHasAnAlert ==
    \A c \in Checks : At(c, "setCooldown") => cycle[chk[c].dev] > 0

(* A live cooldown key always stands for an alert of its cycle, whatever fails
   and however the checks interleave. *)
THEOREM CooldownIsJustified == SpeedSpec => []CooldownHasAnAlert
<1> DEFINE Inv == CooldownHasAnAlert /\ AlertingHasAnAlert
<1>1. SpeedInit => Inv
    BY DEF SpeedInit, CooldownHasAnAlert, AlertingHasAnAlert, At
<1>2. SpeedTypeOK /\ SpeedTypeOK' /\ Inv /\ [SpeedNext]_speedVars => Inv'
    <2> SUFFICES ASSUME SpeedTypeOK, SpeedTypeOK', CooldownHasAnAlert, AlertingHasAnAlert,
                        [SpeedNext]_speedVars
                 PROVE  CooldownHasAnAlert' /\ AlertingHasAnAlert'
        OBVIOUS
    <2> USE DEF CooldownHasAnAlert, AlertingHasAnAlert, At
    <2>a. /\ cooldown \in [Trackers -> Nat] /\ cycle \in [Trackers -> Nat]
          /\ \A c \in Checks : chk[c].dev \in Trackers
        BY SpeedAssumption DEF SpeedTypeOK, Check
    <2>1. ASSUME NEW c \in Checks, NEW e \in Trackers, NEW s \in Speeds,
                 StartCheck(c, e, s)
          PROVE  CooldownHasAnAlert' /\ AlertingHasAnAlert'
        BY <2>1, OnlyOneCheck, CheckMoves DEF StartCheck
    <2>2. ASSUME NEW c \in Checks, CheckStep(c)
          PROVE  CooldownHasAnAlert' /\ AlertingHasAnAlert'
        <3>0. \A k \in Checks \ {c} : chk'[k] = chk[k]
            BY <2>2, OnlyOneCheck
        <3>1. CASE GetLimit(c)
            BY <3>0, <3>1, CheckMoves DEF GetLimit
        <3>2. CASE FindDevice(c)
            BY <3>0, <3>2, CheckMoves DEF FindDevice
        <3>3. CASE CacheLimit(c)
            BY <3>0, <3>3, CheckMoves DEF CacheLimit
        <3>4. CASE GetCooldown(c)
            BY <3>0, <3>4, CheckMoves DEF GetCooldown
        <3>5. CASE CreateAlert(c)
            <4>1. /\ cycle'[chk[c].dev] > 0
                  /\ \A d \in Trackers : cycle[d] > 0 => cycle'[d] > 0
                  /\ cooldown' = cooldown
                BY <3>5, <2>a DEF CreateAlert
            <4>. QED  BY <3>0, <3>5, <4>1, <2>a, CheckMoves
        <3>6. CASE SetCooldown(c)
            BY <3>0, <3>6, <2>a, CheckMoves DEF SetCooldown
        <3>. QED  BY <2>2, <3>1, <3>2, <3>3, <3>4, <3>5, <3>6 DEF CheckStep
    <2>3. ASSUME NEW c \in Checks, GetFails(c)
          PROVE  CooldownHasAnAlert' /\ AlertingHasAnAlert'
        BY <2>3, OnlyOneCheck, CheckMoves DEF GetFails
    <2>4. ASSUME NEW c \in Checks, CallFails(c)
          PROVE  CooldownHasAnAlert' /\ AlertingHasAnAlert'
        BY <2>4, OnlyOneCheck, CheckMoves DEF CallFails
    <2>5. ASSUME NEW e \in Trackers, NEW l \in Limits, UpdateLimit(e, l)
          PROVE  CooldownHasAnAlert' /\ AlertingHasAnAlert'
        BY <2>5 DEF UpdateLimit
    <2>6. CASE Tick
        <3>1. \A d \in Trackers :
                 /\ cooldown'[d] = IF cooldown[d] > 0 THEN cooldown[d] - 1 ELSE 0
                 /\ cycle'[d] = IF cooldown[d] = 1 THEN Cardinality(Alerting(d)) ELSE cycle[d]
            BY <2>6 DEF Tick
        <3>2. CooldownHasAnAlert'
            BY <3>1, <2>a
        <3>3. ASSUME NEW c \in Checks, At(c, "setCooldown")
              PROVE  cycle'[chk[c].dev] > 0
            <4>1. c \in Alerting(chk[c].dev)
                BY <3>3 DEF Alerting
            <4>2. Cardinality(Alerting(chk[c].dev)) > 0
                BY <4>1, ClaimsAreCounted, FS_EmptySet
            <4>. QED  BY <3>1, <3>3, <4>2, <2>a
        <3>. QED  BY <2>6, <3>2, <3>3 DEF Tick
    <2>7. CASE UNCHANGED speedVars
        BY <2>7 DEF speedVars
    <2>. QED  BY <2>1, <2>2, <2>3, <2>4, <2>5, <2>6, <2>7 DEF SpeedNext
<1>. QED  BY <1>1, <1>2, SpeedTypesCorrect, PTL DEF SpeedSpec
=============================================================================
