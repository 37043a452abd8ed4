---------------------------- MODULE AlertPipeline ----------------------------
(***************************************************************************)
(* The alerts a device reports and the snapshots it takes of them.  An      *)
(* alert and its image travel over two MQTT topics, two Kafka topics and    *)
(* two consumer groups, in any order; AlertsConsumer looks for the image    *)
(* before it stores the alert, MediaLogsConsumer and                        *)
(* MediaLogsService.confirmUpload link the alerts stored so far after they  *)
(* stored the image.  One device and one snapshotId: rows of others never   *)
(* meet in these queries.  Each action ends at the next awaited call.       *)
(***************************************************************************)
EXTENDS Integers, Sequences, FiniteSets, FiniteSetsExt

CONSTANTS
    Inputs,       \* Inputs[t]: the payloads published to topic t
    MaxLog,       \* bound: MaxLog[t] messages of topic t
    MaxConfirms,  \* bound: uploads confirmed through the API
    MaxFaults,    \* bound: failing database, storage or Kafka calls
    MaxCrashes    \* bound: process crashes

Topics == {"alert", "media"}

\* A payload of kind "refused" has a value its table does not accept.
Kinds(t) == IF t = "alert" THEN {"plain", "urgent", "unknown", "refused"}
                           ELSE {"image", "video", "refused"}
Message(t) == [kind : Kinds(t), snap : BOOLEAN]

ASSUME ConstantsAssumption ==
    /\ \A t \in Topics : Inputs[t] \subseteq Message(t) /\ MaxLog[t] \in Nat
    /\ MaxConfirms \in Nat /\ MaxFaults \in Nat /\ MaxCrashes \in Nat

VARIABLES
    device,      \* the row of the device: owned, unowned or deleted
    log,         \* log[t]: the messages of topic t
    position,    \* position[t]: messages of t the consumer is done with
    committed,   \* committed[t]: the offset of the group, or NoOffset
    handler,     \* handler[t]: the handleMessage call of t in progress
    alerts,      \* rows of alerts, in the order they were inserted
    media,       \* rows of media_logs, in the order they were inserted
    confirm,     \* row a confirmUpload request is about to link, 0 if none
    resolver,    \* the copy a resolve request has read
    fate,        \* fate[t][i]: what became of message i of t
    told,        \* <<i, channel>>: alert i was sent to the owner over channel
    redelivered, \* <<t, i>> a restarted consumer reads again
    confirms, faults, crashes

vars == <<device, log, position, committed, handler, alerts, media, confirm,
          resolver, fate, told, redelivered, confirms, faults, crashes>>

-----------------------------------------------------------------------------
NoOffset == -1
None == 0
Offsets(t) == 1..MaxLog[t]

Call == [pc : {"idle", "found", "stored", "failed"}, row : Nat, seen : Nat]
Idle == [pc |-> "idle", row |-> None, seen |-> 0]

\* link: the media row of the snapshot; excuse: why the alert may lack one.
AlertRow == [msg : Nat, snap : BOOLEAN, link : Nat, resolved : BOOLEAN,
             excuse : {"none", "crossed", "resolved"}]

\* linked: whether the UPDATE of the alerts has run, or never will.
MediaRow == [image : BOOLEAN, snap : BOOLEAN, linked : {"pending", "done", "lost"}]

Reader == [row : Nat, link : Nat]

\* No dead letter and no row: the message was skipped for its type, its dead
\* letter failed too, or the group had no offset to resume from.
Fates == {"stored", "unannounced", "deadLettered", "skipped", "lost", "unread"}

TypeOK ==
    /\ device \in {"owned", "unowned", "deleted"}
    /\ log \in [Topics -> Seq(Message("alert") \cup Message("media"))]
    /\ position \in [Topics -> Nat] /\ committed \in [Topics -> Nat \cup {NoOffset}]
    /\ handler \in [Topics -> Call] /\ fate = [t \in Topics |-> fate[t]]
    /\ \A t \in Topics :
          /\ log[t] \in Seq(Message(t)) /\ Len(log[t]) <= MaxLog[t]
          /\ position[t] <= Len(log[t]) /\ committed[t] <= position[t]
          /\ handler[t].pc /= "idle" => position[t] < Len(log[t])
          /\ fate[t] \in [Offsets(t) -> SUBSET Fates]
    /\ alerts \in Seq(AlertRow) /\ media \in Seq(MediaRow)
    /\ \A a \in DOMAIN alerts : alerts[a].link <= Len(media)
    /\ confirm \in Nat /\ resolver \in Reader
    /\ told \subseteq Offsets("alert") \X {"socket", "mail"}
    /\ redelivered \subseteq {p \in Topics \X Nat : p[2] \in Offsets(p[1])}
    /\ confirms \in 0..MaxConfirms /\ faults \in 0..MaxFaults
    /\ crashes \in 0..MaxCrashes

Init ==
    /\ device \in {"owned", "unowned"}
    /\ log = [t \in Topics |-> <<>>]
    /\ position = [t \in Topics |-> 0]
    /\ committed = [t \in Topics |-> NoOffset]
    /\ handler = [t \in Topics |-> Idle]
    /\ alerts = <<>> /\ media = <<>>
    /\ confirm = None /\ resolver = [row |-> None, link |-> None]
    /\ fate = [t \in Topics |-> [i \in Offsets(t) |-> {}]]
    /\ told = {} /\ redelivered = {}
    /\ confirms = 0 /\ faults = 0 /\ crashes = 0

-----------------------------------------------------------------------------
(* MqttService.  A payload that cannot be read or produced is logged and
   forgotten, which changes nothing here. *)
Forward(t, m) ==
    /\ Len(log[t]) < MaxLog[t]
    /\ log' = [log EXCEPT ![t] = Append(@, m)]
    /\ UNCHANGED <<device, position, committed, handler, alerts, media, confirm,
                   resolver, fate, told, redelivered, confirms, faults, crashes>>

ForwardAlert(m) == Forward("alert", m)
ForwardMedia(m) == Forward("media", m)

Current(t) == position[t] + 1

\* Mutant of Read: the loop waits for one message more.
ReadLate(t, m) == /\ handler[t].pc = "idle"
                  /\ Current(t) < Len(log[t])
                  /\ m = log[t][Current(t)]

Read(t, m) == /\ handler[t].pc = "idle"
              /\ position[t] < Len(log[t])
              /\ m = log[t][Current(t)]

Fault == faults < MaxFaults /\ faults' = faults + 1
NoFault == UNCHANGED faults

Goto(t, pc, row, seen) ==
    /\ handler' = [handler EXCEPT ![t] = [pc |-> pc, row |-> row, seen |-> seen]]
    /\ UNCHANGED position
Fail(t) == Goto(t, "failed", None, 0)

\* Mutant of Return: the outer catch throws again, so kafkajs retries the message.
ReturnUnlessFailed(t) ==
    /\ handler' = [handler EXCEPT ![t] = Idle]
    /\ position' = [position EXCEPT ![t] = IF handler[t].pc = "failed" THEN @ ELSE @ + 1]

\* The handler returns: kafkajs resolves the offset of the message.
Return(t) ==
    /\ handler' = [handler EXCEPT ![t] = Idle]
    /\ position' = [position EXCEPT ![t] = @ + 1]

Becomes(t, outcome) == fate' = [fate EXCEPT ![t][Current(t)] = @ \cup {outcome}]

-----------------------------------------------------------------------------
(* AlertsConsumer.handleMessage. *)

\* AlertsService.findSnapshotMediaLog: the newest image of the snapshot.
Images == {r \in DOMAIN media : media[r].image /\ media[r].snap}
Snapshot == IF Images = {} THEN None ELSE Max(Images)

\* Parsing, the check of the type, the telemetry fallback for a 0/0 location
\* and the lookup of the snapshot.
StartAlert ==
    /\ \E m \in Inputs["alert"] :
          /\ Read("alert", m)
          /\ \/ /\ m.kind = "unknown"
                /\ Becomes("alert", "skipped") /\ Return("alert") /\ NoFault
             \/ /\ m.kind /= "unknown"
                /\ Goto("alert", "found", IF m.snap THEN Snapshot ELSE None, Len(media))
                /\ NoFault /\ UNCHANGED fate
             \/ m.kind /= "unknown" /\ Fault /\ Fail("alert") /\ UNCHANGED fate
    /\ UNCHANGED <<device, log, committed, alerts, media, confirm, resolver,
                   told, redelivered, confirms, crashes>>

Refused(t) == log[t][Current(t)].kind = "refused" \/ device = "deleted"

\* The row alertsService.create inserts.  Its excuse: an image that was stored
\* after the lookup linked its alerts before this one was there.
NewAlert(call, m) ==
    [msg |-> Current("alert"), snap |-> m.snap, link |-> call.row, resolved |-> FALSE,
     excuse |-> IF \E r \in Images : r > call.seen /\ media[r].linked = "done"
                THEN "crossed" ELSE "none"]

StoreAlert ==
    /\ handler["alert"].pc = "found"
    /\ \/ /\ ~Refused("alert")
          /\ alerts' = Append(alerts, NewAlert(handler["alert"], log["alert"][Current("alert")]))
          /\ Goto("alert", "stored", None, 0)
          /\ Becomes("alert", "stored") /\ NoFault
       \/ Refused("alert") /\ Fail("alert") /\ NoFault /\ UNCHANGED <<alerts, fate>>
       \/ ~Refused("alert") /\ Fault /\ Fail("alert") /\ UNCHANGED <<alerts, fate>>
    /\ UNCHANGED <<device, log, committed, media, confirm, resolver, told,
                   redelivered, confirms, crashes>>

Channels(m) == IF m.kind = "urgent" THEN {"socket", "mail"} ELSE {"socket"}

\* Mutant of Reached: a message that was read before is not announced again.
ReachedOnce(m) == IF device = "owned" /\ <<"alert", Current("alert")>> \notin redelivered
                  THEN Channels(m) ELSE {}

\* The owner's channels; a device without owner, or without row, has none.
Reached(m) == IF device = "owned" THEN Channels(m) ELSE {}

\* The inner try: the lookup of the device, the broadcast to the room of its
\* owner, the mail nobody waits for.  A failing lookup is swallowed.
NotifyOwner ==
    /\ handler["alert"].pc = "stored"
    /\ Return("alert")
    /\ \/ /\ told' = told \cup {Current("alert")} \X Reached(log["alert"][Current("alert")])
          /\ NoFault /\ UNCHANGED fate
       \/ Fault /\ Becomes("alert", "unannounced") /\ UNCHANGED told
    /\ UNCHANGED <<device, log, committed, alerts, media, confirm, resolver,
                   redelivered, confirms, crashes>>

\* The outer catch of either consumer: a dead letter, and when that produce
\* fails too, a line in the log.
DeadLetter(t) ==
    /\ handler[t].pc = "failed"
    /\ Return(t)
    /\ \/ Becomes(t, "deadLettered") /\ NoFault
       \/ Fault /\ Becomes(t, "lost")
    /\ UNCHANGED <<device, log, committed, alerts, media, confirm, resolver,
                   told, redelivered, confirms, crashes>>

AlertDeadLetter == DeadLetter("alert")
MediaDeadLetter == DeadLetter("media")

-----------------------------------------------------------------------------
(* MediaLogsConsumer.handleMessage, and confirmUpload of the API. *)

\* The upload of the decoded file.
UploadMedia ==
    /\ \E m \in Inputs["media"] : Read("media", m)
    /\ \/ Goto("media", "found", None, 0) /\ NoFault
       \/ Fault /\ Fail("media")
    /\ UNCHANGED <<device, log, committed, alerts, media, confirm, resolver, fate,
                   told, redelivered, confirms, crashes>>

\* What is left to link: an image with a snapshotId.
NewMedia(image, snap) ==
    [image |-> image, snap |-> snap,
     linked |-> IF image /\ snap THEN "pending" ELSE "done"]

\* mediaLogsService.create; the optical-flow job of a video is not waited for.
StoreMedia ==
    /\ handler["media"].pc = "found"
    /\ LET m == log["media"][Current("media")] IN
       \/ /\ ~Refused("media")
          /\ media' = Append(media, NewMedia(m.kind = "image", m.snap))
          /\ Becomes("media", "stored") /\ NoFault
          /\ IF m.kind = "image" /\ m.snap
             THEN Goto("media", "stored", Len(media'), 0) ELSE Return("media")
       \/ Refused("media") /\ Fail("media") /\ NoFault /\ UNCHANGED <<media, fate>>
       \/ ~Refused("media") /\ Fault /\ Fail("media") /\ UNCHANGED <<media, fate>>
    /\ UNCHANGED <<device, log, committed, alerts, confirm, resolver, told,
                   redelivered, confirms, crashes>>

\* Mutant of Unlinked: only the newest alert of the snapshot is linked.
UnlinkedNewest ==
    {a \in DOMAIN alerts : a = Len(alerts) /\ alerts[a].snap /\ alerts[a].link = None}

\* The alerts AlertsService.linkSnapshotMedia updates.
Unlinked == {a \in DOMAIN alerts : alerts[a].snap /\ alerts[a].link = None}

\* linkSnapshotMedia(row): one UPDATE, or an error that leaves the alerts alone.
Link(row) ==
    /\ alerts' = [a \in DOMAIN alerts |->
                    IF a \in Unlinked /\ row \in DOMAIN media
                    THEN [alerts[a] EXCEPT !.link = row] ELSE alerts[a]]
    /\ media' = [r \in DOMAIN media |->
                    IF r = row THEN [media[r] EXCEPT !.linked = "done"] ELSE media[r]]
LinkFails(row) ==
    /\ media' = [r \in DOMAIN media |->
                    IF r = row THEN [media[r] EXCEPT !.linked = "lost"] ELSE media[r]]
    /\ UNCHANGED alerts

LinkMedia ==
    /\ handler["media"].pc = "stored"
    /\ \/ Link(handler["media"].row) /\ Return("media") /\ NoFault
       \/ Fault /\ LinkFails(handler["media"].row) /\ Fail("media")
    /\ UNCHANGED <<device, log, committed, confirm, resolver, fate, told,
                   redelivered, confirms, crashes>>

\* confirmUpload of an image: findOneById and the INSERT, then the link.
ConfirmInsert ==
    /\ confirm = None /\ device /= "deleted" /\ confirms < MaxConfirms
    /\ confirms' = confirms + 1
    /\ media' = Append(media, NewMedia(TRUE, TRUE))
    /\ confirm' = Len(media')
    /\ UNCHANGED <<device, log, position, committed, handler, alerts, resolver,
                   fate, told, redelivered, faults, crashes>>

\* An error of the geom UPDATE before the link has the same effect as one of
\* the link: the request fails and nobody links the row again.
ConfirmLink ==
    /\ confirm /= None
    /\ confirm' = None
    /\ \/ Link(confirm) /\ NoFault
       \/ Fault /\ LinkFails(confirm)
    /\ UNCHANGED <<device, log, position, committed, handler, resolver, fate,
                   told, redelivered, confirms, crashes>>

-----------------------------------------------------------------------------
(* AlertsService.resolve: findOne, then save of the copy.  save compares the
   copy with the row and writes the columns that differ. *)
ResolveRead(a) ==
    /\ resolver.row = None
    /\ ~alerts[a].resolved
    /\ resolver' = [row |-> a, link |-> alerts[a].link]
    /\ UNCHANGED <<device, log, position, committed, handler, alerts, media,
                   confirm, fate, told, redelivered, confirms, faults, crashes>>

ResolveSave ==
    /\ resolver.row /= None
    /\ resolver' = [row |-> None, link |-> None]
    /\ alerts' = [a \in DOMAIN alerts |->
           IF a /= resolver.row THEN alerts[a]
           ELSE [alerts[a] EXCEPT !.resolved = TRUE, !.link = resolver.link,
                     !.excuse = IF alerts[a].link /= resolver.link THEN "resolved" ELSE @]]
    /\ UNCHANGED <<device, log, position, committed, handler, media, confirm,
                   fate, told, redelivered, confirms, faults, crashes>>

\* DevicesService.remove: alerts and media_logs go with the row (CASCADE).
RemoveDevice ==
    /\ device /= "deleted"
    /\ device' = "deleted"
    /\ alerts' = <<>> /\ media' = <<>>
    /\ UNCHANGED <<log, position, committed, handler, confirm, resolver, fate,
                   told, redelivered, confirms, faults, crashes>>

-----------------------------------------------------------------------------
\* kafkajs commits the resolved offsets of a topic from time to time.
Commit(t) ==
    /\ committed[t] < position[t] /\ position[t] > 0
    /\ committed' = [committed EXCEPT ![t] = position[t]]
    /\ UNCHANGED <<device, log, position, handler, alerts, media, confirm,
                   resolver, fate, told, redelivered, confirms, faults, crashes>>

\* Where a restarted consumer begins: consume subscribes with
\* fromBeginning: false.
ResumeAt(t) == IF committed[t] = NoOffset THEN Len(log[t]) ELSE committed[t]

\* The messages of t a handler has been called with.
Taken(t) == IF handler[t].pc = "idle" THEN position[t] ELSE Current(t)

\* The process dies and starts again: calls in progress are gone.
Crash ==
    /\ crashes < MaxCrashes
    /\ crashes' = crashes + 1
    /\ handler' = [t \in Topics |-> Idle]
    /\ position' = [t \in Topics |-> ResumeAt(t)]
    /\ redelivered' = redelivered \cup
          UNION {{t} \X (ResumeAt(t) + 1..Taken(t)) : t \in Topics}
    /\ fate' = [t \in Topics |-> [i \in Offsets(t) |->
          IF position[t] < i /\ i <= ResumeAt(t) THEN fate[t][i] \cup {"unread"}
          ELSE fate[t][i]]]
    /\ media' = [r \in DOMAIN media |->
          IF media[r].linked = "pending" THEN [media[r] EXCEPT !.linked = "lost"]
          ELSE media[r]]
    /\ confirm' = None /\ resolver' = [row |-> None, link |-> None]
    /\ UNCHANGED <<device, log, committed, alerts, told, confirms, faults>>

ConsumerStep ==
    \/ StartAlert \/ StoreAlert \/ NotifyOwner
    \/ UploadMedia \/ StoreMedia \/ LinkMedia
    \/ AlertDeadLetter \/ MediaDeadLetter

Next ==
    \/ \E m \in Inputs["alert"] : ForwardAlert(m)
    \/ \E m \in Inputs["media"] : ForwardMedia(m)
    \/ ConsumerStep
    \/ ConfirmInsert \/ ConfirmLink
    \/ \E a \in DOMAIN alerts : ResolveRead(a)
    \/ ResolveSave \/ RemoveDevice
    \/ \E t \in Topics : Commit(t)
    \/ Crash

\* Each consumer group runs its handler whenever it has a message.
Fairness ==
    /\ WF_vars(StartAlert \/ StoreAlert \/ NotifyOwner \/ AlertDeadLetter)
    /\ WF_vars(UploadMedia \/ StoreMedia \/ LinkMedia \/ MediaDeadLetter)

Spec == Init /\ [][Next]_vars /\ Fairness

-----------------------------------------------------------------------------
\* An alert and an image of the same snapshot that both reached the database
\* are linked, unless the image linked its alerts between the lookup and the
\* INSERT of the alert, its link step failed, or a resolve request wrote the
\* copy it had read before the link (alerts.consumer.ts:121, alerts.service.ts:112).
UnlinkedHasACause ==
    \A a \in DOMAIN alerts :
        /\ alerts[a].snap /\ alerts[a].link = None
        /\ \E r \in Images : media[r].linked = "done"
        => alerts[a].excuse /= "none"

\* A message the consumer is done with has been stored, dead-lettered, skipped
\* for its type or lost with its dead letter; more than one of these, or two
\* rows of one alert, only when a restart delivered it again.
MessageAccount ==
    /\ \A t \in Topics : \A i \in 1..position[t] : fate[t][i] /= {}
    /\ \A i \in Offsets("alert") : <<"alert", i>> \notin redelivered =>
          /\ Cardinality(fate["alert"][i] \ {"unannounced", "unread"}) <= 1
          /\ Cardinality({a \in DOMAIN alerts : alerts[a].msg = i}) <= 1

\* The owner of a stored alert was told, by mail too when it is urgent, before
\* the message is committed, unless the lookup of the device failed, a
\* restart without a committed offset left the message behind, or the message
\* was read a second time and failed then.
OwnerIsTold ==
    \A i \in 1..committed["alert"] :
        fate["alert"][i] = {"stored"} /\ device = "owned"
        => {i} \X Channels(log["alert"][i]) \subseteq told

\* Both consumers keep up: again and again every message of the topics is
\* settled, whatever failed before (alerts.consumer.ts:83, media-logs.consumer.ts:43).
EveryMessageIsSettled == []<>(\A t \in Topics : position[t] = Len(log[t]))
=============================================================================
