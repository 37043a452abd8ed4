----------------------------- MODULE LiveStream -----------------------------
(***************************************************************************)
(* The live-stream session of one device: LiveStreamsService.start and      *)
(* stop, MqttService.handleStreamStatus, and the path of the media server.  *)
(* The session is a JSON value under one Redis key, read and written as a   *)
(* whole by separate awaited calls; nothing orders two requests, or a       *)
(* request and a status message, of the same device.                        *)
(***************************************************************************)
EXTENDS Integers, FiniteSets

CONSTANTS
    Handlers,    \* requests and status messages served at the same time
    MaxStarts,   \* bound: start requests
    MaxReports,  \* bound: different status messages of the device
    MaxFaults,   \* bound: failing MQTT or HTTP calls
    MaxCrashes   \* bound: process crashes

ASSUME ConstantsAssumption ==
    /\ IsFiniteSet(Handlers)
    /\ MaxStarts \in Nat /\ MaxReports \in Nat
    /\ MaxFaults \in Nat /\ MaxCrashes \in Nat

VARIABLES
    session,     \* the value of live-stream:<deviceId>
    path,        \* whether the media server has the path of the device
    handler,     \* handler[h]: the call in progress
    command,     \* the last command published to the device
    heard,       \* requests whose start command was published
    reports,     \* statuses the device sent; they may arrive late or twice
    excuses,     \* what happened since a start that met no other call
    starts, faults, crashes

vars == <<session, path, handler, command, heard, reports, excuses,
          starts, faults, crashes>>

-----------------------------------------------------------------------------
Requests == 1..MaxStarts
Statuses == {"STARTING", "READY", "FAILED", "STOPPED"}
Session == [req : Requests, status : Statuses, url : BOOLEAN]
NoSession == [req |-> 0, status |-> "STOPPED", url |-> FALSE]

\* A status message: its request, its status and whether it carries an rtspUrl,
\* which only the handling of READY asks.
Report == {r \in [req : Requests, status : {"READY", "FAILED", "STOPPED"}, rtsp : BOOLEAN] :
              r.rtsp => r.status = "READY"}

Call == [op : {"none", "start", "stop", "status"},
         pc : {"done", "set", "publish", "remove", "add"},
         copy : Session \cup {NoSession}]
Free == [op |-> "none", pc |-> "done", copy |-> NoSession]

Excuses == {"overlap", "late", "failed", "crash"}

TypeOK ==
    /\ session \in Session \cup {NoSession}
    /\ path \in BOOLEAN
    /\ handler \in [Handlers -> Call]
    /\ \A h \in Handlers : handler[h].pc = "done" <=> handler[h] = Free
    /\ command \in [op : {"none", "start", "stop"}, req : Requests \cup {0}]
    /\ heard \subseteq Requests /\ reports \subseteq Report
    /\ \A r \in reports : r.req \in heard
    /\ excuses \subseteq Excuses
    /\ starts \in 0..MaxStarts /\ faults \in 0..MaxFaults /\ crashes \in 0..MaxCrashes

Init ==
    /\ session = NoSession /\ path = FALSE
    /\ handler = [h \in Handlers |-> Free]
    /\ command = [op |-> "none", req |-> 0]
    /\ heard = {} /\ reports = {} /\ excuses = {}
    /\ starts = 0 /\ faults = 0 /\ crashes = 0

Alone == \A h \in Handlers : handler[h] = Free

Begin(h, op, pc, copy) ==
    /\ handler[h] = Free
    /\ handler' = [handler EXCEPT ![h] = [op |-> op, pc |-> pc, copy |-> copy]]
Goto(h, pc) == handler' = [handler EXCEPT ![h].pc = pc]

End(h) == handler' = [handler EXCEPT ![h] = Free]

Overlap == IF Alone THEN {} ELSE {"overlap"}
Fault == /\ faults < MaxFaults /\ faults' = faults + 1
         /\ excuses' = excuses \cup {"failed"}
NoFault == UNCHANGED <<faults, excuses>>

-----------------------------------------------------------------------------
\* start: a new session replaces whatever the key holds.
StartSet(h) ==
    /\ starts < MaxStarts
    /\ starts' = starts + 1
    /\ session' = [req |-> starts', status |-> "STARTING", url |-> FALSE]
    /\ Begin(h, "start", "publish", session')
    /\ excuses' = IF Alone THEN {} ELSE excuses \cup {"overlap"}
    /\ UNCHANGED <<path, command, heard, reports, faults, crashes>>

\* stop: getSession, then the copy is written back as STOPPED.
StopRead(h) ==
    /\ session /= NoSession
    /\ Begin(h, "stop", "set", session)
    /\ excuses' = excuses \cup Overlap
    /\ UNCHANGED <<session, path, command, heard, reports, starts, faults, crashes>>

\* Mutant of StopSet: the status of the copy is not changed.
StopSetAsRead(h) ==
    /\ handler[h].op = "stop" /\ handler[h].pc = "set"
    /\ session' = [handler[h].copy EXCEPT !.url = FALSE]
    /\ Goto(h, "publish")
    /\ UNCHANGED <<path, command, heard, reports, excuses, starts, faults, crashes>>

StopSet(h) ==
    /\ handler[h].op = "stop" /\ handler[h].pc = "set"
    /\ session' = [handler[h].copy EXCEPT !.status = "STOPPED", !.url = FALSE]
    /\ Goto(h, "publish")
    /\ UNCHANGED <<path, command, heard, reports, excuses, starts, faults, crashes>>

\* publishJson of start or stop: the command is published, or the request
\* fails and leaves the session as it wrote it.
Publish(h) ==
    /\ handler[h].pc = "publish"
    /\ LET c == [op |-> handler[h].op, req |-> handler[h].copy.req] IN
       \/ /\ command' = c
          /\ heard' = IF c.op = "start" THEN heard \cup {c.req} ELSE heard
          /\ IF c.op = "start" THEN End(h) ELSE Goto(h, "remove")
          /\ NoFault
       \/ Fault /\ End(h) /\ UNCHANGED <<command, heard>>
    /\ UNCHANGED <<session, path, reports, starts, crashes>>

\* MediaServerService.removePath, the last call of stop and the first of a
\* registration.  An HTTP error status is logged, a broken connection throws.
RemovePath(h) ==
    /\ handler[h].pc = "remove"
    /\ \/ /\ path' = FALSE
          /\ IF handler[h].op = "stop" THEN End(h) ELSE Goto(h, "add")
          /\ NoFault
       \/ Fault /\ End(h) /\ UNCHANGED path
       \/ /\ Fault /\ UNCHANGED path
          /\ IF handler[h].op = "stop" THEN End(h) ELSE Goto(h, "add")
    /\ UNCHANGED <<session, command, heard, reports, starts, crashes>>

-----------------------------------------------------------------------------
\* The device sends the status of a stream it was told to start.
DeviceReport(r) ==
    /\ r.req \in heard /\ r \notin reports /\ Cardinality(reports) < MaxReports
    /\ reports' = reports \cup {r}
    /\ UNCHANGED <<session, path, handler, command, heard, excuses, starts, faults, crashes>>

\* The new session of a status message, written after the path is registered.
\* READY comes with a webrtcUrl, whether or not a path was registered for it.
Updated(copy, r) == [copy EXCEPT !.status = r.status,
                                 !.url = IF r.status = "READY" THEN TRUE ELSE @]

\* Mutant of Accepts: the requestId is not compared.
AcceptsAny(r) == session /= NoSession

\* A status is taken for the session it names, also when that was stopped.
Accepts(r) == session /= NoSession /\ session.req = r.req

\* handleStreamStatus up to the registration, which a READY without an rtspUrl
\* skips; statuses of other requests are ignored.
StatusRead(h, r) ==
    /\ r \in reports /\ Accepts(r)
    /\ Begin(h, "status", IF r.rtsp THEN "remove" ELSE "set", Updated(session, r))
    /\ excuses' = excuses \cup Overlap
           \cup (IF session.status = "STOPPED" THEN {"late"} ELSE {})
    /\ UNCHANGED <<session, path, command, heard, reports, starts, faults, crashes>>

\* Mutant of AddPath: a refused registration leaves no trace.
AddPathRefused(h) ==
    /\ handler[h].pc = "add"
    /\ Goto(h, "set") /\ NoFault /\ UNCHANGED path
    /\ UNCHANGED <<session, command, heard, reports, starts, crashes>>

\* The second half of registerRtspSource: the path is added, or the server
\* refuses (logged, the session becomes READY all the same), or the call throws.
AddPath(h) ==
    /\ handler[h].pc = "add"
    /\ \/ path' = TRUE /\ Goto(h, "set") /\ NoFault
       \/ Fault /\ Goto(h, "set") /\ UNCHANGED path
       \/ Fault /\ End(h) /\ UNCHANGED path
    /\ UNCHANGED <<session, command, heard, reports, starts, crashes>>

\* The copy read before the registration becomes the session, whatever the key
\* holds by now; its time to live is at least 60 s.
StatusSet(h) ==
    /\ handler[h].op = "status" /\ handler[h].pc = "set"
    /\ session' = handler[h].copy
    /\ End(h)
    /\ UNCHANGED <<path, command, heard, reports, excuses, starts, faults, crashes>>

-----------------------------------------------------------------------------
\* The key expires.
Expire ==
    /\ session /= NoSession
    /\ session' = NoSession
    /\ UNCHANGED <<path, handler, command, heard, reports, excuses, starts, faults, crashes>>

\* The process dies: Redis, the media server and the device go on.
Crash ==
    /\ crashes < MaxCrashes
    /\ crashes' = crashes + 1
    /\ handler' = [h \in Handlers |-> Free]
    /\ excuses' = IF Alone THEN excuses ELSE excuses \cup {"crash"}
    /\ UNCHANGED <<session, path, command, heard, reports, starts, faults>>

Step(h) == Publish(h) \/ RemovePath(h) \/ AddPath(h) \/ StopSet(h) \/ StatusSet(h)

Next ==
    \/ \E h \in Handlers : StartSet(h) \/ StopRead(h) \/ Step(h)
    \/ \E h \in Handlers, r \in Report : StatusRead(h, r)
    \/ \E r \in Report : DeviceReport(r)
    \/ Expire \/ Crash

Spec == Init /\ [][Next]_vars

-----------------------------------------------------------------------------
\* The device called a stream of the request READY and said no rtspUrl.
ReadyWithoutSource(req) ==
    \E r \in reports : r.req = req /\ r.status = "READY" /\ ~r.rtsp

\* Once no call is in progress, a READY session has its path on the media
\* server (mqtt.service.ts:338-383, live-streams.service.ts:74-106), unless calls
\* of the device overlapped, one of them failed or a crash cut one short; or the
\* device reported READY without an rtspUrl: the session gets its webrtcUrl then,
\* and nothing registers the path that URL names.
ReadyHasAPath ==
    Alone /\ session.status = "READY" =>
        path \/ excuses /= {} \/ ReadyWithoutSource(session.req)

\* The status of a session is one the server wrote when it started or stopped
\* it, or one the device sent for this very request.
StatusIsOfThisRequest ==
    session.status \in {"READY", "FAILED"} =>
        \E r \in reports : r.req = session.req /\ r.status = session.status

\* Once no call is in progress, the last command the device got is the one the
\* session stands for: a stop for a stopped session, else its start.  Starts
\* that overlap, a late READY of a stopped stream, a failed publish and a crash
\* may break it: the device then streams for a request the session forgot.
CommandIsOfTheSession ==
    Alone /\ session /= NoSession /\ excuses = {} =>
        /\ command.req = session.req
        /\ command.op = "start" \/ session.status \in {"STOPPED", "FAILED"}
=============================================================================
