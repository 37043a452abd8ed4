---------------------------- MODULE MediaProofs -----------------------------
(* Proofs about LiveStream, for any number of overlapping calls, sessions,
   reports, failing calls and crashes, and about MediaLibrary, for any number
   of files, rows, uploads, analyses and sweeps. *)
EXTENDS LiveStream, MediaLibrary, TLAPS

-----------------------------------------------------------------------------
(* Live streams. *)

(* What a call in progress holds: only start and stop publish, only a status
   registers a path, and its copy is a session. *)
CallShape(k) ==
    /\ k.op \in {"start", "stop", "status"}
    /\ k.pc \in {"set", "publish", "remove", "add"}
    /\ k.copy \in Session
    /\ k.op = "start" => k.pc = "publish"
    /\ k.op = "stop" => k.pc \in {"set", "publish", "remove"}
    /\ k.op = "status" => k.pc \in {"set", "remove", "add"}

Shapes == \A h \in Handlers : handler[h] = Free \/ CallShape(handler[h])

TInv == TypeOK /\ Shapes

(* A status the device is said to have sent is one it sent for that request,
   in the session and in every copy of it a call will write back. *)
Backed(s, sent) ==
    s.status \in {"READY", "FAILED"} => \E r \in sent : r.req = s.req /\ r.status = s.status

CopiesBacked ==
    /\ Backed(session, reports)
    /\ \A h \in Handlers : Backed(handler[h].copy, reports)

-----------------------------------------------------------------------------
(* The agreement of session, path and command while nothing interferes. *)
Settled ==
    /\ session.status = "READY" => path \/ ReadyWithoutSource(session.req)
    /\ session /= NoSession =>
          /\ command.req = session.req
          /\ command.op = "start" \/ session.status = "STOPPED"

(* What the only call in progress has done so far. *)
OnCourse(k) ==
    /\ k.op = "start" /\ session /= NoSession =>
          session.req = k.copy.req /\ session.status = "STARTING"
    /\ k.op = "stop" /\ k.pc \in {"publish", "remove"} /\ session /= NoSession =>
          session.req = k.copy.req /\ session.status = "STOPPED"
    /\ k.op = "stop" /\ k.pc = "remove" => command.req = k.copy.req
    /\ k.op = "status" =>
          /\ command.op = "start" /\ command.req = k.copy.req
          /\ k.pc = "set" /\ k.copy.status = "READY" => path \/ ReadyWithoutSource(k.copy.req)

Undisturbed ==
    excuses = {} =>
        /\ \A g, h \in Handlers : handler[g] /= Free /\ handler[h] /= Free => g = h
        /\ Alone => Settled
        /\ \A h \in Handlers : handler[h] /= Free => OnCourse(handler[h])

-----------------------------------------------------------------------------
(* Types. *)

LEMMA InitialTypes == Init => TInv
<1>1. Free \in Call
    BY DEF Free, Call
<1>2. Free.pc = "done"
    BY DEF Free
<1>3. SUFFICES ASSUME Init PROVE TInv
    OBVIOUS
<1>4. handler \in [Handlers -> Call] /\ \A h \in Handlers : handler[h] = Free
    BY <1>1, <1>3 DEF Init
<1>5. command \in [op : {"none", "start", "stop"}, req : Requests \cup {0}]
    BY <1>3 DEF Init
<1>6. starts \in 0..MaxStarts /\ faults \in 0..MaxFaults /\ crashes \in 0..MaxCrashes
    BY <1>3, ConstantsAssumption DEF Init
<1>7. /\ path \in BOOLEAN /\ session \in Session \cup {NoSession}
      /\ heard = {} /\ reports = {} /\ excuses = {}
    BY <1>3 DEF Init
<1>. QED  BY <1>2, <1>4, <1>5, <1>6, <1>7 DEF TInv, TypeOK, Shapes

(* A call that fails, or does not, keeps what is known of the faults. *)
LEMMA FaultTypes ==
    ASSUME TInv, Fault \/ NoFault
    PROVE  excuses' \subseteq Excuses /\ faults' \in 0..MaxFaults
<1>1. excuses \subseteq Excuses /\ faults \in 0..MaxFaults /\ "failed" \in Excuses
    BY DEF TInv, TypeOK, Excuses
<1>2. CASE Fault
    BY <1>1, <1>2, ConstantsAssumption DEF Fault
<1>3. CASE NoFault
    BY <1>1, <1>3 DEF NoFault
<1>. QED  BY <1>2, <1>3

(* Rewriting one field of a call, and writing a session back. *)
LEMMA CallFields ==
    ASSUME NEW k \in Call, CallShape(k)
    PROVE  /\ \A p \in {"set", "publish", "remove", "add"} :
                 /\ [k EXCEPT !.pc = p] \in Call
                 /\ [k EXCEPT !.pc = p].op = k.op
                 /\ [k EXCEPT !.pc = p].pc = p
                 /\ [k EXCEPT !.pc = p].copy = k.copy
           /\ LET s == [k.copy EXCEPT !.status = "STOPPED", !.url = FALSE] IN
                 s \in Session /\ s.req = k.copy.req /\ s.status = "STOPPED"
BY DEF Call, CallShape, Session, Statuses

(* What a status makes of a session. *)
LEMMA UpdatedSession ==
    ASSUME NEW s \in Session, NEW r \in Report
    PROVE  /\ Updated(s, r) \in Session
           /\ Updated(s, r).req = s.req /\ Updated(s, r).status = r.status
BY DEF Updated, Session, Report, Statuses

(* A step of one call leaves the shapes of all calls right when the new value
   of that call has the right shape. *)
LEMMA OneCallMoves ==
    ASSUME TInv, NEW h \in Handlers, NEW k, k = Free \/ (k \in Call /\ CallShape(k)),
           handler' = [handler EXCEPT ![h] = k]
    PROVE  /\ handler' \in [Handlers -> Call]
           /\ \A g \in Handlers : handler'[g].pc = "done" <=> handler'[g] = Free
           /\ Shapes'
<1>1. Free \in Call /\ Free.pc = "done"
    BY DEF Free, Call
<1>2. k \in Call /\ (k.pc = "done" <=> k = Free)
    BY <1>1 DEF CallShape
<1>3. handler \in [Handlers -> Call]
    BY DEF TInv, TypeOK
<1>. QED  BY <1>2, <1>3 DEF TInv, TypeOK, Shapes

(* Every step keeps the types and the shape of the calls. *)
LEMMA StepTypes ==
    ASSUME TInv, [Next]_vars
    PROVE  TInv'
<1> USE ConstantsAssumption
<1>0. ASSUME NEW h \in Handlers, handler[h] # Free
      PROVE  handler[h] \in Call /\ CallShape(handler[h])
    BY <1>0 DEF TInv, TypeOK, Shapes
<1>1. ASSUME NEW h \in Handlers, StartSet(h) PROVE TInv'
    <2> DEFINE s == [req |-> starts', status |-> "STARTING", url |-> FALSE]
               k == [op |-> "start", pc |-> "publish", copy |-> s]
    <2>1. starts' \in Requests /\ starts' \in 0..MaxStarts
        BY <1>1 DEF StartSet, TInv, TypeOK, Requests
    <2>2. s \in Session
        BY <2>1 DEF Session, Statuses
    <2>3. k \in Call /\ CallShape(k)
        BY <2>2 DEF Call, CallShape
    <2>4. handler' = [handler EXCEPT ![h] = k] /\ session' = s
        BY <1>1 DEF StartSet, Begin
    <2>5. excuses' \subseteq Excuses
        BY <1>1 DEF StartSet, TInv, TypeOK, Excuses
    <2> HIDE DEF k, s
    <2>. QED  BY <1>1, <2>1, <2>2, <2>3, <2>4, <2>5, OneCallMoves DEF StartSet, TInv, TypeOK
<1>2. ASSUME NEW h \in Handlers, StopRead(h) PROVE TInv'
    <2> DEFINE k == [op |-> "stop", pc |-> "set", copy |-> session]
    <2>1. k \in Call /\ CallShape(k)
        BY <1>2 DEF StopRead, Call, CallShape, TInv, TypeOK
    <2>2. handler' = [handler EXCEPT ![h] = k] /\ excuses' \subseteq Excuses
        BY <1>2 DEF StopRead, Begin, Overlap, TInv, TypeOK, Excuses
    <2> HIDE DEF k
    <2>. QED  BY <1>2, <2>1, <2>2, OneCallMoves DEF StopRead, TInv, TypeOK
<1>3. ASSUME NEW h \in Handlers, Publish(h) PROVE TInv'
    <2>1. handler[h] # Free
        BY <1>3 DEF Publish, Free
    <2>2. handler[h] \in Call /\ CallShape(handler[h]) /\ handler[h].op \in {"start", "stop"}
        BY <1>0, <1>3, <2>1 DEF Publish, CallShape
    <2>3. handler[h].copy.req \in Requests
        BY <2>2 DEF CallShape, Session
    <2>4. /\ handler' \in [Handlers -> Call]
          /\ \A g \in Handlers : handler'[g].pc = "done" <=> handler'[g] = Free
          /\ Shapes'
        <3>1. CASE End(h)
            BY <3>1, OneCallMoves DEF End
        <3>2. CASE Goto(h, "remove") /\ handler[h].op = "stop"
            <4>1. CallShape([handler[h] EXCEPT !.pc = "remove"])
                BY <2>2, <3>2, CallFields DEF CallShape
            <4>. QED  BY <2>2, <3>2, <4>1, CallFields, OneCallMoves DEF Goto
        <3>. QED  BY <1>3, <2>2, <3>1, <3>2 DEF Publish
    <2>5. command' \in [op : {"none", "start", "stop"}, req : Requests \cup {0}]
             /\ heard' \subseteq Requests /\ heard \subseteq heard'
        BY <1>3, <2>2, <2>3 DEF Publish, TInv, TypeOK
    <2>6. excuses' \subseteq Excuses /\ faults' \in 0..MaxFaults
        BY <1>3, FaultTypes DEF Publish
    <2>. QED  BY <1>3, <2>4, <2>5, <2>6 DEF Publish, TInv, TypeOK
<1>4. ASSUME NEW h \in Handlers, RemovePath(h) PROVE TInv'
    <2>1. handler[h] # Free
        BY <1>4 DEF RemovePath, Free
    <2>2. handler[h] \in Call /\ CallShape(handler[h]) /\ handler[h].op \in {"stop", "status"}
        BY <1>0, <1>4, <2>1 DEF RemovePath, CallShape
    <2>3. /\ handler' \in [Handlers -> Call]
          /\ \A g \in Handlers : handler'[g].pc = "done" <=> handler'[g] = Free
          /\ Shapes'
        <3>1. CASE End(h)
            BY <3>1, OneCallMoves DEF End
        <3>2. CASE Goto(h, "add") /\ handler[h].op = "status"
            <4>1. CallShape([handler[h] EXCEPT !.pc = "add"])
                BY <2>2, <3>2, CallFields DEF CallShape
            <4>. QED  BY <2>2, <3>2, <4>1, CallFields, OneCallMoves DEF Goto
        <3>. QED  BY <1>4, <2>2, <3>1, <3>2 DEF RemovePath
    <2>4. excuses' \subseteq Excuses /\ faults' \in 0..MaxFaults
        BY <1>4, FaultTypes DEF RemovePath
    <2>5. path' \in BOOLEAN
        BY <1>4 DEF RemovePath, TInv, TypeOK
    <2>. QED  BY <1>4, <2>3, <2>4, <2>5 DEF RemovePath, TInv, TypeOK
<1>5. ASSUME NEW h \in Handlers, AddPath(h) PROVE TInv'
    <2>1. handler[h] # Free
        BY <1>5 DEF AddPath, Free
    <2>2. handler[h] \in Call /\ CallShape(handler[h]) /\ handler[h].op = "status"
        BY <1>0, <1>5, <2>1 DEF AddPath, CallShape
    <2>3. /\ handler' \in [Handlers -> Call]
          /\ \A g \in Handlers : handler'[g].pc = "done" <=> handler'[g] = Free
          /\ Shapes'
        <3>1. CASE End(h)
            BY <3>1, OneCallMoves DEF End
        <3>2. CASE Goto(h, "set")
            <4>1. CallShape([handler[h] EXCEPT !.pc = "set"])
                BY <2>2, CallFields DEF CallShape
            <4>. QED  BY <2>2, <3>2, <4>1, CallFields, OneCallMoves DEF Goto
        <3>. QED  BY <1>5, <3>1, <3>2 DEF AddPath
    <2>4. excuses' \subseteq Excuses /\ faults' \in 0..MaxFaults
        BY <1>5, FaultTypes DEF AddPath
    <2>5. path' \in BOOLEAN
        BY <1>5 DEF AddPath, TInv, TypeOK
    <2>. QED  BY <1>5, <2>3, <2>4, <2>5 DEF AddPath, TInv, TypeOK
<1>6. ASSUME NEW h \in Handlers, StopSet(h) PROVE TInv'
    <2>1. handler[h] # Free
        BY <1>6 DEF StopSet, Free
    <2>2. handler[h] \in Call /\ CallShape(handler[h]) /\ handler[h].op = "stop"
        BY <1>0, <1>6, <2>1 DEF StopSet
    <2>3. session' \in Session
        BY <1>6, <2>2, CallFields DEF StopSet
    <2>4. CallShape([handler[h] EXCEPT !.pc = "publish"])
        BY <2>2, CallFields DEF CallShape
    <2>5. /\ handler' \in [Handlers -> Call]
          /\ \A g \in Handlers : handler'[g].pc = "done" <=> handler'[g] = Free
          /\ Shapes'
        BY <1>6, <2>2, <2>4, CallFields, OneCallMoves DEF StopSet, Goto
    <2>. QED  BY <1>6, <2>3, <2>5 DEF StopSet, TInv, TypeOK
<1>7. ASSUME NEW h \in Handlers, StatusSet(h) PROVE TInv'
    <2>1. handler[h] # Free
        BY <1>7 DEF StatusSet, Free
    <2>2. session' \in Session
        BY <1>0, <1>7, <2>1 DEF StatusSet, CallShape
    <2>3. /\ handler' \in [Handlers -> Call]
          /\ \A g \in Handlers : handler'[g].pc = "done" <=> handler'[g] = Free
          /\ Shapes'
        BY <1>7, OneCallMoves DEF StatusSet, End
    <2>. QED  BY <1>7, <2>2, <2>3 DEF StatusSet, TInv, TypeOK
<1>8. ASSUME NEW h \in Handlers, NEW r \in Report, StatusRead(h, r) PROVE TInv'
    <2> DEFINE k == [op |-> "status", pc |-> IF r.rtsp THEN "remove" ELSE "set",
                     copy |-> Updated(session, r)]
    <2>1. Updated(session, r) \in Session
        BY <1>8, UpdatedSession DEF StatusRead, Accepts, TInv, TypeOK
    <2>2. k \in Call /\ CallShape(k)
        BY <2>1 DEF Call, CallShape
    <2>3. handler' = [handler EXCEPT ![h] = k]
        BY <1>8 DEF StatusRead, Begin
    <2>4. excuses' \subseteq Excuses
        BY <1>8 DEF StatusRead, Overlap, TInv, TypeOK, Excuses
    <2> HIDE DEF k
    <2>. QED  BY <1>8, <2>2, <2>3, <2>4, OneCallMoves DEF StatusRead, TInv, TypeOK
<1>9. ASSUME NEW r \in Report, DeviceReport(r) PROVE TInv'
    BY <1>9 DEF DeviceReport, TInv, TypeOK, Shapes
<1>10. CASE Expire
    BY <1>10 DEF Expire, TInv, TypeOK, Shapes
<1>11. CASE Crash
    <2>1. Free \in Call
        BY DEF Free, Call
    <2>2. excuses' \subseteq Excuses /\ crashes' \in 0..MaxCrashes
        BY <1>11 DEF Crash, TInv, TypeOK, Excuses
    <2>. QED  BY <1>11, <2>1, <2>2 DEF Crash, TInv, TypeOK, Shapes, Free
<1>12. CASE UNCHANGED vars
    BY <1>12 DEF vars, TInv, TypeOK, Shapes
<1>. QED  BY <1>1, <1>2, <1>3, <1>4, <1>5, <1>6, <1>7, <1>8, <1>9, <1>10, <1>11, <1>12
          DEF Next, Step

(* The session, the calls and the counters of start, stop and
   handleStreamStatus keep their types. *)
THEOREM TypeCorrect == Spec => []TypeOK
<1>1. TInv => TypeOK
    BY DEF TInv
<1>. QED  BY <1>1, InitialTypes, StepTypes, PTL DEF Spec

-----------------------------------------------------------------------------
(* Statuses are of their request. *)

(* A step of one call, whose copy and session are backed, keeps the rest. *)
LEMMA OneCopyMoves ==
    ASSUME TInv, CopiesBacked, NEW h \in Handlers, NEW k,
           handler' = [handler EXCEPT ![h] = k], reports' = reports,
           Backed(k.copy, reports), Backed(session', reports)
    PROVE  CopiesBacked'
<1>1. handler \in [Handlers -> Call]
    BY DEF TInv, TypeOK
<1>2. \A g \in Handlers : Backed(handler'[g].copy, reports)
    BY <1>1 DEF CopiesBacked
<1>. QED  BY <1>2 DEF CopiesBacked

(* Every step leaves the session and the copies backed by reports. *)
LEMMA StepBacked ==
    ASSUME TInv, CopiesBacked, [Next]_vars
    PROVE  CopiesBacked'
<1>0. /\ \A h \in Handlers : handler[h] # Free => handler[h] \in Call /\ CallShape(handler[h])
      /\ \A sent : Backed(Free.copy, sent) /\ Backed(NoSession, sent)
      /\ Backed(session, reports)
    BY DEF TInv, TypeOK, Shapes, Backed, Free, NoSession, CopiesBacked
<1>1. ASSUME NEW h \in Handlers, StartSet(h) PROVE CopiesBacked'
    <2> DEFINE x == [req |-> starts', status |-> "STARTING", url |-> FALSE]
               k == [op |-> "start", pc |-> "publish", copy |-> x]
    <2>1. Backed(x, reports) /\ k.copy = x
        BY DEF Backed
    <2>2. session' = x /\ handler' = [handler EXCEPT ![h] = k] /\ reports' = reports
        BY <1>1 DEF StartSet, Begin
    <2> HIDE DEF x, k
    <2>. QED  BY <2>1, <2>2, OneCopyMoves
<1>2. ASSUME NEW h \in Handlers, StopRead(h) PROVE CopiesBacked'
    <2> DEFINE k == [op |-> "stop", pc |-> "set", copy |-> session]
    <2>1. handler' = [handler EXCEPT ![h] = k] /\ k.copy = session
             /\ reports' = reports /\ session' = session
        BY <1>2 DEF StopRead, Begin
    <2> HIDE DEF k
    <2>. QED  BY <1>0, <2>1, OneCopyMoves
<1>3. ASSUME NEW h \in Handlers, NEW p \in {"set", "publish", "remove", "add"},
             handler[h] # Free, End(h) \/ Goto(h, p), Backed(session', reports), reports' = reports
      PROVE  CopiesBacked'
    <2>1. Backed([handler[h] EXCEPT !.pc = p].copy, reports)
        BY <1>0, <1>3, CallFields DEF CopiesBacked
    <2>. QED  BY <1>0, <1>3, <2>1, OneCopyMoves DEF End, Goto
<1>4. ASSUME NEW h \in Handlers, Publish(h) \/ RemovePath(h) \/ AddPath(h) PROVE CopiesBacked'
    <2>1. handler[h] # Free /\ session' = session /\ reports' = reports
        BY <1>4 DEF Publish, RemovePath, AddPath, Free
    <2>2. End(h) \/ \E p \in {"set", "publish", "remove", "add"} : Goto(h, p)
        BY <1>4 DEF Publish, RemovePath, AddPath
    <2>. QED  BY <1>0, <1>3, <2>1, <2>2
<1>5. ASSUME NEW h \in Handlers, StopSet(h) PROVE CopiesBacked'
    <2>1. handler[h] # Free
        BY <1>5 DEF StopSet, Free
    <2>2. session'.status = "STOPPED" /\ reports' = reports /\ Goto(h, "publish")
        BY <1>0, <1>5, <2>1, CallFields DEF StopSet
    <2>3. Backed(session', reports)
        BY <2>2 DEF Backed
    <2>. QED  BY <1>3, <2>1, <2>2, <2>3
<1>6. ASSUME NEW h \in Handlers, StatusSet(h) PROVE CopiesBacked'
    <2>1. handler[h] # Free /\ End(h) /\ reports' = reports
        BY <1>6 DEF StatusSet, Free
    <2>2. Backed(session', reports)
        BY <1>6 DEF StatusSet, CopiesBacked
    <2>. QED  BY <1>3, <2>1, <2>2
<1>7. ASSUME NEW h \in Handlers, NEW r \in Report, StatusRead(h, r) PROVE CopiesBacked'
    <2> DEFINE x == Updated(session, r)
               k == [op |-> "status", pc |-> IF r.rtsp THEN "remove" ELSE "set",
                     copy |-> x]
    <2>1. x.req = r.req /\ x.status = r.status
        BY <1>7, UpdatedSession DEF StatusRead, Accepts, TInv, TypeOK
    <2>2. r \in reports
        BY <1>7 DEF StatusRead
    <2>3. Backed(x, reports) /\ reports' = reports /\ session' = session
        BY <1>7, <2>1, <2>2 DEF Backed, StatusRead
    <2>4. handler' = [handler EXCEPT ![h] = k] /\ k.copy = x
        BY <1>7 DEF StatusRead, Begin
    <2> HIDE DEF x, k
    <2>. QED  BY <1>0, <2>3, <2>4, OneCopyMoves
<1>8. ASSUME NEW r \in Report, DeviceReport(r) PROVE CopiesBacked'
    BY <1>8 DEF DeviceReport, CopiesBacked, Backed
<1>9. CASE Expire
    BY <1>0, <1>9 DEF Expire, CopiesBacked
<1>10. CASE Crash
    <2>1. \A h \in Handlers : handler'[h] = Free
        BY <1>10 DEF Crash
    <2>. QED  BY <1>0, <1>10, <2>1 DEF Crash, CopiesBacked
<1>11. CASE UNCHANGED vars
    BY <1>11 DEF vars, CopiesBacked
<1>. QED  BY <1>1, <1>2, <1>4, <1>5, <1>6, <1>7, <1>8, <1>9, <1>10, <1>11 DEF Next, Step

(* The requestId of handleStreamStatus does its work: whatever overlaps, is
   late, repeated or cut short, a session never shows READY or FAILED that the
   device did not send for the request of that very session. *)
THEOREM StatusOfTheRequest == Spec => []StatusIsOfThisRequest
<1>1. Init => CopiesBacked
    BY DEF Init, CopiesBacked, Backed, NoSession, Free
<1>2. CopiesBacked => StatusIsOfThisRequest
    BY DEF CopiesBacked, Backed, StatusIsOfThisRequest
<1>. QED  BY <1>1, <1>2, InitialTypes, StepTypes, StepBacked, PTL DEF Spec

-----------------------------------------------------------------------------
(* Session, path and command agree while nothing interferes. *)

(* When only one call was in progress, the step of it is all that matters. *)
LEMMA OnlyCall ==
    ASSUME NEW h \in Handlers, \A g \in Handlers \ {h} : handler'[g] = Free,
           handler'[h] = Free => Settled',
           handler'[h] # Free => OnCourse(handler[h])'
    PROVE  Undisturbed'
BY DEF Undisturbed, Alone

(* The step of a call ends it or moves it on, and the others stay. *)
LEMMA OtherCalls ==
    ASSUME TInv, NEW h \in Handlers, \A g \in Handlers \ {h} : handler[g] = Free,
           NEW k, handler' = [handler EXCEPT ![h] = k]
    PROVE  handler'[h] = k /\ \A g \in Handlers \ {h} : handler'[g] = Free
BY DEF TInv, TypeOK

(* A step that is not excused keeps the agreement. *)
LEMMA StepUndisturbed ==
    ASSUME TInv, Undisturbed, [Next]_vars
    PROVE  Undisturbed'
<1> SUFFICES ASSUME excuses' = {} PROVE Undisturbed'
    BY DEF Undisturbed
<1>0. ASSUME NEW h \in Handlers, handler[h] # Free
      PROVE  handler[h] \in Call /\ CallShape(handler[h])
    BY <1>0 DEF TInv, TypeOK, Shapes
<1>1. ASSUME NEW h \in Handlers, handler[h] # Free, excuses = {}
      PROVE  OnCourse(handler[h]) /\ \A g \in Handlers \ {h} : handler[g] = Free
    BY <1>1 DEF Undisturbed
<1>2. ASSUME NEW h \in Handlers, StartSet(h) PROVE Undisturbed'
    <2> DEFINE x == [req |-> starts', status |-> "STARTING", url |-> FALSE]
               k == [op |-> "start", pc |-> "publish", copy |-> x]
    <2>1. \A g \in Handlers : handler[g] = Free
        BY <1>2 DEF StartSet, Alone
    <2>2. handler' = [handler EXCEPT ![h] = k] /\ session' = x
        BY <1>2 DEF StartSet, Begin
    <2>3. k.op = "start" /\ k.copy = session' /\ session'.status = "STARTING" /\ k # Free
        BY <2>2 DEF Free
    <2> HIDE DEF x, k
    <2>4. handler'[h] = k /\ \A g \in Handlers \ {h} : handler'[g] = Free
        BY <2>1, <2>2, OtherCalls
    <2>. QED  BY <2>3, <2>4, OnlyCall DEF OnCourse
<1>3. ASSUME NEW h \in Handlers, StopRead(h) PROVE Undisturbed'
    <2> DEFINE k == [op |-> "stop", pc |-> "set", copy |-> session]
    <2>1. \A g \in Handlers : handler[g] = Free
        BY <1>3 DEF StopRead, Overlap, Alone
    <2>2. handler' = [handler EXCEPT ![h] = k] /\ k.op = "stop" /\ k.pc = "set" /\ k # Free
        BY <1>3 DEF StopRead, Begin, Free
    <2> HIDE DEF k
    <2>3. handler'[h] = k /\ \A g \in Handlers \ {h} : handler'[g] = Free
        BY <2>1, <2>2, OtherCalls
    <2>. QED  BY <2>2, <2>3, OnlyCall DEF OnCourse
<1>4. ASSUME NEW h \in Handlers, Publish(h) PROVE Undisturbed'
    <2>1. handler[h] # Free /\ excuses = {}
        BY <1>4 DEF Publish, Free, Fault, NoFault
    <2>2. CallShape(handler[h]) /\ handler[h] \in Call /\ OnCourse(handler[h])
             /\ \A g \in Handlers \ {h} : handler[g] = Free
        BY <1>0, <1>1, <2>1
    <2>3. /\ command' = [op |-> handler[h].op, req |-> handler[h].copy.req]
          /\ session' = session /\ path' = path
        BY <1>4 DEF Publish, Fault
    <2>4. CASE handler[h].op = "start" /\ End(h)
        <3>1. handler'[h] = Free /\ \A g \in Handlers \ {h} : handler'[g] = Free
            BY <2>2, <2>4, OtherCalls DEF End
        <3>2. Settled'
            BY <2>2, <2>3, <2>4 DEF OnCourse, Settled, NoSession
        <3>. QED  BY <3>1, <3>2, OnlyCall
    <2>5. CASE handler[h].op = "stop" /\ Goto(h, "remove")
        <3> DEFINE k == [handler[h] EXCEPT !.pc = "remove"]
        <3>1. k.op = "stop" /\ k.pc = "remove" /\ k.copy = handler[h].copy
            BY <2>2, <2>5, CallFields
        <3>2. handler' = [handler EXCEPT ![h] = k]
            BY <2>5 DEF Goto
        <3> HIDE DEF k
        <3>3. handler'[h] = k /\ \A g \in Handlers \ {h} : handler'[g] = Free
            BY <2>2, <3>2, OtherCalls
        <3>4. OnCourse(handler[h])'
            BY <1>4, <2>2, <2>3, <2>5, <3>1, <3>3 DEF OnCourse, Publish
        <3>5. handler'[h] # Free
            BY <3>1, <3>3 DEF Free
        <3>. QED  BY <3>3, <3>4, <3>5, OnlyCall
    <2>. QED  BY <1>4, <2>2, <2>4, <2>5 DEF Publish, Fault, CallShape
<1>5. ASSUME NEW h \in Handlers, RemovePath(h) PROVE Undisturbed'
    <2>1. handler[h] # Free /\ excuses = {}
        BY <1>5 DEF RemovePath, Free, Fault, NoFault
    <2>2. CallShape(handler[h]) /\ handler[h] \in Call /\ OnCourse(handler[h])
             /\ \A g \in Handlers \ {h} : handler[g] = Free
        BY <1>0, <1>1, <2>1
    <2>3. session' = session /\ command' = command /\ path' = FALSE
        BY <1>5 DEF RemovePath, Fault
    <2>4. CASE handler[h].op = "stop" /\ End(h)
        <3>1. handler'[h] = Free /\ \A g \in Handlers \ {h} : handler'[g] = Free
            BY <2>2, <2>4, OtherCalls DEF End
        <3>2. Settled'
            BY <1>5, <2>2, <2>3, <2>4 DEF OnCourse, Settled, NoSession, RemovePath
        <3>. QED  BY <3>1, <3>2, OnlyCall
    <2>5. CASE handler[h].op = "status" /\ Goto(h, "add")
        <3> DEFINE k == [handler[h] EXCEPT !.pc = "add"]
        <3>1. k.op = "status" /\ k.pc = "add" /\ k.copy = handler[h].copy
            BY <2>2, <2>5, CallFields
        <3>2. handler' = [handler EXCEPT ![h] = k]
            BY <2>5 DEF Goto
        <3> HIDE DEF k
        <3>3. handler'[h] = k /\ \A g \in Handlers \ {h} : handler'[g] = Free
            BY <2>2, <3>2, OtherCalls
        <3>4. OnCourse(handler[h])' /\ handler'[h] # Free
            BY <2>2, <2>3, <2>5, <3>1, <3>3 DEF OnCourse, Free
        <3>. QED  BY <3>3, <3>4, OnlyCall
    <2>. QED  BY <1>5, <2>2, <2>4, <2>5 DEF RemovePath, Fault, CallShape
<1>6. ASSUME NEW h \in Handlers, AddPath(h) PROVE Undisturbed'
    <2>1. handler[h] # Free /\ excuses = {}
        BY <1>6 DEF AddPath, Free, Fault, NoFault
    <2>2. CallShape(handler[h]) /\ handler[h] \in Call /\ OnCourse(handler[h])
             /\ \A g \in Handlers \ {h} : handler[g] = Free
        BY <1>0, <1>1, <2>1
    <2>3. session' = session /\ command' = command /\ path' /\ Goto(h, "set")
        BY <1>6 DEF AddPath, Fault
    <2> DEFINE k == [handler[h] EXCEPT !.pc = "set"]
    <2>4. k.op = "status" /\ k.pc = "set" /\ k.copy = handler[h].copy
        BY <1>6, <2>2, CallFields DEF CallShape, AddPath
    <2>5. handler' = [handler EXCEPT ![h] = k]
        BY <2>3 DEF Goto
    <2> HIDE DEF k
    <2>6. handler'[h] = k /\ \A g \in Handlers \ {h} : handler'[g] = Free
        BY <2>2, <2>5, OtherCalls
    <2>7. OnCourse(handler[h])' /\ handler'[h] # Free
        BY <1>6, <2>2, <2>3, <2>4, <2>6 DEF OnCourse, Free, AddPath, CallShape
    <2>. QED  BY <2>6, <2>7, OnlyCall
<1>7. ASSUME NEW h \in Handlers, StopSet(h) PROVE Undisturbed'
    <2>1. handler[h] # Free /\ excuses = {}
        BY <1>7 DEF StopSet, Free
    <2>2. CallShape(handler[h]) /\ handler[h] \in Call
             /\ \A g \in Handlers \ {h} : handler[g] = Free
        BY <1>0, <1>1, <2>1
    <2>3. session'.req = handler[h].copy.req /\ session'.status = "STOPPED"
        BY <1>7, <2>2, CallFields DEF StopSet
    <2> DEFINE k == [handler[h] EXCEPT !.pc = "publish"]
    <2>4. k.op = "stop" /\ k.pc = "publish" /\ k.copy = handler[h].copy
        BY <1>7, <2>2, CallFields DEF StopSet
    <2>5. handler' = [handler EXCEPT ![h] = k]
        BY <1>7 DEF StopSet, Goto
    <2> HIDE DEF k
    <2>6. handler'[h] = k /\ \A g \in Handlers \ {h} : handler'[g] = Free
        BY <2>2, <2>5, OtherCalls
    <2>7. OnCourse(handler[h])' /\ handler'[h] # Free
        BY <2>3, <2>4, <2>6 DEF OnCourse, Free
    <2>. QED  BY <2>6, <2>7, OnlyCall
<1>8. ASSUME NEW h \in Handlers, StatusSet(h) PROVE Undisturbed'
    <2>1. handler[h] # Free /\ excuses = {}
        BY <1>8 DEF StatusSet, Free
    <2>2. OnCourse(handler[h]) /\ \A g \in Handlers \ {h} : handler[g] = Free
        BY <1>1, <2>1
    <2>3. handler'[h] = Free /\ \A g \in Handlers \ {h} : handler'[g] = Free
        BY <1>8, <2>2, OtherCalls DEF StatusSet, End
    <2>4. Settled'
        BY <1>8, <2>2 DEF OnCourse, Settled, StatusSet, ReadyWithoutSource
    <2>. QED  BY <2>3, <2>4, OnlyCall
<1>9. ASSUME NEW h \in Handlers, NEW r \in Report, StatusRead(h, r) PROVE Undisturbed'
    <2> DEFINE k == [op |-> "status", pc |-> IF r.rtsp THEN "remove" ELSE "set",
                     copy |-> Updated(session, r)]
    <2>1. Alone /\ excuses = {} /\ session.status # "STOPPED" /\ session # NoSession
        BY <1>9 DEF StatusRead, Overlap, Accepts
    <2>2. Settled /\ \A g \in Handlers : handler[g] = Free
        BY <2>1 DEF Undisturbed, Alone
    <2>3. command' = command /\ command.op = "start" /\ command.req = session.req
        BY <1>9, <2>1, <2>2 DEF Settled, StatusRead
    <2>4. k.copy.req = session.req /\ k.copy.status = r.status
        BY <1>9, <2>1, UpdatedSession DEF TInv, TypeOK
    <2>5. k.op = "status" /\ (k.pc = "set" => ~r.rtsp) /\ k # Free
        BY DEF Free
    <2>9. r.status = "READY" /\ ~r.rtsp => ReadyWithoutSource(session.req)'
        BY <1>9 DEF StatusRead, Accepts, ReadyWithoutSource
    <2>10. session' = session
        BY <1>9 DEF StatusRead
    <2>6. handler' = [handler EXCEPT ![h] = k]
        BY <1>9 DEF StatusRead, Begin
    <2> HIDE DEF k
    <2>7. handler'[h] = k /\ \A g \in Handlers \ {h} : handler'[g] = Free
        BY <2>2, <2>6, OtherCalls
    <2>8. OnCourse(handler[h])'
        BY <2>3, <2>4, <2>5, <2>7, <2>9, <2>10 DEF OnCourse, ReadyWithoutSource
    <2>. QED  BY <2>5, <2>7, <2>8, OnlyCall
<1>10. ASSUME NEW r \in Report, DeviceReport(r) PROVE Undisturbed'
    BY <1>10 DEF DeviceReport, Undisturbed, Alone, Settled, OnCourse, ReadyWithoutSource
<1>11. CASE Expire
    BY <1>11 DEF Expire, Undisturbed, Alone, Settled, OnCourse, NoSession, ReadyWithoutSource
<1>12. CASE Crash
    <2>1. Alone /\ excuses = {}
        BY <1>12 DEF Crash
    <2>2. Settled /\ Settled'
        BY <1>12, <2>1 DEF Crash, Undisturbed, Settled, ReadyWithoutSource
    <2>. QED  BY <1>12, <2>2 DEF Crash, Undisturbed
<1>13. CASE UNCHANGED vars
    BY <1>13 DEF vars, Undisturbed, Alone, Settled, OnCourse, ReadyWithoutSource
<1>. QED  BY <1>2, <1>3, <1>4, <1>5, <1>6, <1>7, <1>8, <1>9, <1>10, <1>11, <1>12, <1>13
          DEF Next, Step

(* While no call of the device overlaps another, fails, is late or is cut
   short by a crash, start, stop and handleStreamStatus keep their agreement,
   for any number of sessions. *)
LEMMA Agreement == Spec => []Undisturbed
<1>1. Init => Undisturbed
    BY DEF Init, Undisturbed, Settled, NoSession
<1>. QED  BY <1>1, InitialTypes, StepTypes, StepUndisturbed, PTL DEF Spec

(* A READY session has its path on the media server, unless the device called
   its stream READY without an rtspUrl: only a READY with one is registered
   (mqtt.service.ts:353), and the session is saved READY either way. *)
THEOREM ReadyStreamHasAPath == Spec => []ReadyHasAPath
<1>1. Undisturbed => ReadyHasAPath
    BY DEF Undisturbed, Settled, ReadyHasAPath
<1>. QED  BY <1>1, Agreement, PTL

(* The device was last told what the session stands for. *)
THEOREM LastCommandIsOfTheSession == Spec => []CommandIsOfTheSession
<1>1. Undisturbed => CommandIsOfTheSession
    BY DEF Undisturbed, Settled, CommandIsOfTheSession
<1>. QED  BY <1>1, Agreement, PTL

-----------------------------------------------------------------------------
(* The media library. *)

(* What the calls in progress hold: rows that are there, results of jobs that
   are, and a job of the analysis still to be given.  A key the sweep is about
   to delete is one its lookup found free. *)
Holding ==
    /\ sweep.key /= None => sweep.free
    /\ deleter.copy /= NoCopy => deleter.copy[2] \in DOMAIN rows
    /\ deleter.copy = NoCopy => deleter = NoDelete
    /\ analyzer.copy /= NoCopy => analyzer.copy[2] \in DOMAIN rows /\ Len(jobs) < MaxJobs
    /\ analyzer.copy = NoCopy => analyzer = NoAnalysis
    /\ reader.copy /= NoCopy =>
          reader.copy[2] \in DOMAIN rows /\ reader.result.job \in DOMAIN jobs
    /\ reader.copy = NoCopy => reader = NoReader
    /\ \A n \in DOMAIN jobs : jobs[n] \in DOMAIN rows
    /\ \A res \in results : res.job \in DOMAIN jobs

MediaInv == MediaTypeOK /\ Holding

(* A pending row is being answered, whatever the analysis that has only read
   it will do: an analysis counts from the moment it has written the row. *)
Answering(r) ==
    \/ \E n \in open : jobs[n] = r
    \/ \E res \in results : jobs[res.job] = r
    \/ analyzer.pc /= "read" /\ analyzer.copy[2] = r
    \/ reader.copy /= NoCopy /\ reader.copy[2] = r
    \/ r \in strayed

PendingSoFar == \A r \in Live : rows[r].status = "pending" => Answering(r)

-----------------------------------------------------------------------------
(* Copies and rows. *)

LEMMA CopyIs ==
    ASSUME NEW c \in Copies, c /= NoCopy
    PROVE  c[1] \in MediaLog /\ c[2] \in 1..MaxRows
BY DEF Copies, NoCopy

LEMMA CopyOf ==
    ASSUME NEW m \in MediaLog, NEW r \in 1..MaxRows
    PROVE  <<m, r>> \in Copies /\ <<m, r>> /= NoCopy /\ <<m, r>>[1] = m /\ <<m, r>>[2] = r
<1>1. <<m, r>>[1] = m /\ <<m, r>>[2] = r /\ Len(<<m, r>>) = 2
    OBVIOUS
<1>2. <<m, r>> \in MediaLog \X (1..MaxRows)
    OBVIOUS
<1>3. Len(NoCopy) = 0
    BY DEF NoCopy
<1>. QED  BY <1>1, <1>2, <1>3 DEF Copies

(* A row read by a call, and the index it is found at. *)
LEMMA RowsAre ==
    ASSUME MediaInv, NEW r \in DOMAIN rows
    PROVE  rows[r] \in MediaLog /\ r \in 1..MaxRows /\ r \in 1..Len(rows)
<1>1. rows \in Seq(MediaLog) /\ Len(rows) \in Nat /\ Len(rows) <= MaxRows
    BY DEF MediaInv, MediaTypeOK
<1>2. DOMAIN rows = 1..Len(rows)
    BY <1>1
<1>3. r \in 1..Len(rows)
    BY <1>2
<1>4. rows[r] \in MediaLog
    BY <1>1, <1>3
<1>. QED  BY <1>1, <1>3, <1>4, MediaAssumption

(* The rows after one of them is overwritten. *)
LEMMA OneRowSaved ==
    ASSUME MediaInv, NEW r \in DOMAIN rows, NEW m \in MediaLog,
           rows' = [rows EXCEPT ![r] = m]
    PROVE  /\ rows' \in Seq(MediaLog) /\ Len(rows') = Len(rows) /\ DOMAIN rows' = DOMAIN rows
           /\ rows'[r] = m
           /\ \A s \in DOMAIN rows : s /= r => rows'[s] = rows[s]
<1>1. rows \in Seq(MediaLog)
    BY DEF MediaInv, MediaTypeOK
<1>. QED  BY <1>1

(* A row appended. *)
LEMMA OneRowMore ==
    ASSUME MediaInv, NEW m \in MediaLog, rows' = Append(rows, m)
    PROVE  /\ rows' \in Seq(MediaLog) /\ Len(rows') = Len(rows) + 1
           /\ DOMAIN rows' = DOMAIN rows \cup {Len(rows) + 1}
           /\ rows'[Len(rows) + 1] = m
           /\ \A s \in DOMAIN rows : rows'[s] = rows[s]
<1>1. rows \in Seq(MediaLog) /\ Len(rows) \in Nat
    BY DEF MediaInv, MediaTypeOK
<1>2. rows' \in Seq(MediaLog) /\ Len(rows') = Len(rows) + 1
    BY <1>1
<1>3. rows'[Len(rows) + 1] = m /\ \A s \in 1..Len(rows) : rows'[s] = rows[s]
    BY <1>1
<1>4. DOMAIN rows = 1..Len(rows) /\ DOMAIN rows' = 1..(Len(rows) + 1)
    BY <1>1, <1>2
<1>. QED  BY <1>1, <1>2, <1>3, <1>4

-----------------------------------------------------------------------------
(* Types. *)

LEMMA KeysAreNumbers ==
    /\ Keys \subseteq AllKeys /\ Outputs \subseteq AllKeys
    /\ None \notin AllKeys
    /\ \A n \in 1..MaxJobs : 100 + n \in Outputs
BY MediaAssumption DEF AllKeys, Outputs, None

LEMMA MediaInitially == MediaInit => MediaInv
<1>1. SUFFICES ASSUME MediaInit PROVE MediaInv
    OBVIOUS
<1>2. NoCopy \in Copies
    BY DEF Copies, NoCopy
<1>3. /\ deleter \in [copy : Copies, next : {"key", "out", "row"}]
      /\ analyzer \in [copy : Copies, pc : {"read", "saved", "failed"}]
      /\ reader \in [copy : Copies, result : [job : Nat \ {0}, ok : BOOLEAN]]
      /\ deleter.copy = NoCopy /\ analyzer.copy = NoCopy /\ reader.copy = NoCopy
    BY <1>1, <1>2 DEF MediaInit, NoDelete, NoAnalysis, NoReader
<1>4. sweep \in [todo : SUBSET AllKeys, key : AllKeys \cup {None}, free : BOOLEAN, on : BOOLEAN]
      /\ sweep.key = None
    BY <1>1 DEF MediaInit, NoSweep
<1>5. rows \in Seq(MediaLog) /\ Len(rows) <= MaxRows /\ DOMAIN rows = {}
      /\ jobs \in Seq(1..MaxRows) /\ Len(jobs) <= MaxJobs /\ DOMAIN jobs = {}
    BY <1>1, MediaAssumption DEF MediaInit
<1>6. MediaTypeOK
    BY <1>1, <1>3, <1>4, <1>5, MediaAssumption DEF MediaInit, MediaTypeOK
<1>7. Holding
    BY <1>1, <1>3, <1>4, <1>5 DEF MediaInit, Holding
<1>. QED  BY <1>6, <1>7 DEF MediaInv

(* A failing call, or one that does not fail, keeps the count of faults. *)
LEMMA MediaFaultTypes ==
    ASSUME MediaInv, MediaFault \/ UNCHANGED mediaFaults
    PROVE  mediaFaults' \in 0..MaxMediaFaults
BY MediaAssumption DEF MediaInv, MediaTypeOK, MediaFault

(* Uploads keep the types. *)
LEMMA UploadsKeepTypes ==
    ASSUME MediaInv,
           \/ \E k \in Keys : \/ RequestUploadUrl(k) \/ UploadRaw(k)
                              \/ ConfirmHead(k) \/ ConfirmRefused(k)
           \/ SaveLog
    PROVE  MediaInv'
<1> USE MediaAssumption, KeysAreNumbers
<1>1. ASSUME NEW k \in Keys, RequestUploadUrl(k) PROVE MediaInv'
    <2>1. MediaTypeOK'
        BY <1>1 DEF MediaInv, MediaTypeOK, RequestUploadUrl, Put, flowVars, faultVars
    <2>2. Holding'
        BY <1>1 DEF MediaInv, Holding, RequestUploadUrl, flowVars
    <2>. QED  BY <2>1, <2>2 DEF MediaInv
<1>2. ASSUME NEW k \in Keys, UploadRaw(k) PROVE MediaInv'
    <2>1. MediaTypeOK'
        BY <1>2 DEF MediaInv, MediaTypeOK, UploadRaw, Put, flowVars, faultVars
    <2>2. Holding'
        BY <1>2 DEF MediaInv, Holding, UploadRaw, flowVars
    <2>. QED  BY <2>1, <2>2 DEF MediaInv
<1>3. ASSUME NEW k \in Keys, ConfirmHead(k) PROVE MediaInv'
    <2>1. MediaTypeOK'
        BY <1>3 DEF MediaInv, MediaTypeOK, ConfirmHead, flowVars, faultVars
    <2>2. Holding'
        BY <1>3 DEF MediaInv, Holding, ConfirmHead, flowVars
    <2>. QED  BY <2>1, <2>2 DEF MediaInv
<1>4. ASSUME NEW k \in Keys, ConfirmRefused(k) PROVE MediaInv'
    <2>1. MediaTypeOK'
        BY <1>4 DEF MediaInv, MediaTypeOK, ConfirmRefused, Drop, flowVars, fileVars, faultVars
    <2>2. Holding'
        BY <1>4 DEF MediaInv, Holding, ConfirmRefused, flowVars
    <2>. QED  BY <2>1, <2>2 DEF MediaInv
<1>5. ASSUME SaveLog PROVE MediaInv'
    <2> DEFINE m == [key |-> confirm, out |-> None, status |-> "none", deleted |-> FALSE]
    <2>1. m \in MediaLog
        BY <1>5 DEF MediaInv, MediaTypeOK, SaveLog, MediaLog, ProcessingStatuses
    <2>2. mediaFaults' \in 0..MaxMediaFaults
        BY <1>5, MediaFaultTypes DEF SaveLog
    <2> HIDE DEF m
    <2>3. /\ rows' \in Seq(MediaLog) /\ Len(rows') <= MaxRows
          /\ DOMAIN rows \subseteq DOMAIN rows'
        <3>1. CASE Len(rows) < MaxRows /\ rows' = Append(rows, m)
            BY <2>1, <3>1, OneRowMore DEF MediaInv, MediaTypeOK
        <3>2. CASE rows' = rows
            BY <3>2 DEF MediaInv, MediaTypeOK
        <3>. QED  BY <1>5, <3>1, <3>2 DEF SaveLog, m
    <2>4. torn' \subseteq AllKeys /\ confirm' = None
        BY <1>5 DEF MediaInv, MediaTypeOK, SaveLog
    <2>5. UNCHANGED <<objects, old, sweep, deleter, flowVars, puts, mediaCrashes>>
        BY <1>5 DEF SaveLog
    <2>6. MediaTypeOK'
        BY <2>2, <2>3, <2>4, <2>5 DEF MediaInv, MediaTypeOK, flowVars
    <2>7. Holding'
        BY <2>3, <2>5 DEF MediaInv, Holding, flowVars
    <2>. QED  BY <2>6, <2>7 DEF MediaInv
<1>. QED  BY <1>1, <1>2, <1>3, <1>4, <1>5

(* Deletions, the sweep and the passing of time keep the types. *)
LEMMA DeletionsKeepTypes ==
    ASSUME MediaInv,
           \/ \E r \in Live : DeleteRead(r)
           \/ DeleteObject \/ DeleteRow
    PROVE  MediaInv'
<1> USE MediaAssumption, KeysAreNumbers
<1>1. ASSUME NEW r \in Live, DeleteRead(r) PROVE MediaInv'
    <2>1. r \in DOMAIN rows
        BY DEF Live
    <2>2. <<rows[r], r>> \in Copies /\ <<rows[r], r>> /= NoCopy /\ <<rows[r], r>>[2] = r
        BY <2>1, RowsAre, CopyOf
    <2>3. /\ deleter' \in [copy : Copies, next : {"key", "out", "row"}]
          /\ deleter'.copy /= NoCopy /\ deleter'.copy[2] = r
        BY <1>1, <2>2 DEF DeleteRead
    <2>4. MediaTypeOK'
        BY <1>1, <2>3 DEF MediaInv, MediaTypeOK, DeleteRead, flowVars, fileVars, faultVars
    <2>5. Holding'
        BY <1>1, <2>1, <2>3 DEF MediaInv, Holding, DeleteRead, flowVars
    <2>. QED  BY <2>4, <2>5 DEF MediaInv
<1>2. ASSUME DeleteObject PROVE MediaInv'
    <2> DEFINE key == deleter.copy[1][deleter.next]
    <2>1. deleter \in [copy : Copies, next : {"key", "out", "row"}] /\ deleter.copy /= NoCopy
        BY <1>2 DEF MediaInv, MediaTypeOK, DeleteObject
    <2>2. deleter.copy[1] \in MediaLog
        BY <2>1, CopyIs
    <2>3. key \in AllKeys \cup {None}
        <3>1. CASE deleter.next = "key"
            BY <2>2, <3>1 DEF MediaLog
        <3>2. CASE deleter.next = "out"
            BY <2>2, <3>2 DEF MediaLog
        <3>. QED  BY <1>2, <2>1, <3>1, <3>2 DEF DeleteObject
    <2>4. /\ deleter' \in [copy : Copies, next : {"key", "out", "row"}]
          /\ deleter'.copy = deleter.copy
        BY <1>2, <2>1 DEF DeleteObject
    <2> HIDE DEF key
    <2>5. old' \subseteq objects' /\ objects' \subseteq AllKeys
        BY <1>2 DEF DeleteObject, Drop, MediaInv, MediaTypeOK
    <2>6. mediaFaults' \in 0..MaxMediaFaults
        BY <1>2, MediaFaultTypes DEF DeleteObject
    <2>7. torn' \subseteq AllKeys
        BY <1>2, <2>3 DEF DeleteObject, key, OthersRefer, Refers, MediaInv, MediaTypeOK
    <2>8. UNCHANGED <<rows, sweep, flowVars, fileVars, mediaCrashes>>
        BY <1>2 DEF DeleteObject
    <2>9. MediaTypeOK'
        BY <2>4, <2>5, <2>6, <2>7, <2>8 DEF MediaInv, MediaTypeOK, flowVars, fileVars
    <2>10. Holding'
        BY <2>1, <2>4, <2>8 DEF MediaInv, Holding, flowVars
    <2>. QED  BY <2>9, <2>10 DEF MediaInv
<1>3. ASSUME DeleteRow PROVE MediaInv'
    <2> DEFINE r == deleter.copy[2]
               m == [rows[r] EXCEPT !.deleted = TRUE]
    <2>1. deleter.copy /= NoCopy
        BY <1>3 DEF DeleteRow, MediaInv, Holding, NoDelete
    <2>2. r \in DOMAIN rows
        BY <2>1 DEF MediaInv, Holding
    <2>3. rows[r] \in MediaLog
        BY <2>2, RowsAre
    <2>4. m \in MediaLog /\ {rows[r].key, rows[r].out} \ {None} \subseteq AllKeys
        BY <2>3 DEF MediaLog
    <2>5. /\ rows' = [rows EXCEPT ![r] = m] \/ rows' = rows
          /\ torn' = torn \/ torn' = torn \cup Refers(r)
          /\ deleter' = NoDelete
          /\ UNCHANGED <<objects, old, sweep, flowVars, fileVars, mediaCrashes>>
        BY <1>3 DEF DeleteRow
    <2>6. mediaFaults' \in 0..MaxMediaFaults
        BY <1>3, MediaFaultTypes DEF DeleteRow
    <2> HIDE DEF r, m
    <2>7. rows' \in Seq(MediaLog) /\ Len(rows') <= MaxRows /\ DOMAIN rows' = DOMAIN rows
        <3>1. CASE rows' = [rows EXCEPT ![r] = m]
            BY <2>2, <2>4, <3>1, OneRowSaved DEF MediaInv, MediaTypeOK
        <3>2. CASE rows' = rows
            BY <3>2 DEF MediaInv, MediaTypeOK
        <3>. QED  BY <2>5, <3>1, <3>2
    <2>8. torn' \subseteq AllKeys
        BY <2>4, <2>5 DEF Refers, MediaInv, MediaTypeOK
    <2>9. deleter' \in [copy : Copies, next : {"key", "out", "row"}] /\ deleter'.copy = NoCopy
        BY <2>5 DEF NoDelete, Copies, NoCopy
    <2>10. MediaTypeOK'
        BY <2>5, <2>6, <2>7, <2>8, <2>9 DEF MediaInv, MediaTypeOK, flowVars, fileVars
    <2>11. Holding'
        BY <2>5, <2>7, <2>9 DEF MediaInv, Holding, flowVars
    <2>. QED  BY <2>10, <2>11 DEF MediaInv
<1>. QED  BY <1>1, <1>2, <1>3

LEMMA SweepKeepsTypes ==
    ASSUME MediaInv, SweepStep \/ Age
    PROVE  MediaInv'
<1> USE MediaAssumption, KeysAreNumbers
<1> DEFINE Sweeps == [todo : SUBSET AllKeys, key : AllKeys \cup {None},
                      free : BOOLEAN, on : BOOLEAN]
<1>0. ASSUME sweep' \in Sweeps, ~sweep'.on => sweep' = NoSweep,
             sweep'.key /= None => sweep'.free,
             old' \subseteq objects' /\ objects' \subseteq AllKeys, torn' \subseteq AllKeys,
             mediaFaults' \in 0..MaxMediaFaults,
             UNCHANGED <<rows, deleter, flowVars, fileVars, mediaCrashes>>
      PROVE  MediaInv'
    <2>1. MediaTypeOK'
        BY <1>0 DEF MediaInv, MediaTypeOK, flowVars, fileVars
    <2>2. Holding'
        BY <1>0 DEF MediaInv, Holding, flowVars
    <2>. QED  BY <2>1, <2>2 DEF MediaInv
<1>s. /\ sweep \in Sweeps /\ (~sweep.on => sweep = NoSweep)
      /\ sweep.key /= None => sweep.free
      /\ old \subseteq objects /\ objects \subseteq AllKeys /\ torn \subseteq AllKeys
    BY DEF MediaInv, MediaTypeOK, Holding
<1>1. ASSUME SweepList PROVE MediaInv'
    <2>1. FirstPage \cap old \subseteq AllKeys
        BY <1>s
    <2>2. sweep' \in Sweeps /\ sweep'.on /\ sweep'.key = None
        BY <1>1, <2>1 DEF SweepList
    <2>3. mediaFaults' \in 0..MaxMediaFaults
        BY <1>1, MediaFaultTypes DEF SweepList, faultVars
    <2>4. /\ UNCHANGED <<rows, deleter, flowVars, fileVars, mediaCrashes>>
          /\ UNCHANGED <<old, objects, torn>>
        BY <1>1 DEF SweepList, faultVars
    <2>. QED  BY <1>0, <1>s, <2>2, <2>3, <2>4
<1>2. ASSUME NEW k \in AllKeys, SweepLookup(k) PROVE MediaInv'
    <2>1. /\ sweep'.todo = sweep.todo \ {k} /\ sweep'.on
          /\ sweep'.key = IF HasRecord(k) THEN None ELSE k
          /\ sweep'.free = (k \notin Referenced)
          /\ sweep' \in Sweeps
        BY <1>2, <1>s DEF SweepLookup
    <2>2. k \in Referenced => HasRecord(k)
        BY DEF Referenced, Refers, HasRecord
    <2>3. mediaFaults' \in 0..MaxMediaFaults
        BY <1>2, MediaFaultTypes DEF SweepLookup, faultVars
    <2>4. /\ UNCHANGED <<rows, deleter, flowVars, fileVars, mediaCrashes>>
          /\ UNCHANGED <<old, objects, torn>>
        BY <1>2 DEF SweepLookup, faultVars
    <2>5. sweep'.key /= None => sweep'.free
        BY <2>1, <2>2
    <2>. QED  BY <1>0, <1>s, <2>1, <2>3, <2>4, <2>5
<1>3. ASSUME SweepDelete PROVE MediaInv'
    <2>1. sweep.on
        BY <1>3, <1>s DEF SweepDelete, NoSweep
    <2>2. sweep' \in Sweeps /\ sweep'.key = None /\ sweep'.on
        BY <1>3, <1>s, <2>1 DEF SweepDelete
    <2>3. mediaFaults' \in 0..MaxMediaFaults
        BY <1>3, MediaFaultTypes DEF SweepDelete, faultVars
    <2>4. UNCHANGED <<rows, deleter, flowVars, fileVars, mediaCrashes>>
        BY <1>3 DEF SweepDelete, faultVars
    <2>5. old' \subseteq objects' /\ objects' \subseteq AllKeys
        BY <1>3, <1>s DEF SweepDelete, Drop
    <2>6. torn' \subseteq AllKeys
        BY <1>3, <1>s DEF SweepDelete
    <2>. QED  BY <1>0, <2>2, <2>3, <2>4, <2>5, <2>6
<1>4. ASSUME SweepEnd PROVE MediaInv'
    <2>1. sweep' \in Sweeps /\ sweep' = NoSweep /\ sweep'.key = None
        BY <1>4 DEF SweepEnd, NoSweep
    <2>2. mediaFaults' \in 0..MaxMediaFaults
        BY <1>4, MediaFaultTypes DEF SweepEnd
    <2>3. /\ UNCHANGED <<rows, deleter, flowVars, fileVars, mediaCrashes>>
          /\ UNCHANGED <<old, objects, torn>>
        BY <1>4 DEF SweepEnd
    <2>. QED  BY <1>0, <1>s, <2>1, <2>2, <2>3
<1>5. ASSUME Age PROVE MediaInv'
    <2>1. mediaFaults' \in 0..MaxMediaFaults
        BY <1>5, MediaFaultTypes DEF Age, faultVars
    <2>2. /\ UNCHANGED <<rows, deleter, flowVars, fileVars, mediaCrashes>>
          /\ UNCHANGED <<objects, torn, sweep>> /\ old' = objects
        BY <1>5 DEF Age, faultVars, fileVars
    <2>. QED  BY <1>0, <1>s, <2>1, <2>2
<1>. QED  BY <1>1, <1>2, <1>3, <1>4, <1>5 DEF SweepStep

(* A copy saved over its row. *)
LEMMA SaveTypes ==
    ASSUME MediaInv, NEW r \in DOMAIN rows, NEW m \in MediaLog, Save(m, r)
    PROVE  /\ rows' \in Seq(MediaLog) /\ Len(rows') <= MaxRows /\ DOMAIN rows' = DOMAIN rows
           /\ torn' \subseteq AllKeys
<1>1. rows' = [rows EXCEPT ![r] = m]
    BY DEF Save
<1>2. {m.key, m.out} \ {None} \subseteq AllKeys
    BY DEF MediaLog, AllKeys
<1>3. torn' \subseteq AllKeys
    BY <1>2 DEF Save, MediaInv, MediaTypeOK
<1>. QED  BY <1>1, <1>3, OneRowSaved DEF MediaInv, MediaTypeOK

(* What the analysis and the result consumer hold. *)
LEMMA FlowCopies ==
    ASSUME MediaInv
    PROVE  /\ analyzer.copy \in Copies
           /\ analyzer.copy /= NoCopy =>
                 /\ analyzer.copy[1] \in MediaLog
                 /\ analyzer.copy[2] \in DOMAIN rows /\ analyzer.copy[2] \in 1..MaxRows
           /\ reader.copy \in Copies
           /\ reader.copy /= NoCopy =>
                 /\ reader.copy[1] \in MediaLog
                 /\ reader.copy[2] \in DOMAIN rows /\ reader.copy[2] \in 1..MaxRows
                 /\ reader.result \in Result
<1>1. analyzer.copy \in Copies /\ reader.copy \in Copies
    BY DEF MediaInv, MediaTypeOK
<1>2. ASSUME reader.copy /= NoCopy PROVE reader.result \in Result
    <2>1. reader.result \in [job : Nat \ {0}, ok : BOOLEAN]
        BY DEF MediaInv, MediaTypeOK
    <2>2. reader.result.job \in DOMAIN jobs /\ jobs \in Seq(1..MaxRows) /\ Len(jobs) <= MaxJobs
        BY <1>2 DEF MediaInv, MediaTypeOK, Holding
    <2>3. reader.result.job \in 1..MaxJobs
        BY <2>2, MediaAssumption
    <2>. QED  BY <2>1, <2>3 DEF Result
<1>3. /\ analyzer.copy /= NoCopy => analyzer.copy[2] \in DOMAIN rows
      /\ reader.copy /= NoCopy => reader.copy[2] \in DOMAIN rows
    BY DEF MediaInv, Holding
<1>. QED  BY <1>1, <1>2, <1>3, CopyIs

(* The copy an analysis writes, at each of its saves. *)
LEMMA StatusOfCopy ==
    ASSUME NEW m \in MediaLog, NEW s \in ProcessingStatuses
    PROVE  /\ [m EXCEPT !.status = s] \in MediaLog
           /\ [m EXCEPT !.status = s].status = s
           /\ [m EXCEPT !.status = s].key = m.key /\ [m EXCEPT !.status = s].out = m.out
BY DEF MediaLog

LEMMA AnalysisKeepsTypes ==
    ASSUME MediaInv,
           \/ \E r \in Live : AnalyzeRead(r)
           \/ AnalyzeSave \/ AnalyzeProduce \/ AnalyzeFail
    PROVE  MediaInv'
<1> USE MediaAssumption, KeysAreNumbers
<1> DEFINE Analyses == [copy : Copies, pc : {"read", "saved", "failed"}]
<1>0. NoAnalysis \in Analyses /\ NoAnalysis.copy = NoCopy
    BY DEF NoAnalysis, Copies, NoCopy
<1>a. analyzer \in Analyses
    BY DEF MediaInv, MediaTypeOK
<1>1. ASSUME NEW r \in Live, AnalyzeRead(r) PROVE MediaInv'
    <2>1. r \in DOMAIN rows
        BY DEF Live
    <2>2. <<rows[r], r>> \in Copies /\ <<rows[r], r>> /= NoCopy /\ <<rows[r], r>>[2] = r
        BY <2>1, RowsAre, CopyOf
    <2>3. analyzer' \in Analyses /\ analyzer'.copy /= NoCopy /\ analyzer'.copy[2] = r
        BY <1>1, <2>2 DEF AnalyzeRead
    <2>4. Len(jobs) < MaxJobs
        BY <1>1 DEF AnalyzeRead
    <2>5. UNCHANGED <<objects, old, rows, sweep, deleter, jobs, open, results, reader,
                      strayed, fileVars, torn, faultVars>>
        BY <1>1 DEF AnalyzeRead
    <2>6. MediaTypeOK'
        BY <2>3, <2>5 DEF MediaInv, MediaTypeOK, fileVars, faultVars
    <2>7. Holding'
        BY <2>1, <2>3, <2>4, <2>5 DEF MediaInv, Holding
    <2>. QED  BY <2>6, <2>7 DEF MediaInv
<1>2. ASSUME AnalyzeSave PROVE MediaInv'
    <2> DEFINE m == [analyzer.copy[1] EXCEPT !.status = "pending"]
               r == analyzer.copy[2]
    <2>1. analyzer.copy /= NoCopy
        BY <1>2 DEF AnalyzeSave
    <2>2. m \in MediaLog /\ r \in DOMAIN rows /\ r \in 1..MaxRows /\ Len(jobs) < MaxJobs
        BY <2>1, FlowCopies, StatusOfCopy DEF ProcessingStatuses, MediaInv, Holding
    <2>3. \/ Save(m, r) /\ analyzer' = [copy |-> <<m, r>>, pc |-> "saved"]
          \/ analyzer' = NoAnalysis /\ UNCHANGED <<rows, torn>>
        BY <1>2 DEF AnalyzeSave
    <2>4. UNCHANGED <<objects, old, sweep, deleter, jobs, open, results, reader,
                      strayed, fileVars, mediaCrashes>>
        BY <1>2 DEF AnalyzeSave
    <2>5. mediaFaults' \in 0..MaxMediaFaults
        BY <1>2, MediaFaultTypes DEF AnalyzeSave
    <2> HIDE DEF m, r
    <2>6. /\ rows' \in Seq(MediaLog) /\ Len(rows') <= MaxRows /\ DOMAIN rows' = DOMAIN rows
          /\ torn' \subseteq AllKeys
        BY <2>2, <2>3, SaveTypes DEF MediaInv, MediaTypeOK
    <2>7. /\ analyzer' \in Analyses
          /\ analyzer'.copy /= NoCopy => analyzer'.copy[2] = r
          /\ analyzer'.copy = NoCopy => analyzer' = NoAnalysis
        BY <1>0, <2>2, <2>3, CopyOf
    <2>8. MediaTypeOK'
        BY <2>4, <2>5, <2>6, <2>7 DEF MediaInv, MediaTypeOK, fileVars
    <2>9. Holding'
        BY <2>2, <2>4, <2>6, <2>7 DEF MediaInv, Holding
    <2>. QED  BY <2>8, <2>9 DEF MediaInv
<1>3. ASSUME AnalyzeProduce PROVE MediaInv'
    <2>1. analyzer.copy /= NoCopy
        BY <1>3 DEF AnalyzeProduce, MediaInv, Holding, NoAnalysis
    <2>2. /\ analyzer.copy[2] \in DOMAIN rows /\ analyzer.copy[2] \in 1..MaxRows
          /\ Len(jobs) < MaxJobs
        BY <2>1, FlowCopies DEF MediaInv, Holding
    <2>3. jobs \in Seq(1..MaxRows) /\ Len(jobs) \in Nat /\ open \subseteq DOMAIN jobs
        BY DEF MediaInv, MediaTypeOK
    <2>4. UNCHANGED <<objects, old, rows, sweep, deleter, results, reader, strayed,
                      fileVars, torn, mediaCrashes>>
        BY <1>3 DEF AnalyzeProduce
    <2>5. mediaFaults' \in 0..MaxMediaFaults
        BY <1>3, MediaFaultTypes DEF AnalyzeProduce
    <2>6. CASE /\ jobs' = Append(jobs, analyzer.copy[2])
               /\ open' = open \cup {Len(jobs')} /\ analyzer' = NoAnalysis
        <3>1. jobs' \in Seq(1..MaxRows) /\ Len(jobs') = Len(jobs) + 1
            BY <2>2, <2>3, <2>6
        <3>2. DOMAIN jobs' = 1..(Len(jobs) + 1) /\ DOMAIN jobs = 1..Len(jobs)
            BY <2>3, <3>1
        <3>3. Len(jobs') <= MaxJobs /\ open' \subseteq DOMAIN jobs'
              /\ DOMAIN jobs \subseteq DOMAIN jobs'
            BY <2>2, <2>3, <2>6, <3>1, <3>2
        <3>4. \A n \in DOMAIN jobs' : jobs'[n] \in DOMAIN rows
            <4>1. \A n \in 1..Len(jobs) : jobs'[n] = jobs[n]
                BY <2>2, <2>3, <2>6
            <4>2. jobs'[Len(jobs) + 1] = analyzer.copy[2]
                BY <2>2, <2>3, <2>6
            <4>3. \A n \in DOMAIN jobs : jobs[n] \in DOMAIN rows
                BY DEF MediaInv, Holding
            <4>4. Len(jobs) \in Nat /\ analyzer.copy[2] \in DOMAIN rows
                BY <2>2, <2>3
            <4>5. \A n \in DOMAIN jobs' : n \in DOMAIN jobs \/ n = Len(jobs) + 1
                BY <3>2, <4>4
            <4>. QED  BY <3>2, <4>1, <4>2, <4>3, <4>4, <4>5
        <3>5. MediaTypeOK'
            BY <1>0, <2>4, <2>5, <2>6, <3>1, <3>3 DEF MediaInv, MediaTypeOK, fileVars
        <3>6. Holding'
            BY <1>0, <2>4, <2>6, <3>3, <3>4 DEF MediaInv, Holding
        <3>. QED  BY <3>5, <3>6 DEF MediaInv
    <2>7. CASE analyzer' = [analyzer EXCEPT !.pc = "failed"] /\ UNCHANGED <<jobs, open>>
        <3>1. analyzer' \in Analyses /\ analyzer'.copy = analyzer.copy
            BY <1>a, <2>7
        <3>2. MediaTypeOK'
            BY <2>4, <2>5, <2>7, <3>1 DEF MediaInv, MediaTypeOK, fileVars
        <3>3. Holding'
            BY <2>1, <2>4, <2>7, <3>1 DEF MediaInv, Holding
        <3>. QED  BY <3>2, <3>3 DEF MediaInv
    <2>. QED  BY <1>3, <2>6, <2>7 DEF AnalyzeProduce
<1>4. ASSUME AnalyzeFail PROVE MediaInv'
    <2> DEFINE m == [analyzer.copy[1] EXCEPT !.status = "failed"]
               r == analyzer.copy[2]
    <2>1. analyzer.copy /= NoCopy
        BY <1>4 DEF AnalyzeFail, MediaInv, Holding, NoAnalysis
    <2>2. m \in MediaLog /\ r \in DOMAIN rows
        BY <2>1, FlowCopies, StatusOfCopy DEF ProcessingStatuses
    <2>3. \/ Save(m, r) /\ UNCHANGED strayed
          \/ strayed' = strayed \cup {r} /\ UNCHANGED <<rows, torn>>
        BY <1>4 DEF AnalyzeFail
    <2>4. UNCHANGED <<objects, old, sweep, deleter, jobs, open, results, reader,
                      fileVars, mediaCrashes>> /\ analyzer' = NoAnalysis
        BY <1>4 DEF AnalyzeFail
    <2>5. mediaFaults' \in 0..MaxMediaFaults
        BY <1>4, MediaFaultTypes DEF AnalyzeFail
    <2> HIDE DEF m, r
    <2>6. /\ rows' \in Seq(MediaLog) /\ Len(rows') <= MaxRows /\ DOMAIN rows' = DOMAIN rows
          /\ torn' \subseteq AllKeys /\ strayed' \subseteq DOMAIN rows
        BY <2>2, <2>3, SaveTypes DEF MediaInv, MediaTypeOK
    <2>8. MediaTypeOK'
        BY <1>0, <2>4, <2>5, <2>6 DEF MediaInv, MediaTypeOK, fileVars
    <2>9. Holding'
        BY <1>0, <2>2, <2>4, <2>6 DEF MediaInv, Holding
    <2>. QED  BY <2>8, <2>9 DEF MediaInv
<1>. QED  BY <1>1, <1>2, <1>3, <1>4

(* What an answer makes of a copy: it is pending no more. *)
LEMMA AnsweredIs ==
    ASSUME NEW m \in MediaLog, NEW res \in Result
    PROVE  Answered(m, res) \in MediaLog /\ Answered(m, res).status /= "pending"
<1>1. 100 + res.job \in Outputs
    BY KeysAreNumbers DEF Result
<1>2. CASE res.ok
    BY <1>1, <1>2 DEF Answered, MediaLog, ProcessingStatuses
<1>3. CASE ~res.ok
    BY <1>3 DEF Answered, MediaLog, ProcessingStatuses
<1>. QED  BY <1>2, <1>3

LEMMA AnswersKeepTypes ==
    ASSUME MediaInv,
           \/ \E n \in 1..MaxJobs, ok \in BOOLEAN : WorkerAnswer(n, ok)
           \/ \E res \in results : ResultRead(res)
           \/ ResultSave
    PROVE  MediaInv'
<1> USE MediaAssumption, KeysAreNumbers
<1> DEFINE Readings == [copy : Copies, result : [job : Nat \ {0}, ok : BOOLEAN]]
<1>0. NoReader \in Readings /\ NoReader.copy = NoCopy
    BY DEF NoReader, Copies, NoCopy
<1>1. ASSUME NEW n \in 1..MaxJobs, NEW ok \in BOOLEAN, WorkerAnswer(n, ok) PROVE MediaInv'
    <2>1. n \in open /\ n \in DOMAIN jobs
        BY <1>1 DEF WorkerAnswer, MediaInv, MediaTypeOK
    <2>2. results' \subseteq Result /\ \A res \in results' : res.job \in DOMAIN jobs
        <3>1. [job |-> n, ok |-> ok] \in Result /\ [job |-> n, ok |-> ok].job = n
            BY DEF Result
        <3>2. results' = results \cup {[job |-> n, ok |-> ok]}
            BY <1>1 DEF WorkerAnswer
        <3>3. results \subseteq Result /\ \A res \in results : res.job \in DOMAIN jobs
            BY DEF MediaInv, MediaTypeOK, Holding
        <3>. QED  BY <2>1, <3>1, <3>2, <3>3
    <2>3. old' \subseteq objects' /\ objects' \subseteq AllKeys
        <3>1. CASE ok
            <4>1. objects' = objects \cup {100 + n} /\ old' = old \ {100 + n}
                BY <1>1, <3>1 DEF WorkerAnswer, Put
            <4>2. old \subseteq objects /\ objects \subseteq AllKeys /\ 100 + n \in AllKeys
                BY DEF MediaInv, MediaTypeOK
            <4>. QED  BY <4>1, <4>2
        <3>2. CASE ~ok
            BY <1>1, <3>2 DEF WorkerAnswer, MediaInv, MediaTypeOK
        <3>. QED  BY <3>1, <3>2
    <2>4. UNCHANGED <<rows, sweep, deleter, analyzer, jobs, reader, strayed, fileVars,
                      torn, faultVars>> /\ open' \subseteq open
        BY <1>1 DEF WorkerAnswer
    <2>5. MediaTypeOK'
        BY <2>2, <2>3, <2>4 DEF MediaInv, MediaTypeOK, fileVars, faultVars
    <2>6. Holding'
        BY <2>2, <2>4 DEF MediaInv, Holding
    <2>. QED  BY <2>5, <2>6 DEF MediaInv
<1>2. ASSUME NEW res \in results, ResultRead(res) PROVE MediaInv'
    <2> DEFINE r == jobs[res.job]
    <2>1. res \in Result /\ res.job \in DOMAIN jobs /\ r \in DOMAIN rows
        BY DEF MediaInv, MediaTypeOK, Holding
    <2>2. res \in [job : Nat \ {0}, ok : BOOLEAN]
        BY <2>1 DEF Result
    <2>3. <<rows[r], r>> \in Copies /\ <<rows[r], r>> /= NoCopy /\ <<rows[r], r>>[2] = r
        BY <2>1, RowsAre, CopyOf
    <2>4. /\ \/ reader' = [copy |-> <<rows[r], r>>, result |-> res]
             \/ reader' = reader
          /\ strayed' \subseteq strayed \cup {r}
          /\ reader = NoReader
        BY <1>2 DEF ResultRead
    <2>5. results' \subseteq results
          /\ UNCHANGED <<objects, old, rows, sweep, deleter, analyzer, jobs, open,
                         fileVars, torn, mediaCrashes>>
        BY <1>2 DEF ResultRead
    <2>6. mediaFaults' \in 0..MaxMediaFaults
        BY <1>2, MediaFaultTypes DEF ResultRead
    <2> HIDE DEF r
    <2>7. /\ reader' \in Readings
          /\ reader'.copy /= NoCopy => reader'.copy[2] = r /\ reader'.result = res
          /\ reader'.copy = NoCopy => reader' = NoReader
        BY <1>0, <2>2, <2>3, <2>4
    <2>8. strayed' \subseteq DOMAIN rows
        BY <2>1, <2>4 DEF MediaInv, MediaTypeOK
    <2>9. MediaTypeOK'
        BY <2>5, <2>6, <2>7, <2>8 DEF MediaInv, MediaTypeOK, fileVars
    <2>10. Holding'
        BY <2>1, <2>5, <2>7 DEF MediaInv, Holding
    <2>. QED  BY <2>9, <2>10 DEF MediaInv
<1>3. ASSUME ResultSave PROVE MediaInv'
    <2> DEFINE m == Answered(reader.copy[1], reader.result)
               r == reader.copy[2]
    <2>1. reader.copy /= NoCopy
        BY <1>3 DEF ResultSave, MediaInv, Holding
    <2>2. m \in MediaLog /\ r \in DOMAIN rows
        BY <2>1, FlowCopies, AnsweredIs
    <2>3. \/ Save(m, r) /\ UNCHANGED strayed
          \/ strayed' = strayed \cup {r} /\ UNCHANGED <<rows, torn>>
        BY <1>3 DEF ResultSave
    <2>4. UNCHANGED <<objects, old, sweep, deleter, analyzer, jobs, open, results,
                      fileVars, mediaCrashes>> /\ reader' = NoReader
        BY <1>3 DEF ResultSave
    <2>5. mediaFaults' \in 0..MaxMediaFaults
        BY <1>3, MediaFaultTypes DEF ResultSave
    <2> HIDE DEF m, r
    <2>6. /\ rows' \in Seq(MediaLog) /\ Len(rows') <= MaxRows /\ DOMAIN rows' = DOMAIN rows
          /\ torn' \subseteq AllKeys /\ strayed' \subseteq DOMAIN rows
        BY <2>2, <2>3, SaveTypes DEF MediaInv, MediaTypeOK
    <2>8. MediaTypeOK'
        BY <1>0, <2>4, <2>5, <2>6 DEF MediaInv, MediaTypeOK, fileVars
    <2>9. Holding'
        BY <1>0, <2>2, <2>4, <2>6 DEF MediaInv, Holding
    <2>. QED  BY <2>8, <2>9 DEF MediaInv
<1>. QED  BY <1>1, <1>2, <1>3

LEMMA MediaCrashKeepsTypes ==
    ASSUME MediaInv, MediaCrash
    PROVE  MediaInv'
<1> USE MediaAssumption, KeysAreNumbers
<1>1. NoCopy \in Copies
    BY DEF Copies, NoCopy
<1>2. /\ confirm' = None /\ sweep' = NoSweep /\ deleter' = NoDelete
      /\ analyzer' = NoAnalysis /\ reader' = NoReader
      /\ UNCHANGED <<objects, old, rows, jobs, open, puts, mediaFaults>>
      /\ mediaCrashes < MaxMediaCrashes /\ mediaCrashes' = mediaCrashes + 1
    BY DEF MediaCrash
<1>3. /\ deleter' \in [copy : Copies, next : {"key", "out", "row"}]
      /\ analyzer' \in [copy : Copies, pc : {"read", "saved", "failed"}]
      /\ reader' \in [copy : Copies, result : [job : Nat \ {0}, ok : BOOLEAN]]
      /\ deleter'.copy = NoCopy /\ analyzer'.copy = NoCopy /\ reader'.copy = NoCopy
    BY <1>1, <1>2 DEF NoDelete, NoAnalysis, NoReader
<1>4. sweep' \in [todo : SUBSET AllKeys, key : AllKeys \cup {None}, free : BOOLEAN, on : BOOLEAN]
      /\ sweep'.key = None
    BY <1>2 DEF NoSweep
<1>5. torn' \subseteq AllKeys
    <2>1. CASE deleter.copy = NoCopy
        BY <2>1 DEF MediaCrash, MediaInv, MediaTypeOK
    <2>2. CASE deleter.copy /= NoCopy
        <3>1. rows[deleter.copy[2]] \in MediaLog
            BY <2>2, RowsAre DEF MediaInv, Holding
        <3>2. Refers(deleter.copy[2]) \subseteq AllKeys
            BY <3>1 DEF MediaLog, Refers
        <3>. QED  BY <2>2, <3>2 DEF MediaCrash, MediaInv, MediaTypeOK
    <2>. QED  BY <2>1, <2>2
<1>6. results' \subseteq results
    BY DEF MediaCrash
<1>7. strayed' \subseteq DOMAIN rows
    <2>1. PICK unread \in {{}, results} :
            strayed' = strayed \cup {jobs[res.job] : res \in unread}
                \cup (IF analyzer = NoAnalysis THEN {} ELSE {analyzer.copy[2]})
                \cup (IF reader = NoReader THEN {} ELSE {reader.copy[2]})
        BY DEF MediaCrash
    <2>2. \A res \in unread : jobs[res.job] \in DOMAIN rows
        BY <2>1 DEF MediaInv, Holding
    <2>3. analyzer /= NoAnalysis => analyzer.copy[2] \in DOMAIN rows
        BY DEF MediaInv, Holding
    <2>4. reader /= NoReader => reader.copy[2] \in DOMAIN rows
        BY DEF MediaInv, Holding
    <2>5. strayed \subseteq DOMAIN rows
        BY DEF MediaInv, MediaTypeOK
    <2>. QED  BY <2>1, <2>2, <2>3, <2>4, <2>5
<1>8. MediaTypeOK'
    BY <1>2, <1>3, <1>4, <1>5, <1>6, <1>7 DEF MediaInv, MediaTypeOK
<1>9. Holding'
    BY <1>2, <1>3, <1>4, <1>6 DEF MediaInv, Holding
<1>. QED  BY <1>8, <1>9 DEF MediaInv

LEMMA MediaStepTypes ==
    ASSUME MediaInv, [MediaNext]_mediaVars
    PROVE  MediaInv'
<1>1. CASE UNCHANGED mediaVars
    BY <1>1 DEF mediaVars, MediaInv, MediaTypeOK, Holding
<1>2. CASE MediaNext
    BY <1>2, UploadsKeepTypes, DeletionsKeepTypes, SweepKeepsTypes, AnalysisKeepsTypes,
       AnswersKeepTypes, MediaCrashKeepsTypes DEF MediaNext
<1>. QED  BY <1>1, <1>2

(* The media keep their types, and what the calls in progress hold is there. *)
THEOREM MediaTypesCorrect == MediaSpec => []MediaInv
<1>. QED  BY MediaInitially, MediaStepTypes, PTL DEF MediaSpec

-----------------------------------------------------------------------------
(* Every visible row has its objects. *)

(* The rows and the deletion stay, and what they refer to is kept or torn. *)
LEMMA ObjectsStay ==
    ASSUME RowHasObject, UNCHANGED <<rows, deleter>>,
           Referenced \cap (objects \cup torn) \subseteq objects' \cup torn'
    PROVE  RowHasObject'
<1>1. Live' = Live /\ \A r \in Live : Refers(r)' = Refers(r)
    BY DEF Live, Refers
<1>2. \A r \in Live : Refers(r) \subseteq Referenced
    BY DEF Referenced
<1>. QED  BY <1>1, <1>2 DEF RowHasObject

(* A row saved over: an object it names is there or was found missing. *)
LEMMA SavedRowHasObject ==
    ASSUME MediaInv, RowHasObject, NEW r \in DOMAIN rows, NEW m \in MediaLog,
           Save(m, r), UNCHANGED <<objects, deleter>>
    PROVE  RowHasObject'
<1>1. /\ DOMAIN rows' = DOMAIN rows /\ rows'[r] = m
      /\ \A s \in DOMAIN rows : s /= r => rows'[s] = rows[s]
    BY OneRowSaved DEF Save
<1>2. torn' = torn \cup (({m.key, m.out} \ {None}) \ objects)
    BY DEF Save
<1>3. \A s \in Live' : s /= r => s \in Live /\ Refers(s)' = Refers(s)
    BY <1>1 DEF Live, Refers
<1>4. Refers(r)' = {m.key, m.out} \ {None}
    BY <1>1 DEF Refers
<1>. QED  BY <1>2, <1>3, <1>4 DEF RowHasObject

LEMMA StepRowHasObject ==
    ASSUME MediaInv, RowHasObject, [MediaNext]_mediaVars
    PROVE  RowHasObject'
<1>1. CASE UNCHANGED mediaVars
    BY <1>1, ObjectsStay DEF mediaVars
<1>2. ASSUME NEW k \in Keys,
             RequestUploadUrl(k) \/ UploadRaw(k) \/ ConfirmHead(k) \/ ConfirmRefused(k)
      PROVE  RowHasObject'
    <2>1. UNCHANGED <<rows, deleter>>
        BY <1>2 DEF RequestUploadUrl, UploadRaw, ConfirmHead, ConfirmRefused
    <2>2. Referenced \cap (objects \cup torn) \subseteq objects' \cup torn'
        BY <1>2 DEF RequestUploadUrl, UploadRaw, ConfirmHead, ConfirmRefused, Put, Drop
    <2>. QED  BY <2>1, <2>2, ObjectsStay
<1>3. ASSUME SaveLog PROVE RowHasObject'
    <2> DEFINE m == [key |-> confirm, out |-> None, status |-> "none", deleted |-> FALSE]
    <2>0. PICK n : n = Len(rows) + 1
        OBVIOUS
    <2>1. UNCHANGED <<objects, deleter>>
        BY <1>3 DEF SaveLog
    <2>2. CASE rows' = Append(rows, m) /\ torn' = torn \cup ({confirm} \ objects)
        <3>1. m \in MediaLog
            BY <1>3, KeysAreNumbers
            DEF MediaInv, MediaTypeOK, SaveLog, MediaLog, ProcessingStatuses
        <3>2. m.key = confirm /\ m.out = None
            OBVIOUS
        <3> HIDE DEF m
        <3>3. /\ DOMAIN rows' = DOMAIN rows \cup {n} /\ rows'[n] = m
              /\ \A s \in DOMAIN rows : rows'[s] = rows[s]
            BY <2>0, <2>2, <3>1, OneRowMore
        <3>4. \A s \in Live' : s \in DOMAIN rows => s \in Live /\ Refers(s)' = Refers(s)
            BY <3>3 DEF Live, Refers
        <3>5. \A s \in Live' : s \in DOMAIN rows \/ s = n
            BY <3>3 DEF Live
        <3>6. Refers(n)' \subseteq {confirm}
            BY <3>2, <3>3 DEF Refers
        <3>. QED  BY <2>1, <2>2, <3>4, <3>5, <3>6 DEF RowHasObject
    <2>3. CASE UNCHANGED <<rows, torn>>
        BY <2>1, <2>3, ObjectsStay
    <2>. QED  BY <1>3, <2>2, <2>3 DEF SaveLog
<1>4. ASSUME NEW r \in Live, DeleteRead(r) PROVE RowHasObject'
    <2>1. UNCHANGED <<objects, rows, torn>> /\ deleter = NoDelete
        BY <1>4 DEF DeleteRead
    <2>2. Live' = Live /\ \A s \in Live : Refers(s)' = Refers(s)
        BY <2>1 DEF Live, Refers
    <2>3. deleter.copy = NoCopy
        BY <2>1 DEF NoDelete
    <2>. QED  BY <2>1, <2>2, <2>3 DEF RowHasObject
<1>5. ASSUME NEW r \in Live, AnalyzeRead(r) PROVE RowHasObject'
    BY <1>5, ObjectsStay DEF AnalyzeRead
<1>6. ASSUME DeleteObject PROVE RowHasObject'
    <2> DEFINE key == deleter.copy[1][deleter.next]
               d == deleter.copy[2]
    <2>1. /\ objects \ {key} \subseteq objects' /\ torn \subseteq torn' /\ rows' = rows
          /\ objects' = objects \/ {key} \cap OthersRefer(d) \subseteq torn'
        BY <1>6 DEF DeleteObject, Drop
    <2>2. deleter.copy /= NoCopy /\ deleter'.copy = deleter.copy
        BY <1>6 DEF DeleteObject, MediaInv, MediaTypeOK
    <2> HIDE DEF key, d
    <2>3. Live' = Live /\ \A s \in Live : Refers(s)' = Refers(s)
        BY <2>1 DEF Live, Refers
    <2>4. \A s \in Live : s /= d => Refers(s) \subseteq OthersRefer(d)
        BY DEF OthersRefer
    <2>5. \A s \in Live : s /= d => Refers(s) \subseteq objects \cup torn
        BY <2>2 DEF RowHasObject, d
    <2>6. \A s \in Live : s /= d => Refers(s) \subseteq objects' \cup torn'
        BY <2>1, <2>4, <2>5
    <2>. QED  BY <2>2, <2>3, <2>6 DEF RowHasObject, d
<1>7. ASSUME DeleteRow PROVE RowHasObject'
    <2> DEFINE d == deleter.copy[2]
               m == [rows[d] EXCEPT !.deleted = TRUE]
    <2>1. deleter.copy /= NoCopy /\ deleter' = NoDelete /\ objects' = objects
        BY <1>7 DEF DeleteRow, MediaInv, Holding, NoDelete
    <2>2. d \in DOMAIN rows
        BY <2>1 DEF MediaInv, Holding
    <2>3. m \in MediaLog /\ m.deleted
        BY <2>2, RowsAre DEF MediaLog
    <2>4. \A s \in Live : s /= d => Refers(s) \subseteq objects \cup torn
        BY <2>1 DEF RowHasObject
    <2>5. \/ rows' = [rows EXCEPT ![d] = m] /\ torn' = torn
          \/ torn' = torn \cup Refers(d) /\ rows' = rows
        BY <1>7 DEF DeleteRow
    <2> HIDE DEF d, m
    <2>6. CASE rows' = [rows EXCEPT ![d] = m] /\ torn' = torn
        <3>1. /\ DOMAIN rows' = DOMAIN rows /\ rows'[d] = m
              /\ \A s \in DOMAIN rows : s /= d => rows'[s] = rows[s]
            BY <2>2, <2>3, <2>6, OneRowSaved
        <3>2. \A s \in Live' : s /= d /\ s \in Live /\ Refers(s)' = Refers(s)
            BY <2>3, <3>1 DEF Live, Refers
        <3>. QED  BY <2>1, <2>4, <2>6, <3>2 DEF RowHasObject
    <2>7. CASE torn' = torn \cup Refers(d) /\ rows' = rows
        <3>1. Live' = Live /\ \A s \in Live : Refers(s)' = Refers(s)
            BY <2>7 DEF Live, Refers
        <3>. QED  BY <2>1, <2>4, <2>7, <3>1 DEF RowHasObject
    <2>. QED  BY <2>5, <2>6, <2>7
<1>8. ASSUME SweepStep PROVE RowHasObject'
    <2>1. UNCHANGED <<rows, deleter>>
        BY <1>8 DEF SweepStep, SweepList, SweepLookup, SweepDelete, SweepEnd
    <2>2. CASE SweepDelete
        <3>1. sweep.free
            BY <2>2 DEF SweepDelete, MediaInv, Holding
        <3>2. objects' = objects \ {sweep.key} /\ torn' = torn \cup ({sweep.key} \cap Referenced)
            BY <2>2, <3>1 DEF SweepDelete, Drop
        <3>. QED  BY <2>1, <3>2, ObjectsStay
    <2>3. CASE ~SweepDelete
        <3>1. UNCHANGED <<objects, torn>>
            BY <1>8, <2>3 DEF SweepStep, SweepList, SweepLookup, SweepEnd
        <3>. QED  BY <2>1, <3>1, ObjectsStay
    <2>. QED  BY <2>2, <2>3
<1>9. ASSUME Age PROVE RowHasObject'
    BY <1>9, ObjectsStay DEF Age
<1>10. ASSUME AnalyzeSave PROVE RowHasObject'
    <2>1. analyzer.copy /= NoCopy /\ UNCHANGED <<objects, deleter>>
        BY <1>10 DEF AnalyzeSave
    <2>2. PICK m : /\ m = [analyzer.copy[1] EXCEPT !.status = "pending"]
                   /\ Save(m, analyzer.copy[2]) \/ UNCHANGED <<rows, torn>>
        BY <1>10 DEF AnalyzeSave
    <2>3. m \in MediaLog /\ analyzer.copy[2] \in DOMAIN rows
        BY <2>1, <2>2, FlowCopies, StatusOfCopy DEF ProcessingStatuses
    <2>. QED  BY <2>1, <2>2, <2>3, SavedRowHasObject, ObjectsStay
<1>11. ASSUME AnalyzeProduce PROVE RowHasObject'
    BY <1>11, ObjectsStay DEF AnalyzeProduce
<1>12. ASSUME AnalyzeFail PROVE RowHasObject'
    <2>1. analyzer.copy /= NoCopy /\ UNCHANGED <<objects, deleter>>
        BY <1>12 DEF AnalyzeFail, MediaInv, Holding, NoAnalysis
    <2>2. PICK m : /\ m = [analyzer.copy[1] EXCEPT !.status = "failed"]
                   /\ Save(m, analyzer.copy[2]) \/ UNCHANGED <<rows, torn>>
        BY <1>12 DEF AnalyzeFail
    <2>3. m \in MediaLog /\ analyzer.copy[2] \in DOMAIN rows
        BY <2>1, <2>2, FlowCopies, StatusOfCopy DEF ProcessingStatuses
    <2>. QED  BY <2>1, <2>2, <2>3, SavedRowHasObject, ObjectsStay
<1>13. ASSUME NEW n \in 1..MaxJobs, NEW ok \in BOOLEAN, WorkerAnswer(n, ok)
       PROVE  RowHasObject'
    <2>1. UNCHANGED <<rows, deleter, torn>>
        BY <1>13 DEF WorkerAnswer
    <2>2. objects \subseteq objects'
        BY <1>13 DEF WorkerAnswer, Put
    <2>. QED  BY <2>1, <2>2, ObjectsStay
<1>14. ASSUME NEW res \in results, ResultRead(res) PROVE RowHasObject'
    BY <1>14, ObjectsStay DEF ResultRead
<1>15. ASSUME ResultSave PROVE RowHasObject'
    <2>1. reader.copy /= NoCopy /\ UNCHANGED <<objects, deleter>>
        BY <1>15 DEF ResultSave, MediaInv, Holding
    <2>2. PICK m : /\ m = Answered(reader.copy[1], reader.result)
                   /\ Save(m, reader.copy[2]) \/ UNCHANGED <<rows, torn>>
        BY <1>15 DEF ResultSave
    <2>3. m \in MediaLog /\ reader.copy[2] \in DOMAIN rows
        BY <2>1, <2>2, FlowCopies, AnsweredIs
    <2>. QED  BY <2>1, <2>2, <2>3, SavedRowHasObject, ObjectsStay
<1>16. ASSUME MediaCrash PROVE RowHasObject'
    <2>1. UNCHANGED <<objects, rows>> /\ deleter' = NoDelete
        BY <1>16 DEF MediaCrash
    <2>2. torn \subseteq torn'
          /\ (deleter.copy /= NoCopy => Refers(deleter.copy[2]) \subseteq torn')
        BY <1>16 DEF MediaCrash
    <2>3. Live' = Live /\ \A s \in Live : Refers(s)' = Refers(s)
        BY <2>1 DEF Live, Refers
    <2>. QED  BY <2>1, <2>2, <2>3 DEF RowHasObject
<1>. QED
    BY <1>1, <1>2, <1>3, <1>4, <1>5, <1>6, <1>7, <1>8, <1>9, <1>10, <1>11, <1>12, <1>13,
       <1>14, <1>15, <1>16 DEF MediaNext

(* Every visible row's files are there, whatever the order in which uploads,
   deletions, the sweep, the analysis and crashes meet, unless the row is
   being deleted or its object went in a race the model names. *)
THEOREM RowsHaveObjects == MediaSpec => []RowHasObject
<1>1. MediaInit => RowHasObject
    BY DEF MediaInit, RowHasObject, Live
<1>. QED  BY <1>1, MediaTypesCorrect, StepRowHasObject, PTL DEF MediaSpec

-----------------------------------------------------------------------------
(* Every pending row is being answered. *)

(* Steps that leave the optical flow alone and write no row as pending. *)
LEMMA OthersKeepPending ==
    ASSUME PendingSoFar, UNCHANGED flowVars,
           \A r \in Live' : rows'[r].status = "pending" =>
               r \in Live /\ rows[r].status = "pending"
    PROVE  PendingSoFar'
BY DEF PendingSoFar, Answering, flowVars

(* Steps of the optical flow that write no row. *)
LEMMA FlowKeepsPending ==
    ASSUME PendingSoFar, UNCHANGED rows,
           \A r \in Live : rows[r].status = "pending" /\ Answering(r) => Answering(r)'
    PROVE  PendingSoFar'
<1>1. Live' = Live
    BY DEF Live
<1>. QED  BY <1>1 DEF PendingSoFar

(* A saved row is pending as its copy is, the others as they were. *)
LEMMA SavedRowPending ==
    ASSUME MediaInv, NEW r \in DOMAIN rows, NEW m \in MediaLog, Save(m, r)
    PROVE  \A s \in Live' : rows'[s].status = "pending" =>
               \/ s = r /\ m.status = "pending"
               \/ s /= r /\ s \in Live /\ rows[s].status = "pending"
<1>1. /\ DOMAIN rows' = DOMAIN rows /\ rows'[r] = m
      /\ \A s \in DOMAIN rows : s /= r => rows'[s] = rows[s]
    BY OneRowSaved DEF Save
<1>. QED  BY <1>1 DEF Live

LEMMA StepPending ==
    ASSUME MediaInv, PendingSoFar, [MediaNext]_mediaVars
    PROVE  PendingSoFar'
<1>1. CASE UNCHANGED mediaVars
    <2>1. UNCHANGED <<rows, flowVars>>
        BY <1>1 DEF mediaVars, flowVars
    <2>. QED  BY <2>1, OthersKeepPending DEF Live
<1>2. ASSUME NEW k \in Keys,
             RequestUploadUrl(k) \/ UploadRaw(k) \/ ConfirmHead(k) \/ ConfirmRefused(k)
      PROVE  PendingSoFar'
    <2>1. UNCHANGED <<rows, flowVars>>
        BY <1>2 DEF RequestUploadUrl, UploadRaw, ConfirmHead, ConfirmRefused
    <2>. QED  BY <2>1, OthersKeepPending DEF Live
<1>3. ASSUME SaveLog PROVE PendingSoFar'
    <2> DEFINE m == [key |-> confirm, out |-> None, status |-> "none", deleted |-> FALSE]
    <2>1. m \in MediaLog /\ m.status = "none"
        BY <1>3, KeysAreNumbers
        DEF MediaInv, MediaTypeOK, SaveLog, MediaLog, ProcessingStatuses
    <2>2. rows' = Append(rows, m) \/ rows' = rows
        BY <1>3 DEF SaveLog
    <2>3. UNCHANGED flowVars
        BY <1>3 DEF SaveLog
    <2> HIDE DEF m
    <2>4. CASE rows' = Append(rows, m)
        <3>1. /\ DOMAIN rows' = DOMAIN rows \cup {Len(rows) + 1} /\ rows'[Len(rows) + 1] = m
              /\ \A s \in DOMAIN rows : rows'[s] = rows[s]
            BY <2>1, <2>4, OneRowMore
        <3>. QED  BY <2>1, <2>3, <3>1, OthersKeepPending DEF Live
    <2>5. CASE rows' = rows
        BY <2>3, <2>5, OthersKeepPending DEF Live
    <2>. QED  BY <2>2, <2>4, <2>5
<1>4. ASSUME NEW r \in Live, DeleteRead(r) PROVE PendingSoFar'
    <2>1. UNCHANGED <<rows, flowVars>>
        BY <1>4 DEF DeleteRead
    <2>. QED  BY <2>1, OthersKeepPending DEF Live
<1>5. ASSUME DeleteObject \/ SweepStep \/ Age PROVE PendingSoFar'
    <2>1. UNCHANGED <<rows, flowVars>>
        BY <1>5 DEF DeleteObject, SweepStep, SweepList, SweepLookup, SweepDelete, SweepEnd, Age
    <2>. QED  BY <2>1, OthersKeepPending DEF Live
<1>6. ASSUME DeleteRow PROVE PendingSoFar'
    <2> DEFINE d == deleter.copy[2]
               m == [rows[d] EXCEPT !.deleted = TRUE]
    <2>1. d \in DOMAIN rows
        BY <1>6 DEF DeleteRow, MediaInv, Holding, NoDelete
    <2>2. m \in MediaLog /\ m.deleted
        BY <2>1, RowsAre DEF MediaLog
    <2>3. (rows' = [rows EXCEPT ![d] = m] \/ rows' = rows) /\ UNCHANGED flowVars
        BY <1>6 DEF DeleteRow
    <2> HIDE DEF d, m
    <2>4. CASE rows' = [rows EXCEPT ![d] = m]
        <3>1. /\ DOMAIN rows' = DOMAIN rows /\ rows'[d] = m
              /\ \A s \in DOMAIN rows : s /= d => rows'[s] = rows[s]
            BY <2>1, <2>2, <2>4, OneRowSaved
        <3>. QED  BY <2>2, <2>3, <3>1, OthersKeepPending DEF Live
    <2>5. CASE rows' = rows
        BY <2>3, <2>5, OthersKeepPending DEF Live
    <2>. QED  BY <2>3, <2>4, <2>5
<1>7. ASSUME NEW r \in Live, AnalyzeRead(r) PROVE PendingSoFar'
    <2>1. analyzer.pc = "read"
        BY <1>7 DEF AnalyzeRead, NoAnalysis
    <2>2. UNCHANGED <<rows, jobs, open, results, reader, strayed>>
        BY <1>7 DEF AnalyzeRead
    <2>. QED  BY <2>1, <2>2, FlowKeepsPending DEF Answering
<1>8. ASSUME AnalyzeSave PROVE PendingSoFar'
    <2>1. analyzer.copy /= NoCopy /\ analyzer.pc = "read"
        BY <1>8 DEF AnalyzeSave
    <2>2. PICK m, r : m = [analyzer.copy[1] EXCEPT !.status = "pending"] /\ r = analyzer.copy[2]
        OBVIOUS
    <2>3. m \in MediaLog /\ r \in DOMAIN rows /\ r \in 1..MaxRows
        BY <2>1, <2>2, FlowCopies, StatusOfCopy DEF ProcessingStatuses
    <2>4. UNCHANGED <<jobs, open, results, reader, strayed>>
        BY <1>8 DEF AnalyzeSave
    <2>5. \A s : Answering(s) =>
            \/ \E n \in open : jobs[n] = s
            \/ \E res \in results : jobs[res.job] = s
            \/ reader.copy /= NoCopy /\ reader.copy[2] = s
            \/ s \in strayed
        BY <2>1 DEF Answering
    <2>6. \A s : Answering(s) => Answering(s)'
        BY <2>4, <2>5 DEF Answering
    <2>7. CASE Save(m, r) /\ analyzer' = [copy |-> <<m, r>>, pc |-> "saved"]
        <3>1. analyzer'.pc = "saved" /\ analyzer'.copy[2] = r
            BY <2>3, <2>7, CopyOf
        <3>2. Answering(r)'
            BY <3>1 DEF Answering
        <3>3. \A s \in Live' : rows'[s].status = "pending" =>
                 s = r \/ (s \in Live /\ rows[s].status = "pending")
            BY <2>3, <2>7, SavedRowPending
        <3>. QED  BY <2>6, <3>2, <3>3 DEF PendingSoFar
    <2>8. CASE UNCHANGED rows
        BY <2>6, <2>8, FlowKeepsPending
    <2>. QED  BY <1>8, <2>2, <2>7, <2>8 DEF AnalyzeSave
<1>9. ASSUME AnalyzeProduce PROVE PendingSoFar'
    <2>1. analyzer.copy /= NoCopy /\ analyzer.pc = "saved"
        BY <1>9 DEF AnalyzeProduce, MediaInv, Holding, NoAnalysis
    <2>2. UNCHANGED <<rows, results, reader, strayed>>
        BY <1>9 DEF AnalyzeProduce
    <2>3. jobs \in Seq(1..MaxRows) /\ Len(jobs) \in Nat /\ open \subseteq DOMAIN jobs
          /\ analyzer.copy[2] \in 1..MaxRows /\ \A res \in results : res.job \in DOMAIN jobs
        BY <2>1, FlowCopies DEF MediaInv, MediaTypeOK, Holding
    <2>4. CASE jobs' = Append(jobs, analyzer.copy[2]) /\ open' = open \cup {Len(jobs')}
        <3>1. /\ Len(jobs') = Len(jobs) + 1 /\ jobs'[Len(jobs) + 1] = analyzer.copy[2]
              /\ \A n \in 1..Len(jobs) : jobs'[n] = jobs[n]
            BY <2>3, <2>4
        <3>2. \A n \in DOMAIN jobs : jobs'[n] = jobs[n]
            BY <2>3, <3>1
        <3>3. \E n \in open' : jobs'[n] = analyzer.copy[2]
            BY <2>4, <3>1
        <3>4. \A s : (\E n \in open : jobs[n] = s) => \E n \in open' : jobs'[n] = s
            BY <2>3, <2>4, <3>2
        <3>5. \A s : (\E res \in results : jobs[res.job] = s) =>
                        \E res \in results' : jobs'[res.job] = s
            BY <2>2, <2>3, <3>2
        <3>6. \A s : Answering(s) => Answering(s)'
            BY <2>2, <3>3, <3>4, <3>5 DEF Answering
        <3>. QED  BY <2>2, <3>6, FlowKeepsPending
    <2>5. CASE analyzer' = [analyzer EXCEPT !.pc = "failed"] /\ UNCHANGED <<jobs, open>>
        <3>1. analyzer'.pc = "failed" /\ analyzer'.copy = analyzer.copy
            BY <2>5 DEF MediaInv, MediaTypeOK
        <3>. QED  BY <2>2, <2>5, <3>1, FlowKeepsPending DEF Answering
    <2>. QED  BY <1>9, <2>4, <2>5 DEF AnalyzeProduce
<1>10. ASSUME AnalyzeFail PROVE PendingSoFar'
    <2>1. analyzer.copy /= NoCopy
        BY <1>10 DEF AnalyzeFail, MediaInv, Holding, NoAnalysis
    <2>2. PICK m, r : m = [analyzer.copy[1] EXCEPT !.status = "failed"] /\ r = analyzer.copy[2]
        OBVIOUS
    <2>3. m \in MediaLog /\ r \in DOMAIN rows /\ m.status = "failed"
        BY <2>1, <2>2, FlowCopies, StatusOfCopy DEF ProcessingStatuses
    <2>4. UNCHANGED <<jobs, open, results, reader>>
        BY <1>10 DEF AnalyzeFail
    <2>5. CASE Save(m, r) /\ UNCHANGED strayed
        <3>1. \A s : s /= r /\ Answering(s) => Answering(s)'
            BY <2>2, <2>4, <2>5 DEF Answering
        <3>2. \A s \in Live' : rows'[s].status = "pending" =>
                 s /= r /\ s \in Live /\ rows[s].status = "pending"
            BY <2>3, <2>5, SavedRowPending
        <3>. QED  BY <3>1, <3>2 DEF PendingSoFar
    <2>6. CASE strayed' = strayed \cup {r} /\ UNCHANGED rows
        <3>1. \A s : Answering(s) => Answering(s)'
            BY <2>2, <2>4, <2>6 DEF Answering
        <3>. QED  BY <2>6, <3>1, FlowKeepsPending
    <2>. QED  BY <1>10, <2>2, <2>5, <2>6 DEF AnalyzeFail
<1>11. ASSUME NEW n \in 1..MaxJobs, NEW ok \in BOOLEAN, WorkerAnswer(n, ok)
       PROVE  PendingSoFar'
    <2>1. UNCHANGED <<rows, analyzer, jobs, reader, strayed>>
        BY <1>11 DEF WorkerAnswer
    <2>2. open' = open \ {n} /\ results' = results \cup {[job |-> n, ok |-> ok]}
        BY <1>11 DEF WorkerAnswer
    <2>3. \E res \in results' : res.job = n
        <3>1. [job |-> n, ok |-> ok].job = n
            BY Zenon
        <3>. QED  BY <2>2, <3>1
    <2>4. \A s : Answering(s) => Answering(s)'
        BY <2>1, <2>2, <2>3 DEF Answering
    <2>. QED  BY <2>1, <2>4, FlowKeepsPending
<1>12. ASSUME NEW res \in results, ResultRead(res) PROVE PendingSoFar'
    <2>1. PICK r : r = jobs[res.job]
        OBVIOUS
    <2>2. r \in DOMAIN rows
        BY <2>1 DEF MediaInv, Holding
    <2>3. <<rows[r], r>> /= NoCopy /\ <<rows[r], r>>[2] = r
        BY <2>2, RowsAre, CopyOf
    <2>4. /\ results' = results \ {res} /\ reader.copy = NoCopy
          /\ UNCHANGED <<rows, analyzer, jobs, open>>
        BY <1>12 DEF ResultRead, NoReader
    <2>5. \/ reader' = [copy |-> <<rows[r], r>>, result |-> res] /\ strayed' = strayed
          \/ strayed' = strayed \cup {r} /\ reader' = reader
        BY <1>12, <2>1 DEF ResultRead
    <2>6. (reader'.copy /= NoCopy /\ reader'.copy[2] = r) \/ r \in strayed'
        BY <2>3, <2>5
    <2>7. Answering(r)' /\ strayed \subseteq strayed'
        BY <2>5, <2>6 DEF Answering
    <2>8. \A s : s /= r /\ Answering(s) => Answering(s)'
        BY <2>1, <2>4, <2>7 DEF Answering
    <2>. QED  BY <2>4, <2>7, <2>8, FlowKeepsPending
<1>13. ASSUME ResultSave PROVE PendingSoFar'
    <2>1. reader.copy /= NoCopy
        BY <1>13 DEF ResultSave, MediaInv, Holding
    <2>2. PICK m, r : m = Answered(reader.copy[1], reader.result) /\ r = reader.copy[2]
        OBVIOUS
    <2>3. m \in MediaLog /\ r \in DOMAIN rows /\ m.status /= "pending"
        BY <2>1, <2>2, FlowCopies, AnsweredIs
    <2>4. UNCHANGED <<jobs, open, results, analyzer>>
        BY <1>13 DEF ResultSave
    <2>5. CASE Save(m, r) /\ UNCHANGED strayed
        <3>1. \A s : s /= r /\ Answering(s) => Answering(s)'
            BY <2>2, <2>4, <2>5 DEF Answering
        <3>2. \A s \in Live' : rows'[s].status = "pending" =>
                 s /= r /\ s \in Live /\ rows[s].status = "pending"
            BY <2>3, <2>5, SavedRowPending
        <3>. QED  BY <3>1, <3>2 DEF PendingSoFar
    <2>6. CASE strayed' = strayed \cup {r} /\ UNCHANGED rows
        <3>1. \A s : Answering(s) => Answering(s)'
            BY <2>2, <2>4, <2>6 DEF Answering
        <3>. QED  BY <2>6, <3>1, FlowKeepsPending
    <2>. QED  BY <1>13, <2>2, <2>5, <2>6 DEF ResultSave
<1>14. ASSUME MediaCrash PROVE PendingSoFar'
    <2>1. UNCHANGED <<rows, jobs, open>>
        BY <1>14 DEF MediaCrash
    <2>2. PICK unread \in {{}, results} :
            /\ results' = results \ unread
            /\ strayed' = strayed \cup {jobs[res.job] : res \in unread}
                \cup (IF analyzer = NoAnalysis THEN {} ELSE {analyzer.copy[2]})
                \cup (IF reader = NoReader THEN {} ELSE {reader.copy[2]})
        BY <1>14 DEF MediaCrash
    <2>3. analyzer.pc /= "read" => analyzer.copy[2] \in strayed'
        BY <2>2 DEF NoAnalysis
    <2>4. reader.copy /= NoCopy => reader.copy[2] \in strayed'
        BY <2>2 DEF NoReader
    <2>5. \A s : (\E res \in results : jobs[res.job] = s) =>
                    (\E res \in results' : jobs[res.job] = s) \/ s \in strayed'
        BY <2>2
    <2>6. strayed \subseteq strayed'
        BY <2>2
    <2>7. \A s : Answering(s) => Answering(s)'
        BY <2>1, <2>3, <2>4, <2>5, <2>6 DEF Answering
    <2>. QED  BY <2>1, <2>7, FlowKeepsPending
<1>. QED
    BY <1>1, <1>2, <1>3, <1>4, <1>5, <1>6, <1>7, <1>8, <1>9, <1>10, <1>11, <1>12, <1>13,
       <1>14 DEF MediaNext

(* A row shows pending only while its answer is on the way, unless an error or
   a crash took the job or the result: no interleaving of analyses, answers,
   deletions and saves of old copies leaves it pending for ever. *)
THEOREM PendingIsAnswered == MediaSpec => []PendingHasAJob
<1>1. MediaInit => PendingSoFar
    BY DEF MediaInit, PendingSoFar, Live
<1>2. MediaInv /\ PendingSoFar => PendingHasAJob
    <2> SUFFICES ASSUME MediaInv, PendingSoFar, NEW r \in Live, rows[r].status = "pending"
                 PROVE  \/ \E n \in open : jobs[n] = r
                        \/ \E res \in results : jobs[res.job] = r
                        \/ r \in {c[2] : c \in {analyzer.copy, reader.copy} \ {NoCopy}}
                        \/ r \in strayed
        BY DEF PendingHasAJob
    <2>1. analyzer.pc /= "read" => analyzer.copy /= NoCopy
        BY DEF MediaInv, Holding, NoAnalysis
    <2>2. Answering(r)
        BY DEF PendingSoFar
    <2>. QED  BY <2>1, <2>2 DEF Answering
<1>. QED  BY <1>1, <1>2, MediaTypesCorrect, StepPending, PTL DEF MediaSpec
=============================================================================
