---------------------------- MODULE ViewersProofs ----------------------------
(* Proofs about Readers and Viewers, for any users, rows, requests, sockets and
   handlers.  Spec is that of Viewers: the requests of Readers and the sockets
   go on side by side. *)
EXTENDS Viewers, TLAPS

(* Readers: what a request is at, and what the rows it found say of the rows
   there are. *)
ReadShape(k) ==
    /\ k.op = "none" => k.todo = {}
    /\ k.op \in {"list", "open"} => k.list \in Lists /\ k.user \in Users
    /\ k.op = "list" => /\ k.todo \subseteq {"rows", "total"} /\ (k.list = "groups" => ~k.all)
                        /\ \A r \in k.got["rows"] : KindOf[r] # "point"
    /\ k.op \in {"dashboard", "overview"} => k.todo \subseteq Figures(k.op)
    /\ k.op = "dashboard" => k.user \in Users
    /\ k.op = "overview" => k.got["rate"] = {}
    /\ k.op = "open" => /\ k.row \in Rows /\ KindOf[k.row] # "point"
                        /\ k.todo \in {{}, {"find"}, {"detail"}}

\* Rows name a device that is there, and only devices that are there are online.
RowsClosed ==
    /\ \A r \in rows : KindOf[r] \notin {"zone", "group"} => DeviceOf[r] \in rows
    /\ online \subseteq rows

\* The devices and points whose figures a dashboard or an overview shows.
Whole(k) == {d \in Of("device") : k.op = "overview" \/ MakerOf[d] = k.user}
Points(k) == PointsOf(k.user)

\* A list query that was answered, and what is there now.
ListAgrees(k) ==
    k.op = "list" => \A f \in {"rows", "total"} \ k.todo :
        LET now == List(k.list, k.user, k.all) IN
        /\ k.got[f] \ now \subseteq k.moved
        /\ k.list \in Paged => now \ k.got[f] \subseteq k.moved

\* Figures that were counted, and what is there now.
FiguresSoFar(k) ==
    /\ "total" \notin k.todo => Whole(k) \ k.got["total"] \subseteq k.moved
    /\ "online" \notin k.todo => k.got["online"] \ Whole(k) \subseteq k.moved
    /\ "alerts" \notin k.todo => {DeviceOf[a] : a \in k.got["alerts"]} \ Whole(k) \subseteq k.moved
    /\ k.op = "dashboard" =>
          /\ "points" \notin k.todo => Points(k) \ k.got["points"] \subseteq k.moved
          /\ "rate" \notin k.todo => k.got["rate"] \ Points(k) \subseteq k.moved

\* Figures that agree with each other.
Figured(k) ==
    /\ k.got["online"] \ k.got["total"] \subseteq k.moved
    /\ {DeviceOf[a] : a \in k.got["alerts"]} \ k.got["total"] \subseteq k.moved
    /\ k.got["rate"] \ k.got["points"] \subseteq k.moved

FiguresAlong(k) ==
    k.op \in {"dashboard", "overview"} => IF k.todo = {} THEN Figured(k) ELSE FiguresSoFar(k)

\* A row that is opened with the role of the list.
Opens(k) == Find(k.row, k.user, k.all) = "ok" /\ Detailed(k.row, k.list)

OpensAlong(k) ==
    ~k.turned =>
        /\ k.op = "list" /\ k.all => k.user \in carried
        /\ k.op = "open" => \/ k.row \in k.moved
                            \/ IF k.todo = {} THEN k.outcome = "ok" ELSE Opens(k)

Reads == \A q \in Readings : ReadShape(reading[q])
Agrees ==
    \A q \in Readings, k \in Reading : reading[q] = k => ListAgrees(k) /\ FiguresAlong(k)
Opened == \A q \in Readings, k \in Reading : reading[q] = k => OpensAlong(k)

-----------------------------------------------------------------------------
(* Viewers: what a handler is at.  *)
HandlerShape(k) ==
    /\ k.op = "none" => k = NoCall
    /\ k.op # "none" => k.socket \in Sockets /\ socket[k.socket].on
    /\ k.op = "connect" <=> k.at = "early"
    /\ k.op = "subscribe" => k.room \in Devices /\ k.at \in {"guard", "device", "join"}
    /\ k.op = "join" => k.room \in Users /\ k.at \in {"guard", "join"}

SocketShape(s) ==
    ~socket[s].on => /\ socket[s] = Gone /\ rooms[s] = {} /\ heard[s] = {}
                     /\ s \notin watching

Shapes == /\ \A c \in Calls : HandlerShape(call[c])
          /\ \A s \in Sockets : SocketShape(s)

\* A subscribe that is still being checked was wanted last, or overtaken.
LastWords ==
    /\ LastWordHolds
    /\ \A c \in Calls : call[c].op = "subscribe" =>
          call[c].room \in wants[call[c].socket] \cup overtaken[call[c].socket]

\* The user a socket or handler of s acts for, who is no administrator.
OnlyItsUser(s, as) == ~as.admin /\ as.user \in {NoOne, UserOf[s]}

OwnUser ==
    /\ \A s \in Sockets : socket[s].on /\ UserOf[s] \in admin => s \in ruled
    /\ \A s \in Sockets \ ruled : OnlyItsUser(s, socket[s].as)
    /\ \A c \in Calls : call[c].op # "none" /\ call[c].socket \notin ruled =>
          /\ OnlyItsUser(call[c].socket, call[c].as)
          /\ call[c].op = "subscribe" /\ call[c].at = "join" =>
                MakerOf[call[c].room] = UserOf[call[c].socket]
    /\ HearsOnlyItsOwn

\* A client that watches is in the room of its user.
Watched ==
    /\ \A s \in watching : UserOf[s] \in rooms[s]
    /\ NoAlertIsMissed

-----------------------------------------------------------------------------
(* The steps of a request. *)

\* Every other request stays.
Only(q) == /\ \A p \in Readings \ {q} : reading'[p] = reading[p]
           /\ reading' = [p \in Readings |-> reading'[p]]

LEMMA NoReadingIs ==
    /\ NoReading \in Reading /\ NoReading.op = "none" /\ NoReading.todo = {}
    /\ NoReading.got = Nothing /\ NoReading.moved = {} /\ NoReading.turned = FALSE
    /\ Nothing \in [Shown -> SUBSET Rows] /\ \A f \in Shown : Nothing[f] = {}
BY DEF NoReading, Reading, Nothing

LEMMA BeginIs ==
    ASSUME ReaderTypeOK, NEW q \in Readings, NEW r, Begin(q, r)
    PROVE  /\ reading'[q] = r /\ Only(q) /\ reading[q].todo = {}
           /\ UNCHANGED <<rows, online, admin, carried, changes>>
           /\ reading' = [reading EXCEPT ![q] = reading'[q]]
BY DEF ReaderTypeOK, Begin, Only

LEMMA AskListIs ==
    ASSUME ReaderTypeOK, NEW q \in Readings, NEW u \in Users, NEW k \in Lists, NEW all \in BOOLEAN,
           AskList(q, u, k, all)
    PROVE  /\ reading'[q] \in Reading /\ reading'[q].op = "list" /\ reading'[q].user = u
           /\ reading'[q].all = all /\ reading'[q].list = k
           /\ reading'[q].todo = IF k \in Paged THEN {"rows", "total"} ELSE {"rows"}
           /\ reading'[q].got = Nothing /\ ~reading'[q].turned
           /\ all => u \in carried /\ k # "groups"
           /\ Only(q) /\ UNCHANGED <<rows, online, admin, carried, changes>>
<1> DEFINE t == IF k \in Paged THEN {"rows", "total"} ELSE {"rows"}
           r == [NoReading EXCEPT !.op = "list", !.user = u, !.all = all, !.list = k, !.todo = t]
<1>1. Begin(q, r)
    BY DEF AskList
<1>2. t \in SUBSET (Shown \cup {"find", "detail"})
    BY DEF Shown
<1> HIDE DEF t
<1>3. /\ r \in Reading /\ r.op = "list" /\ r.user = u /\ r.all = all /\ r.list = k /\ r.todo = t
      /\ r.got = Nothing /\ r.turned = FALSE
    BY <1>2, NoReadingIs DEF Reading
<1> HIDE DEF r
<1>. QED  BY <1>1, <1>3, BeginIs DEF AskList, t

LEMMA AskFiguresIs ==
    ASSUME ReaderTypeOK, NEW q \in Readings, NEW u \in Users, NEW op \in {"dashboard", "overview"},
           IF op = "dashboard" THEN AskDashboard(q, u) ELSE AskOverview(q, u)
    PROVE  /\ reading'[q] \in Reading /\ reading'[q].op = op /\ reading'[q].user = u
           /\ reading'[q].todo = Figures(op) /\ reading'[q].got = Nothing
           /\ Only(q) /\ UNCHANGED <<rows, online, admin, carried, changes>>
<1>1. Figures(op) \in SUBSET (Shown \cup {"find", "detail"})
    BY DEF Figures, Shown
<1>2. CASE op = "dashboard"
    <2> DEFINE r == [NoReading EXCEPT !.op = "dashboard", !.user = u, !.todo = Figures("dashboard")]
    <2>1. r \in Reading /\ r.op = op /\ r.user = u /\ r.todo = Figures(op) /\ r.got = Nothing
        BY <1>1, <1>2, NoReadingIs DEF Reading
    <2>2. Begin(q, r)
        BY <1>2 DEF AskDashboard
    <2> HIDE DEF r
    <2>. QED  BY <2>1, <2>2, BeginIs
<1>3. CASE op = "overview"
    <2> DEFINE r == [NoReading EXCEPT !.op = "overview", !.user = u, !.all = TRUE,
                        !.todo = Figures("overview")]
    <2>1. r \in Reading /\ r.op = op /\ r.user = u /\ r.todo = Figures(op) /\ r.got = Nothing
        BY <1>1, <1>3, NoReadingIs DEF Reading
    <2>2. Begin(q, r)
        BY <1>3 DEF AskOverview
    <2> HIDE DEF r
    <2>. QED  BY <2>1, <2>2, BeginIs
<1>. QED  BY <1>2, <1>3

LEMMA AskRowIs ==
    ASSUME ReaderTypeOK, NEW q \in Readings, NEW r \in Rows, AskRow(q, r)
    PROVE  /\ reading'[q] \in Reading /\ reading'[q].op = "open" /\ reading'[q].user = reading[q].user
           /\ reading'[q].all <=> reading[q].user \in carried
           /\ reading'[q].list = reading[q].list /\ reading'[q].row = r
           /\ reading'[q].todo = {"find"} /\ reading'[q].moved = reading[q].moved
           /\ reading'[q].turned = reading[q].turned
           /\ reading[q].op = "list" /\ reading[q].todo = {} /\ r \in reading[q].got["rows"]
           /\ Only(q) /\ UNCHANGED <<rows, online, admin, carried, changes>>
<1> DEFINE all == reading[q].user \in carried
           n == [reading[q] EXCEPT !.op = "open", !.row = r, !.got = Nothing, !.all = all,
                    !.todo = {"find"}]
<1>1. Begin(q, n) /\ reading[q] \in Reading /\ all \in BOOLEAN
    BY DEF AskRow, ReaderTypeOK
<1> HIDE DEF all
<1>2. /\ n \in Reading /\ n.op = "open" /\ n.user = reading[q].user /\ n.all = all
      /\ n.list = reading[q].list /\ n.row = r /\ n.todo = {"find"}
      /\ n.moved = reading[q].moved /\ n.turned = reading[q].turned
    BY <1>1, NoReadingIs DEF Reading
<1> HIDE DEF n
<1>. QED  BY <1>1, <1>2, BeginIs DEF AskRow, Answered, all

LEMMA FoundIs ==
    ASSUME ReaderTypeOK, NEW q \in Readings, NEW f \in Shown, NEW found \in SUBSET Rows,
           Found(q, f, found)
    PROVE  /\ reading'[q] \in Reading /\ f \in reading[q].todo
           /\ reading'[q].todo = reading[q].todo \ {f}
           /\ reading'[q].got = [reading[q].got EXCEPT ![f] = found]
           /\ reading'[q].op = reading[q].op /\ reading'[q].user = reading[q].user
           /\ reading'[q].all = reading[q].all /\ reading'[q].list = reading[q].list
           /\ reading'[q].row = reading[q].row /\ reading'[q].moved = reading[q].moved
           /\ reading'[q].turned = reading[q].turned
           /\ Only(q) /\ UNCHANGED <<rows, online, admin, carried, changes>>
<1>1. reading[q] \in Reading /\ q \in DOMAIN reading
    BY DEF ReaderTypeOK
<1> DEFINE t == reading[q].todo \ {f}
           g == [reading[q].got EXCEPT ![f] = found]
<1>2. t \in SUBSET (Shown \cup {"find", "detail"}) /\ g \in [Shown -> SUBSET Rows]
    BY <1>1 DEF Reading
<1>3. reading'[q] = [reading[q] EXCEPT !.todo = t, !.got = g] /\ Only(q)
    BY <1>1 DEF Found, ReaderTypeOK, Only, Reading
<1>4. /\ reading'[q] \in Reading /\ reading'[q].todo = t /\ reading'[q].got = g
      /\ reading'[q].op = reading[q].op /\ reading'[q].user = reading[q].user
      /\ reading'[q].all = reading[q].all /\ reading'[q].list = reading[q].list
      /\ reading'[q].row = reading[q].row /\ reading'[q].moved = reading[q].moved
      /\ reading'[q].turned = reading[q].turned
    BY <1>1, <1>2, <1>3 DEF Reading
<1>. QED  BY <1>3, <1>4 DEF Found

LEMMA OpenIs ==
    ASSUME ReaderTypeOK, NEW q \in Readings, RowQuery(q) \/ DetailQuery(q), ReadShape(reading[q])
    PROVE  /\ reading'[q] \in Reading
           /\ reading[q].op = "open" /\ reading'[q].op = "open"
           /\ reading'[q].user = reading[q].user
           /\ reading'[q].all = reading[q].all /\ reading'[q].list = reading[q].list
           /\ reading'[q].row = reading[q].row /\ reading'[q].moved = reading[q].moved
           /\ reading'[q].turned = reading[q].turned /\ reading'[q].got = reading[q].got
           /\ reading'[q].todo \in {{}, {"detail"}} /\ reading[q].todo # {}
           /\ reading'[q].todo = {} /\ Opens(reading[q]) => reading'[q].outcome = "ok"
           /\ Only(q) /\ UNCHANGED <<rows, online, admin, carried, changes>>
<1>0. /\ reading[q] \in Reading /\ q \in DOMAIN reading /\ reading[q].op = "open"
      /\ reading[q].row \in Rows /\ KindOf[reading[q].row] \in Kinds \ {"point"}
    <2>1. reading[q] \in Reading /\ q \in DOMAIN reading
        BY DEF ReaderTypeOK
    <2>2. reading[q].op = "open"
        BY <2>1 DEF ReadShape, RowQuery, DetailQuery, Reading, Figures
    <2>. QED  BY <2>1, <2>2, RowsAssumption DEF ReadShape
<1> DEFINE k == reading[q]
           found == Find(k.row, k.user, k.all)
<1>1. found \in {"ok", "missing", "forbidden"}
    BY <1>0 DEF Find, FindAlert, FindMedia, FindZone, FindPlan, FindDevice, FindGroup, Judge, Kinds
<1>2. CASE RowQuery(q) /\ reading' = [reading EXCEPT ![q].todo = {"detail"}]
    <2>1. reading'[q] = [reading[q] EXCEPT !.todo = {"detail"}] /\ Only(q)
        BY <1>0, <1>2 DEF ReaderTypeOK, Only
    <2>. QED  BY <1>0, <1>2, <2>1 DEF RowQuery, Reading
<1>3. CASE \E o \in {"ok", "missing", "forbidden", "empty"} :
              /\ Ends(q, o) /\ (Opens(reading[q]) => o = "ok")
              /\ UNCHANGED <<rows, online, admin, carried, changes>>
    <2>1. PICK o \in {"ok", "missing", "forbidden", "empty"} :
              /\ Ends(q, o) /\ (Opens(reading[q]) => o = "ok")
              /\ UNCHANGED <<rows, online, admin, carried, changes>>
        BY <1>3
    <2>2. reading'[q] = [reading[q] EXCEPT !.todo = {}, !.outcome = o] /\ Only(q)
        BY <1>0, <2>1 DEF ReaderTypeOK, Only, Ends
    <2>3. reading[q].todo # {}
        BY DEF RowQuery, DetailQuery
    <2>. QED  BY <1>0, <2>1, <2>2, <2>3 DEF Reading
<1>4. CASE RowQuery(q) /\ ~(found = "ok" /\ KindOf[k.row] \in {"zone", "plan", "device"})
    BY <1>1, <1>3, <1>4 DEF RowQuery, Opens
<1>5. CASE DetailQuery(q)
    BY <1>3, <1>5 DEF DetailQuery, Opens
<1>. QED  BY <1>2, <1>4, <1>5 DEF RowQuery

(* ListQuery and FigureQuery: what was found of f, by the operation. *)
LEMMA QueryIs ==
    ASSUME ReaderTypeOK, NEW q \in Readings, ReadShape(reading[q]), NEW f \in reading[q].todo,
           ListQuery(q, f) \/ FigureQuery(q, f)
    PROVE  /\ f \in Shown
           /\ \E found \in SUBSET Rows :
                 /\ Found(q, f, found)
                 /\ reading[q].op = "list" =>
                       found = List(reading[q].list, reading[q].user, reading[q].all)
                 /\ reading[q].op = "dashboard" => found = DashboardCount(f, reading[q].user)
                 /\ reading[q].op = "overview" => found = OverviewCount(f)
           /\ reading[q].op \in {"list", "dashboard", "overview"}
<1>1. reading[q] \in Reading /\ rows \subseteq Rows /\ online \subseteq Rows
    BY DEF ReaderTypeOK, Devices
<1>2. CASE ListQuery(q, f)
    <2>1. reading[q].op = "list" /\ reading[q].list \in Lists
        BY <1>2 DEF ListQuery, ReadShape
    <2>2. \A r \in Rows : KindOf[r] = "point" => DeviceOf[r] \in Rows
        BY RowsAssumption DEF Devices
    <2>3. List(reading[q].list, reading[q].user, reading[q].all) \in SUBSET Rows
        BY <1>1, <2>1, <2>2 DEF List, Lists, ListAlerts, ListMedia, ListPins, ListStatuses,
           ListLatest, ListZones, ListPlans, ListGroups, Of
    <2>4. f \in Shown
        BY <2>1 DEF ReadShape, Shown
    <2>. QED  BY <1>2, <2>1, <2>3, <2>4 DEF ListQuery
<1>3. CASE FigureQuery(q, f) /\ reading[q].op = "dashboard"
    <2>1. f \in {"total", "online", "alerts", "points", "rate"}
        BY <1>3 DEF ReadShape, Figures
    <2>2. DashboardCount(f, reading[q].user) \in SUBSET Rows
        BY <1>1, <2>1 DEF DashboardCount, AlertStats, ListAlerts, PointsOf, Of
    <2>. QED  BY <1>3, <2>1, <2>2 DEF FigureQuery, Shown
<1>4. CASE FigureQuery(q, f) /\ reading[q].op = "overview"
    <2>1. f \in {"total", "online", "alerts"}
        BY <1>4 DEF ReadShape, Figures
    <2>2. OverviewCount(f) \in SUBSET Rows
        BY <1>1, <2>1 DEF OverviewCount, Of
    <2>. QED  BY <1>4, <2>1, <2>2 DEF FigureQuery, Shown
<1>. QED  BY <1>2, <1>3, <1>4 DEF FigureQuery

-----------------------------------------------------------------------------
(* The steps that move rows, whoever takes them: rows come, or go with those
   about them. *)
Comes(S) ==
    /\ rows' = rows \cup S /\ online' = online /\ S \cap rows = {}
    /\ \A r \in S : KindOf[r] \notin {"zone", "group"} => DeviceOf[r] \in rows'

Goes(S) ==
    /\ rows' = rows \ S /\ online' = online \ S
    /\ \A r \in rows : DeviceOf[r] \in S => r \in S
    /\ \A r \in S : KindOf[r] = "point" => DeviceOf[r] \in S

RowsMove(S) == Moved(S) /\ carried' = carried /\ (Comes(S) \/ Goes(S))

LEMMA AddMoves ==
    ASSUME NEW r \in Rows, Add(r) \/ StoreAlert(r)
    PROVE  RowsMove({r})
<1>1. KindOf[r] = "device" => DeviceOf[r] = r
    BY RowsAssumption
<1>. QED  BY <1>1 DEF Add, StoreAlert, RowsMove, Comes

LEMMA RemoveMoves ==
    ASSUME ReaderTypeOK, NEW r \in Rows, Remove(r)
    PROVE  \E S \in SUBSET Rows : RowsMove(S)
<1> DEFINE S == {r} \cup {o \in rows : KindOf[r] = "device" /\ DeviceOf[o] = r}
<1>1. S \in SUBSET Rows
    BY DEF ReaderTypeOK
<1>2. \A o \in rows : DeviceOf[o] \in S => o \in S
    <2> SUFFICES ASSUME NEW o \in rows, DeviceOf[o] \in S PROVE o \in S
        OBVIOUS
    <2>1. o \in Rows /\ DeviceOf[o] \in Devices
        BY <1>1, RowsAssumption DEF ReaderTypeOK
    <2>2. KindOf[DeviceOf[o]] = "device" /\ DeviceOf[DeviceOf[o]] = DeviceOf[o]
        BY <2>1, RowsAssumption DEF Devices
    <2>3. DeviceOf[o] = r
        BY <2>2
    <2>. QED  BY <2>2, <2>3
<1>3. \A o \in S : KindOf[o] = "point" => DeviceOf[o] \in S
    BY DEF Remove
<1>4. Moved(S) /\ rows' = rows \ S /\ online' = online \ S /\ carried' = carried
    BY DEF Remove
<1> HIDE DEF S
<1>. QED  BY <1>1, <1>2, <1>3, <1>4 DEF RowsMove, Goes

(* Moving rows leaves the requests, but for what moved during them. *)
LEMMA MovedIs ==
    ASSUME ReaderTypeOK, NEW S \in SUBSET Rows, Moved(S), NEW q \in Readings
    PROVE  /\ reading' \in [Readings -> Reading]
           /\ reading'[q].op = reading[q].op /\ reading'[q].user = reading[q].user
           /\ reading'[q].all = reading[q].all /\ reading'[q].list = reading[q].list
           /\ reading'[q].todo = reading[q].todo /\ reading'[q].got = reading[q].got
           /\ reading'[q].row = reading[q].row /\ reading'[q].outcome = reading[q].outcome
           /\ reading'[q].turned = reading[q].turned
           /\ Under(q) => reading'[q].moved = reading[q].moved \cup S
           /\ ~Under(q) => reading'[q] = reading[q]
<1>1. \A p \in Readings : reading[p] \in Reading
    BY DEF ReaderTypeOK
<1>2. ASSUME NEW p \in Readings
      PROVE  reading'[p] = IF Under(p) THEN [reading[p] EXCEPT !.moved = reading[p].moved \cup S]
                           ELSE reading[p]
    BY DEF Moved
<1>3. ASSUME NEW p \in Readings
      PROVE  reading[p].moved \cup S \in SUBSET Rows
    BY <1>1 DEF Reading
<1>4. ASSUME NEW p \in Readings PROVE reading'[p] \in Reading
    <2> DEFINE m == reading[p].moved \cup S
    <2>1. m \in SUBSET Rows /\ reading[p] \in Reading
        BY <1>1, <1>3
    <2>2. reading'[p] = IF Under(p) THEN [reading[p] EXCEPT !.moved = m] ELSE reading[p]
        BY <1>2
    <2> HIDE DEF m
    <2>3. [reading[p] EXCEPT !.moved = m] \in Reading
        BY <2>1 DEF Reading
    <2>. QED  BY <2>1, <2>2, <2>3
<1>5. reading' \in [Readings -> Reading]
    <2>1. reading' = [p \in Readings |-> reading'[p]]
        BY DEF Moved
    <2>. QED  BY <1>4, <2>1
<1>. QED  BY <1>1, <1>2, <1>5 DEF Reading

LEMMA RenewIs ==
    ASSUME ReaderTypeOK, NEW u \in Users, RenewSession(u), NEW q \in Readings
    PROVE  /\ reading' \in [Readings -> Reading]
           /\ reading'[q].op = reading[q].op /\ reading'[q].user = reading[q].user
           /\ reading'[q].all = reading[q].all /\ reading'[q].list = reading[q].list
           /\ reading'[q].todo = reading[q].todo /\ reading'[q].got = reading[q].got
           /\ reading'[q].row = reading[q].row /\ reading'[q].outcome = reading[q].outcome
           /\ reading'[q].moved = reading[q].moved
           /\ reading[q].turned => reading'[q].turned
           /\ Under(q) /\ reading[q].user = u => reading'[q].turned
           /\ \A v \in Users \ {u} : v \in carried' <=> v \in carried
           /\ UNCHANGED <<rows, online, admin, reads, changes>>
<1>1. \A p \in Readings : reading[p] \in Reading
    BY DEF ReaderTypeOK
<1>2. ASSUME NEW p \in Readings
      PROVE  reading'[p] = IF Under(p) /\ reading[p].user = u
                           THEN [reading[p] EXCEPT !.turned = TRUE] ELSE reading[p]
    BY DEF RenewSession
<1>3. ASSUME NEW p \in Readings PROVE reading'[p] \in Reading
    <2>1. CASE Under(p) /\ reading[p].user = u
        <3>1. reading'[p] = [reading[p] EXCEPT !.turned = TRUE]
            BY <1>2, <2>1
        <3>. QED  BY <1>1, <3>1 DEF Reading
    <2>2. CASE ~(Under(p) /\ reading[p].user = u)
        BY <1>1, <1>2, <2>2
    <2>. QED  BY <2>1, <2>2
<1>0. /\ \A v \in Users \ {u} : v \in carried' <=> v \in carried
      /\ UNCHANGED <<rows, online, admin, reads, changes>>
    BY DEF RenewSession
<1>4. reading' \in [Readings -> Reading]
    <2>1. reading' = [p \in Readings |-> reading'[p]]
        BY DEF RenewSession
    <2>. QED  BY <1>3, <2>1
<1>5. CASE Under(q) /\ reading[q].user = u
    <2>1. reading'[q] = [reading[q] EXCEPT !.turned = TRUE]
        BY <1>2, <1>5
    <2>2. reading[q] \in Reading /\ q \in Readings
        BY <1>1
    <2>3. /\ reading'[q].op = reading[q].op /\ reading'[q].user = reading[q].user
          /\ reading'[q].all = reading[q].all /\ reading'[q].list = reading[q].list
          /\ reading'[q].todo = reading[q].todo /\ reading'[q].got = reading[q].got
          /\ reading'[q].row = reading[q].row /\ reading'[q].outcome = reading[q].outcome
          /\ reading'[q].moved = reading[q].moved /\ reading'[q].turned = TRUE
        BY <2>1, <2>2 DEF Reading
    <2>. QED  BY <1>0, <1>4, <2>3
<1>6. CASE ~(Under(q) /\ reading[q].user = u)
    <2>1. reading'[q] = reading[q]
        BY <1>2, <1>6
    <2>. QED  BY <1>0, <1>4, <1>6, <2>1
<1>. QED  BY <1>5, <1>6

\* The steps that leave the requests and the rows; a device may report.
Quiet == /\ rows' = rows /\ carried' = carried /\ reading' = reading
         /\ online' \subseteq online \cup Of("device")

LEMMA ReaderMoves ==
    ASSUME ReaderTypeOK, [Next]_viewerVars
    PROVE  \/ ReaderStep
           \/ \E S \in SUBSET Rows : RowsMove(S)
           \/ \E u \in Users : RenewSession(u)
           \/ Quiet
<1>1. CASE ReaderStep
    BY <1>1
<1>2. CASE Around
    <2>1. CASE \E r \in Rows : Add(r)
        BY <2>1, AddMoves
    <2>2. CASE \E r \in Rows : Remove(r)
        BY <2>2, RemoveMoves
    <2>3. CASE \E d \in Devices : Report(d)
        BY <2>3 DEF Report, Of, Quiet
    <2>4. CASE \E u \in Users : SetRole(u)
        BY <2>4 DEF SetRole, Quiet
    <2>. QED  BY <1>2, <2>1, <2>2, <2>3, <2>4 DEF Around, Surroundings
<1>3. CASE SocketStep
    <2>1. CASE \E a \in Rows : StoreAlert(a)
        BY <2>1, AddMoves
    <2>2. CASE UNCHANGED readerVars
        BY <2>2 DEF readerVars, Quiet
    <2>. QED
        BY <1>3, <2>1, <2>2 DEF SocketStep, Connect, Subscribe, JoinUser, Disconnect, ShowAlerts,
           Unsubscribe, EarlyLookup, GuardLookup, CheckDevice, JoinRoom, BroadcastTelemetry,
           BroadcastAlert, LoseBroadcast
<1>4. CASE UNCHANGED viewerVars
    BY <1>4 DEF viewerVars, readerVars, Quiet
<1>5. CASE \E u \in Users : Session(u)
    BY <1>5 DEF Session, Quiet
<1>. QED  BY <1>1, <1>2, <1>3, <1>4, <1>5 DEF Next

\* What a step of a request is.
ReadsAs(q) ==
    \/ \E u \in Users, k \in Lists, all \in BOOLEAN : AskList(q, u, k, all)
    \/ \E u \in Users : AskDashboard(q, u) \/ AskOverview(q, u)
    \/ \E r \in Rows : AskRow(q, r)
    \/ \E f \in reading[q].todo : ListQuery(q, f) \/ FigureQuery(q, f)
    \/ RowQuery(q) \/ DetailQuery(q)

LEMMA ListHasNoPoints ==
    ASSUME ReaderTypeOK, NEW k \in Lists, NEW u, NEW all, NEW r \in List(k, u, all)
    PROVE  r \in Rows /\ KindOf[r] # "point"
<1>1. \A p \in Rows : KindOf[p] = "point" => DeviceOf[p] \in Devices
    BY RowsAssumption
<1>. QED
    BY <1>1 DEF ReaderTypeOK, List, Lists, ListAlerts, ListMedia, ListPins, ListStatuses,
       ListLatest, ListZones, ListPlans, ListGroups, Of, Devices

LEMMA ReadShapeStep ==
    ASSUME ReaderTypeOK, Reads, NEW q \in Readings, ReadsAs(q)
    PROVE  /\ reading'[q] \in Reading /\ ReadShape(reading'[q]) /\ Only(q)
           /\ UNCHANGED <<rows, online, admin, carried, changes>>
<1>0. reading[q] \in Reading /\ ReadShape(reading[q])
    BY DEF ReaderTypeOK, Reads
<1>1. ASSUME NEW u \in Users, NEW k \in Lists, NEW all \in BOOLEAN, AskList(q, u, k, all)
      PROVE  /\ reading'[q] \in Reading /\ ReadShape(reading'[q]) /\ Only(q)
             /\ UNCHANGED <<rows, online, admin, carried, changes>>
    BY <1>1, AskListIs, NoReadingIs DEF ReadShape, Shown
<1>2. ASSUME NEW u \in Users, NEW op \in {"dashboard", "overview"},
             IF op = "dashboard" THEN AskDashboard(q, u) ELSE AskOverview(q, u)
      PROVE  /\ reading'[q] \in Reading /\ ReadShape(reading'[q]) /\ Only(q)
             /\ UNCHANGED <<rows, online, admin, carried, changes>>
    BY <1>2, AskFiguresIs, NoReadingIs DEF ReadShape, Shown
<1>3. ASSUME NEW r \in Rows, AskRow(q, r)
      PROVE  /\ reading'[q] \in Reading /\ ReadShape(reading'[q]) /\ Only(q)
             /\ UNCHANGED <<rows, online, admin, carried, changes>>
    BY <1>0, <1>3, AskRowIs DEF ReadShape
<1>4. ASSUME NEW f \in reading[q].todo, ListQuery(q, f) \/ FigureQuery(q, f)
      PROVE  /\ reading'[q] \in Reading /\ ReadShape(reading'[q]) /\ Only(q)
             /\ UNCHANGED <<rows, online, admin, carried, changes>>
    <2>1. PICK found \in SUBSET Rows :
              /\ f \in Shown /\ Found(q, f, found)
              /\ reading[q].op \in {"list", "dashboard", "overview"}
              /\ reading[q].op = "list" =>
                    found = List(reading[q].list, reading[q].user, reading[q].all)
        BY <1>0, <1>4, QueryIs
    <2>2. /\ reading'[q] \in Reading /\ f \in reading[q].todo
          /\ reading'[q].todo = reading[q].todo \ {f}
          /\ reading'[q].got = [reading[q].got EXCEPT ![f] = found]
          /\ reading'[q].op = reading[q].op /\ reading'[q].user = reading[q].user
          /\ reading'[q].all = reading[q].all /\ reading'[q].list = reading[q].list
          /\ Only(q) /\ UNCHANGED <<rows, online, admin, carried, changes>>
        BY <2>1, FoundIs
    <2>3. reading[q].op = "list" => \A r \in found : KindOf[r] # "point"
        BY <1>0, <2>1, ListHasNoPoints DEF ReadShape
    <2>4. reading[q].got \in [Shown -> SUBSET Rows] /\ "rows" \in Shown /\ "rate" \in Shown
        BY <1>0 DEF Reading, Shown
    <2>5. reading[q].op = "overview" => f # "rate"
        BY <1>0 DEF ReadShape, Figures
    <2>. QED  BY <1>0, <2>1, <2>2, <2>3, <2>4, <2>5 DEF ReadShape, Figures
<1>5. ASSUME RowQuery(q) \/ DetailQuery(q)
      PROVE  /\ reading'[q] \in Reading /\ ReadShape(reading'[q]) /\ Only(q)
             /\ UNCHANGED <<rows, online, admin, carried, changes>>
    BY <1>0, <1>5, OpenIs DEF ReadShape
<1>. QED  BY <1>1, <1>2, <1>3, <1>4, <1>5 DEF ReadsAs

ReaderInv == ReaderTypeOK /\ Reads /\ RowsClosed

LEMMA ReaderInvHolds == Spec => []ReaderInv
<1>1. Init => ReaderInv
    <2> SUFFICES ASSUME Init PROVE ReaderInv
        OBVIOUS
    <2>1. ReaderTypeOK
        BY NoReadingIs, RowsAssumption DEF Init, ReaderInit, ReaderTypeOK
    <2>2. Reads
        BY NoReadingIs DEF Init, ReaderInit, Reads, ReadShape
    <2>3. RowsClosed
        BY RowsAssumption DEF Init, ReaderInit, RowsClosed
    <2>. QED  BY <2>1, <2>2, <2>3 DEF ReaderInv
<1>2. ReaderInv /\ [Next]_viewerVars => ReaderInv'
    <2> SUFFICES ASSUME ReaderInv, [Next]_viewerVars PROVE ReaderInv'
        OBVIOUS
    <2> USE DEF ReaderInv
    <2>1. reading' \in [Readings -> Reading] /\ Reads'
        <3>1. CASE ReaderStep
            <4>1. PICK q \in Readings : ReadsAs(q)
                BY <3>1 DEF ReaderStep, ReadsAs
            <4>2. reading'[q] \in Reading /\ ReadShape(reading'[q]) /\ Only(q)
                BY <4>1, ReadShapeStep
            <4>3. \A p \in Readings : reading'[p] \in Reading /\ ReadShape(reading'[p])
                BY <4>2 DEF Only, Reads, ReaderTypeOK
            <4>. QED  BY <4>2, <4>3 DEF Reads, Only
        <3>2. CASE \E S \in SUBSET Rows : RowsMove(S)
            <4>1. PICK S \in SUBSET Rows : Moved(S)
                BY <3>2 DEF RowsMove
            <4>2. \A q \in Readings : ReadShape(reading'[q])
                BY <4>1, MovedIs DEF Reads, ReadShape
            <4>3. CASE Readings = {}
                BY <4>1, <4>3 DEF Moved, Reads
            <4>. QED  BY <4>1, <4>2, <4>3, MovedIs DEF Reads
        <3>3. CASE \E u \in Users : RenewSession(u)
            <4>1. PICK u \in Users : RenewSession(u)
                BY <3>3
            <4>2. \A q \in Readings : ReadShape(reading'[q])
                BY <4>1, RenewIs DEF Reads, ReadShape
            <4>3. CASE Readings = {}
                BY <4>1, <4>3 DEF RenewSession, Reads
            <4>. QED  BY <4>1, <4>2, <4>3, RenewIs DEF Reads
        <3>4. CASE Quiet
            BY <3>4 DEF Quiet, Reads, ReaderTypeOK
        <3>. QED  BY <3>1, <3>2, <3>3, <3>4, ReaderMoves
    <2>2. rows' \subseteq Rows /\ online' \subseteq Devices /\ RowsClosed'
        <3>1. CASE \E S \in SUBSET Rows : RowsMove(S)
            BY <3>1 DEF RowsMove, Comes, Goes, ReaderTypeOK, RowsClosed
        <3>2. CASE ReaderStep
            <4>1. PICK q \in Readings : ReadsAs(q)
                BY <3>2 DEF ReaderStep, ReadsAs
            <4>2. UNCHANGED <<rows, online>>
                BY <4>1, ReadShapeStep
            <4>. QED  BY <4>2 DEF ReaderTypeOK, RowsClosed
        <3>3. CASE \E u \in Users : RenewSession(u)
            <4>1. UNCHANGED <<rows, online>>
                BY <3>3 DEF RenewSession
            <4>. QED  BY <4>1 DEF ReaderTypeOK, RowsClosed
        <3>4. CASE Quiet
            BY <3>4 DEF Quiet, ReaderTypeOK, RowsClosed, Of, Devices
        <3>. QED  BY <3>1, <3>2, <3>3, <3>4, ReaderMoves
    <2>3. admin' \subseteq Users /\ carried' \subseteq Users /\ reads' \in 0..MaxReads
          /\ changes' \in 0..MaxChanges
        <3>0. /\ admin \subseteq Users /\ carried \subseteq Users /\ reads \in 0..MaxReads
              /\ changes \in 0..MaxChanges /\ MaxReads \in Nat /\ MaxChanges \in Nat
            BY RowsAssumption DEF ReaderTypeOK
        <3>2. CASE UNCHANGED <<carried, reads>> /\ (changes' = changes \/ Change)
                   /\ (admin' = admin \/ \E u \in Users : SetRole(u))
            BY <3>0, <3>2 DEF Change, SetRole
        <3>3. CASE \E u \in Users : RenewSession(u)
            BY <3>0, <3>3 DEF RenewSession
        <3>4. CASE ReaderStep
            <4>1. PICK q \in Readings : ReadsAs(q)
                BY <3>4 DEF ReaderStep, ReadsAs
            <4>2. UNCHANGED <<admin, carried, changes>>
                BY <4>1, ReadShapeStep
            <4>3. ASSUME NEW r, Begin(q, r) PROVE reads < MaxReads /\ reads' = reads + 1
                BY <4>3 DEF Begin
            <4>4. CASE \/ \E u \in Users, k \in Lists, all \in BOOLEAN : AskList(q, u, k, all)
                       \/ \E u \in Users : AskDashboard(q, u) \/ AskOverview(q, u)
                       \/ \E r \in Rows : AskRow(q, r)
                <5>1. \E r : Begin(q, r)
                    BY <4>4, Zenon DEF AskList, AskDashboard, AskOverview, AskRow
                <5>2. reads < MaxReads /\ reads' = reads + 1
                    BY <4>3, <5>1
                <5>. QED  BY <3>0, <4>2, <5>2
            <4>5. CASE \/ \E f \in reading[q].todo : ListQuery(q, f) \/ FigureQuery(q, f)
                       \/ RowQuery(q) \/ DetailQuery(q)
                <5>1. reads' = reads
                    BY <4>5, Zenon DEF ListQuery, FigureQuery, Found, RowQuery, DetailQuery
                <5>. QED  BY <3>0, <4>2, <5>1
            <4>. QED  BY <4>1, <4>4, <4>5 DEF ReadsAs
        <3>5. CASE Around
            BY <3>2, <3>3, <3>5 DEF Around, Surroundings, Add, Remove, Report, SetRole
        <3>6. CASE SocketStep
            BY <3>2, <3>6 DEF SocketStep, Connect, Subscribe, JoinUser, Disconnect, ShowAlerts,
               Unsubscribe, EarlyLookup, GuardLookup, CheckDevice, JoinRoom, BroadcastTelemetry,
               BroadcastAlert, LoseBroadcast, StoreAlert, readerVars
        <3>7. CASE \E u \in Users : Session(u)
            BY <3>2, <3>7 DEF Session
        <3>8. CASE UNCHANGED viewerVars
            BY <3>2, <3>8 DEF viewerVars, readerVars
        <3>. QED  BY <3>4, <3>5, <3>6, <3>7, <3>8 DEF Next
    <2>. QED  BY <2>1, <2>2, <2>3 DEF ReaderTypeOK
<1>. QED  BY <1>1, <1>2, PTL DEF Spec

-----------------------------------------------------------------------------
(* When rows move, a list loses rows that moved, and gains only such if it is
   paged; so does the set of devices, or of points, a figure counts. *)
LEMMA ListMoves ==
    ASSUME ReaderTypeOK, NEW S \in SUBSET Rows, Comes(S) \/ Goes(S),
           NEW k \in Lists, NEW u, NEW all
    PROVE  /\ \A r \in List(k, u, all) : r \in List(k, u, all)' \/ r \in S
           /\ k \in Paged => \A r \in List(k, u, all)' : r \in List(k, u, all) \/ r \in S
<1>1. \A r \in rows : r \in rows' \/ r \in S
    BY DEF Comes, Goes
<1>2. \A r \in rows' : r \in rows \/ r \in S
    BY DEF Comes, Goes
<1>3. CASE k # "latest"
    BY <1>1, <1>2, <1>3 DEF List, Lists, Paged, ListAlerts, ListMedia, ListPins, ListStatuses,
       ListZones, ListPlans, ListGroups, Of, Owner
<1>4. CASE k = "latest"
    <2>1. \A p \in rows : KindOf[p] = "point" /\ p \notin rows' => DeviceOf[p] \in S
        BY DEF Comes, Goes
    <2>. QED  BY <1>4, <2>1 DEF List, Paged, ListLatest, Of, Owner
<1>. QED  BY <1>3, <1>4

LEMMA FiguresMove ==
    ASSUME ReaderTypeOK, NEW S \in SUBSET Rows, Comes(S) \/ Goes(S), NEW u, NEW every \in BOOLEAN
    PROVE  LET Ds == {d \in Of("device") : every \/ MakerOf[d] = u} IN
           /\ \A d \in Ds : d \in Ds' \/ d \in S
           /\ \A d \in Ds' : d \in Ds \/ d \in S
           /\ \A p \in PointsOf(u) : p \in PointsOf(u)' \/ p \in S
           /\ \A p \in PointsOf(u)' : p \in PointsOf(u) \/ p \in S
BY DEF Comes, Goes, Of, PointsOf, Owner

\* What a query finds agrees with what is there.
LEMMA FiguresCounted ==
    ASSUME ReaderInv, NEW k \in Reading, NEW f \in k.todo
    PROVE  /\ k.op = "dashboard" =>
                LET found == DashboardCount(f, k.user) IN
                /\ f = "total" => Whole(k) \subseteq found
                /\ f = "online" => found \subseteq Whole(k)
                /\ f = "alerts" => {DeviceOf[a] : a \in found} \subseteq Whole(k)
                /\ f = "points" => Points(k) \subseteq found
                /\ f = "rate" => found \subseteq Points(k)
           /\ k.op = "overview" =>
                LET found == OverviewCount(f) IN
                /\ f = "total" => Whole(k) \subseteq found
                /\ f = "online" => found \subseteq Whole(k)
                /\ f = "alerts" => {DeviceOf[a] : a \in found} \subseteq Whole(k)
<1>1. \A a \in Of("alert") : DeviceOf[a] \in Of("device")
    BY RowsAssumption DEF ReaderInv, RowsClosed, ReaderTypeOK, Of, Devices
<1>2. online \subseteq Of("device")
    BY DEF ReaderInv, RowsClosed, ReaderTypeOK, Of, Devices
<1>3. CASE k.op = "dashboard"
    BY <1>1, <1>2, <1>3 DEF Whole, Points, DashboardCount, AlertStats, ListAlerts, Owner
<1>4. CASE k.op = "overview"
    BY <1>1, <1>2, <1>4 DEF Whole, OverviewCount
<1>. QED  BY <1>3, <1>4

\* Figures that were all counted agree with each other.
LEMMA FiguresEnd ==
    ASSUME NEW k \in Reading, ReadShape(k), FiguresSoFar(k), k.todo = {},
           k.op \in {"dashboard", "overview"}
    PROVE  Figured(k)
BY DEF ReadShape, FiguresSoFar, Figured

\* A step that leaves the rows leaves what agrees with them.
LEMMA SameRows ==
    ASSUME rows' = rows, NEW k
    PROVE  /\ ListAgrees(k)' <=> ListAgrees(k)
           /\ FiguresAlong(k)' <=> FiguresAlong(k)
BY DEF ListAgrees, FiguresAlong, FiguresSoFar, Figured, Whole, Points, PointsOf, Of, Owner, List,
   ListAlerts, ListMedia, ListPins, ListStatuses, ListLatest, ListZones, ListPlans, ListGroups

\* One of a request's own steps.
LEMMA AgreesAlong ==
    ASSUME ReaderInv, NEW q \in Readings, ReadsAs(q), NEW o \in Reading, o = reading[q],
           NEW k \in Reading, k = reading'[q], ListAgrees(o), FiguresAlong(o)
    PROVE  ListAgrees(k) /\ FiguresAlong(k)
<1> USE DEF ReaderInv
<1>0. ReadShape(o)
    BY DEF Reads
<1>1. ASSUME NEW u \in Users, NEW l \in Lists, NEW all \in BOOLEAN, AskList(q, u, l, all)
      PROVE  ListAgrees(k) /\ FiguresAlong(k)
    <2>1. /\ k.op = "list" /\ k.got = Nothing /\ k.list = l
          /\ k.todo = IF l \in Paged THEN {"rows", "total"} ELSE {"rows"}
        BY <1>1, AskListIs
    <2>2. k.got["rows"] = {} /\ k.got["total"] = {}
        BY <2>1, NoReadingIs DEF Shown
    <2> DEFINE now == List(k.list, k.user, k.all)
    <2>3. \A f \in {"rows", "total"} \ k.todo :
             /\ k.got[f] \ now \subseteq k.moved
             /\ k.list \in Paged => now \ k.got[f] \subseteq k.moved
        <3> HIDE DEF now
        <3>. QED  BY <2>1, <2>2
    <2>. QED  BY <2>1, <2>3 DEF ListAgrees, FiguresAlong
<1>2. ASSUME NEW u \in Users, NEW op \in {"dashboard", "overview"},
             IF op = "dashboard" THEN AskDashboard(q, u) ELSE AskOverview(q, u)
      PROVE  ListAgrees(k) /\ FiguresAlong(k)
    <2>1. k.op = op /\ k.todo = Figures(op)
        BY <1>2, AskFiguresIs
    <2>2. /\ {"total", "online", "alerts"} \subseteq k.todo
          /\ op = "dashboard" => {"points", "rate"} \subseteq k.todo
        BY <2>1 DEF Figures
    <2>3. FiguresSoFar(k)
        BY <2>1, <2>2 DEF FiguresSoFar
    <2>. QED  BY <2>1, <2>2, <2>3 DEF ListAgrees, FiguresAlong
<1>3. ASSUME NEW r \in Rows, AskRow(q, r)
      PROVE  ListAgrees(k) /\ FiguresAlong(k)
    <2>1. k.op = "open"
        BY <1>3, AskRowIs
    <2>. QED  BY <2>1 DEF ListAgrees, FiguresAlong
<1>4. ASSUME NEW f \in reading[q].todo, ListQuery(q, f) \/ FigureQuery(q, f)
      PROVE  ListAgrees(k) /\ FiguresAlong(k)
    <2>1. PICK found \in SUBSET Rows :
              /\ f \in Shown /\ Found(q, f, found)
              /\ o.op \in {"list", "dashboard", "overview"}
              /\ o.op = "list" => found = List(o.list, o.user, o.all)
              /\ o.op = "dashboard" => found = DashboardCount(f, o.user)
              /\ o.op = "overview" => found = OverviewCount(f)
        BY <1>0, <1>4, QueryIs
    <2>2. /\ k.todo = o.todo \ {f} /\ k.got = [o.got EXCEPT ![f] = found]
          /\ k.op = o.op /\ k.user = o.user /\ k.all = o.all /\ k.list = o.list
          /\ k.moved = o.moved
        BY <2>1, FoundIs
    <2>3. o.got \in [Shown -> SUBSET Rows] /\ f \in o.todo
        BY DEF Reading
    <2>4. \A g \in Shown : k.got[g] = IF g = f THEN found ELSE o.got[g]
        BY <2>2, <2>3
    <2>5. CASE o.op = "list"
        <3>1. k.got["rows"] = (IF "rows" = f THEN found ELSE o.got["rows"])
              /\ k.got["total"] = (IF "total" = f THEN found ELSE o.got["total"])
            BY <2>4 DEF Shown
        <3> DEFINE now == List(o.list, o.user, o.all)
        <3>2. found = now /\ List(k.list, k.user, k.all) = now
            BY <2>1, <2>2, <2>5
        <3>3. \A g \in {"rows", "total"} \ o.todo :
                 /\ o.got[g] \ now \subseteq o.moved
                 /\ o.list \in Paged => now \ o.got[g] \subseteq o.moved
            BY <2>5 DEF ListAgrees
        <3> HIDE DEF now
        <3>4. \A g \in {"rows", "total"} \ k.todo :
                 /\ k.got[g] \ now \subseteq k.moved
                 /\ k.list \in Paged => now \ k.got[g] \subseteq k.moved
            BY <2>2, <2>3, <3>1, <3>2, <3>3
        <3>. QED  BY <2>2, <2>5, <3>2, <3>4 DEF ListAgrees, FiguresAlong
    <2>6. CASE o.op \in {"dashboard", "overview"}
        <3>1. Whole(k) = Whole(o) /\ Points(k) = Points(o)
            BY <2>2 DEF Whole, Points
        <3>2. FiguresSoFar(o)
            BY <2>3, <2>6 DEF FiguresAlong
        <3>3. /\ f = "total" => Whole(o) \subseteq found
              /\ f = "online" => found \subseteq Whole(o)
              /\ f = "alerts" => {DeviceOf[a] : a \in found} \subseteq Whole(o)
              /\ o.op = "dashboard" /\ f = "points" => Points(o) \subseteq found
              /\ o.op = "dashboard" /\ f = "rate" => found \subseteq Points(o)
            BY <2>1, <2>3, <2>6, FiguresCounted
        <3>4. /\ "total" \in Shown /\ "online" \in Shown /\ "alerts" \in Shown
              /\ "points" \in Shown /\ "rate" \in Shown
            BY DEF Shown
        <3>5. /\ "total" \notin k.todo => Whole(k) \ k.got["total"] \subseteq k.moved
              /\ "online" \notin k.todo => k.got["online"] \ Whole(k) \subseteq k.moved
            BY <2>2, <2>4, <3>1, <3>2, <3>3, <3>4 DEF FiguresSoFar
        <3>6. "alerts" \notin k.todo =>
                 {DeviceOf[a] : a \in k.got["alerts"]} \ Whole(k) \subseteq k.moved
            <4>1. CASE f = "alerts"
                BY <2>4, <3>1, <3>3, <3>4, <4>1
            <4>2. CASE f # "alerts"
                BY <2>2, <2>4, <3>1, <3>2, <3>4, <4>2 DEF FiguresSoFar
            <4>. QED  BY <4>1, <4>2
        <3>7. k.op = "dashboard" =>
                /\ "points" \notin k.todo => Points(k) \ k.got["points"] \subseteq k.moved
                /\ "rate" \notin k.todo => k.got["rate"] \ Points(k) \subseteq k.moved
            BY <2>2, <2>4, <3>1, <3>2, <3>3, <3>4 DEF FiguresSoFar
        <3>8. FiguresSoFar(k)
            BY <3>5, <3>6, <3>7 DEF FiguresSoFar
        <3>9. ReadShape(k)
            BY ReadShapeStep
        <3>. QED  BY <2>2, <2>6, <3>8, <3>9, FiguresEnd DEF FiguresAlong, ListAgrees
    <2>. QED  BY <2>1, <2>5, <2>6
<1>5. ASSUME RowQuery(q) \/ DetailQuery(q)
      PROVE  ListAgrees(k) /\ FiguresAlong(k)
    <2>1. k.op = "open"
        BY <1>0, <1>5, OpenIs
    <2>. QED  BY <2>1 DEF ListAgrees, FiguresAlong
<1>. QED  BY <1>1, <1>2, <1>3, <1>4, <1>5 DEF ReadsAs

\* Rows come or go during a request.
LEMMA AgreesMoved ==
    ASSUME ReaderInv, NEW S \in SUBSET Rows, RowsMove(S), NEW q \in Readings,
           NEW o \in Reading, o = reading[q], NEW k \in Reading, k = reading'[q],
           ListAgrees(o), FiguresAlong(o)
    PROVE  ListAgrees(k)' /\ FiguresAlong(k)'
<1> USE DEF ReaderInv
<1>0. ReadShape(o) /\ (Comes(S) \/ Goes(S)) /\ Moved(S)
    BY DEF Reads, RowsMove
<1>1. /\ k.op = o.op /\ k.user = o.user /\ k.all = o.all /\ k.list = o.list
      /\ k.todo = o.todo /\ k.got = o.got /\ k.row = o.row /\ k.outcome = o.outcome
      /\ o.todo # {} \/ o.op = "list" => k.moved = o.moved \cup S
      /\ ~(o.todo # {} \/ o.op = "list") => k = o
    BY <1>0, MovedIs DEF Under
<1>2. ListAgrees(k)'
    <2> SUFFICES ASSUME k.op = "list", NEW f \in {"rows", "total"} \ k.todo
                 PROVE  LET now == List(k.list, k.user, k.all)' IN
                        /\ k.got[f] \ now \subseteq k.moved
                        /\ k.list \in Paged => now \ k.got[f] \subseteq k.moved
        BY DEF ListAgrees
    <2> DEFINE was == List(k.list, k.user, k.all)
               now == List(k.list, k.user, k.all)'
    <2>1. k.got[f] \ was \subseteq o.moved /\ (k.list \in Paged => was \ k.got[f] \subseteq o.moved)
        BY <1>1 DEF ListAgrees
    <2>2. k.list \in Lists
        BY <1>0, <1>1 DEF ReadShape
    <2>3. /\ \A r \in was : r \in now \/ r \in S
          /\ k.list \in Paged => \A r \in now : r \in was \/ r \in S
        BY <1>0, <2>2, ListMoves
    <2> HIDE DEF was, now
    <2>4. /\ k.got[f] \ now \subseteq k.moved
          /\ k.list \in Paged => now \ k.got[f] \subseteq k.moved
        BY <1>1, <2>1, <2>3
    <2>. QED  BY <2>4 DEF now
<1>3. FiguresAlong(k)'
    <2>1. CASE k.op \in {"dashboard", "overview"} /\ k.todo # {}
        <3>1. FiguresSoFar(o) /\ k.moved = o.moved \cup S
            BY <1>1, <2>1 DEF FiguresAlong
        <3> DEFINE every == k.op = "overview"
        <3>2. PICK W : W = Whole(k)
            OBVIOUS
        <3>3. PICK P : P = Points(k)
            OBVIOUS
        <3>4. Whole(o) = W /\ Points(o) = P
            BY <1>1, <3>2, <3>3 DEF Whole, Points
        <3>5. PICK W2 : W2 = Whole(k)'
            OBVIOUS
        <3>6. PICK P2 : P2 = Points(k)'
            OBVIOUS
        <3>7. /\ \A d \in W : d \in W2 \/ d \in S
              /\ \A d \in W2 : d \in W \/ d \in S
              /\ \A p \in P : p \in P2 \/ p \in S
              /\ \A p \in P2 : p \in P \/ p \in S
            <4>1. every \in BOOLEAN
                OBVIOUS
            <4>2. W = {d \in Of("device") : every \/ MakerOf[d] = k.user}
                  /\ W2 = {d \in Of("device") : every \/ MakerOf[d] = k.user}'
                BY <3>2, <3>5 DEF Whole
            <4> HIDE DEF every
            <4>. QED  BY <1>0, <3>3, <3>6, <4>1, <4>2, FiguresMove DEF Points
        <3>8. /\ "total" \notin o.todo => W \ o.got["total"] \subseteq o.moved
              /\ "online" \notin o.todo => o.got["online"] \ W \subseteq o.moved
              /\ "alerts" \notin o.todo =>
                    {DeviceOf[a] : a \in o.got["alerts"]} \ W \subseteq o.moved
              /\ o.op = "dashboard" =>
                    /\ "points" \notin o.todo => P \ o.got["points"] \subseteq o.moved
                    /\ "rate" \notin o.todo => o.got["rate"] \ P \subseteq o.moved
            BY <3>1, <3>4 DEF FiguresSoFar
        <3>9. /\ "total" \notin k.todo => W2 \ k.got["total"] \subseteq k.moved
              /\ "online" \notin k.todo => k.got["online"] \ W2 \subseteq k.moved
              /\ "alerts" \notin k.todo =>
                    {DeviceOf[a] : a \in k.got["alerts"]} \ W2 \subseteq k.moved
              /\ k.op = "dashboard" =>
                    /\ "points" \notin k.todo => P2 \ k.got["points"] \subseteq k.moved
                    /\ "rate" \notin k.todo => k.got["rate"] \ P2 \subseteq k.moved
            BY <1>1, <3>1, <3>7, <3>8
        <3>. QED  BY <2>1, <3>5, <3>6, <3>9 DEF FiguresAlong, FiguresSoFar
    <2>2. CASE k.op \in {"dashboard", "overview"} /\ k.todo = {}
        BY <1>1, <2>2 DEF FiguresAlong, Figured
    <2>3. CASE k.op \notin {"dashboard", "overview"}
        BY <2>3 DEF FiguresAlong
    <2>. QED  BY <2>1, <2>2, <2>3
<1>. QED  BY <1>2, <1>3

LEMMA AgreesStep ==
    ASSUME ReaderInv, ReaderInv', Agrees, [Next]_viewerVars
    PROVE  Agrees'
<1> SUFFICES ASSUME NEW q \in Readings, NEW k \in Reading, reading'[q] = k
             PROVE  ListAgrees(k)' /\ FiguresAlong(k)'
    BY DEF Agrees
<1>1. PICK o \in Reading : o = reading[q] /\ ListAgrees(o) /\ FiguresAlong(o)
    BY DEF ReaderInv, ReaderTypeOK, Agrees
<1>2. CASE ReaderStep
    <2>1. PICK p \in Readings : ReadsAs(p)
        BY <1>2 DEF ReaderStep, ReadsAs
    <2>2. rows' = rows /\ Only(p)
        BY <2>1, ReadShapeStep DEF ReaderInv
    <2>3. CASE p = q
        BY <1>1, <2>1, <2>2, <2>3, AgreesAlong, SameRows
    <2>4. CASE p # q
        <3>1. k = o
            BY <1>1, <2>2, <2>4 DEF Only
        <3>. QED  BY <1>1, <2>2, <3>1, SameRows
    <2>. QED  BY <2>3, <2>4
<1>3. CASE \E S \in SUBSET Rows : RowsMove(S)
    BY <1>1, <1>3, AgreesMoved
<1>4. CASE \E u \in Users : RenewSession(u)
    <2>1. /\ k.op = o.op /\ k.user = o.user /\ k.all = o.all /\ k.list = o.list
          /\ k.todo = o.todo /\ k.got = o.got /\ k.moved = o.moved /\ rows' = rows
        BY <1>1, <1>4, RenewIs DEF ReaderInv
    <2>2. ListAgrees(k) /\ FiguresAlong(k)
        BY <1>1, <2>1 DEF ListAgrees, FiguresAlong, FiguresSoFar, Figured, Whole, Points
    <2>. QED  BY <2>1, <2>2, SameRows
<1>5. CASE Quiet
    <2>1. k = o /\ rows' = rows
        BY <1>1, <1>5 DEF Quiet
    <2>. QED  BY <1>1, <2>1, SameRows
<1>. QED  BY <1>2, <1>3, <1>4, <1>5, ReaderMoves DEF ReaderInv

(* FiguresAgree: the figures of one answer agree although separate queries
   counted them, but for the rows that came or went meanwhile; for any number
   of requests at a time and however the counts interleave with the changes
   (dashboard.service.ts:31-82). *)
THEOREM AnswersAgree == Spec => []FiguresAgree
<1>1. Init => Agrees
    <2> SUFFICES ASSUME Init, NEW q \in Readings, NEW k \in Reading, reading[q] = k
                 PROVE  ListAgrees(k) /\ FiguresAlong(k)
        BY DEF Agrees
    <2>1. k.op = "none"
        BY NoReadingIs DEF Init, ReaderInit
    <2>. QED  BY <2>1 DEF ListAgrees, FiguresAlong
<1>2. ReaderInv /\ ReaderInv' /\ Agrees /\ [Next]_viewerVars => Agrees'
    BY AgreesStep
<1>3. ReaderInv /\ Agrees => FiguresAgree
    <2> SUFFICES ASSUME ReaderInv, Agrees, NEW q \in Readings, reading[q].todo = {}
                 PROVE  LET got == reading[q].got
                            moved == reading[q].moved IN
                        /\ reading[q].op = "list" /\ reading[q].list \in Paged =>
                              (got["rows"] \ got["total"]) \cup (got["total"] \ got["rows"])
                                 \subseteq moved
                        /\ reading[q].op \in {"dashboard", "overview"} =>
                              /\ got["online"] \ got["total"] \subseteq moved
                              /\ {DeviceOf[a] : a \in got["alerts"]} \ got["total"] \subseteq moved
                              /\ got["rate"] \ got["points"] \subseteq moved
        BY DEF FiguresAgree, Answered
    <2>1. PICK k \in Reading : k = reading[q] /\ ListAgrees(k) /\ FiguresAlong(k)
        BY DEF ReaderInv, ReaderTypeOK, Agrees
    <2>2. k.op = "list" /\ k.list \in Paged =>
              (k.got["rows"] \ k.got["total"]) \cup (k.got["total"] \ k.got["rows"])
                 \subseteq k.moved
        <3> SUFFICES ASSUME k.op = "list", k.list \in Paged
                     PROVE  (k.got["rows"] \ k.got["total"]) \cup (k.got["total"] \ k.got["rows"])
                               \subseteq k.moved
            OBVIOUS
        <3> DEFINE now == List(k.list, k.user, k.all)
        <3>1. \A f \in {"rows", "total"} :
                 k.got[f] \ now \subseteq k.moved /\ now \ k.got[f] \subseteq k.moved
            BY <2>1 DEF ListAgrees
        <3> HIDE DEF now
        <3>. QED  BY <3>1
    <2>3. k.op \in {"dashboard", "overview"} => Figured(k)
        BY <2>1 DEF FiguresAlong
    <2>. QED  BY <2>1, <2>2, <2>3 DEF Figured
<1>. QED  BY <1>1, <1>2, <1>3, ReaderInvHolds, PTL DEF Spec

-----------------------------------------------------------------------------
(* Every list selects by what its detail endpoint judges by: a row of the list
   opens, for the same user and no less a role. *)
LEMMA ListOpens ==
    ASSUME ReaderInv, NEW l \in Lists, NEW u, NEW all \in BOOLEAN, NEW all2 \in BOOLEAN,
           all => all2, NEW r \in List(l, u, all)
    PROVE  Find(r, u, all2) = "ok" /\ Detailed(r, l)
<1>1. rows \subseteq Rows
    BY DEF ReaderInv, ReaderTypeOK
<1>2. CASE l = "alerts"
    BY <1>2 DEF List, ListAlerts, Of, Find, FindAlert, Judge, Detailed
<1>3. CASE l \in {"media", "pins"}
    BY <1>3 DEF List, ListMedia, ListPins, Of, Find, FindMedia, Judge, Detailed
<1>4. CASE l = "statuses"
    BY <1>4 DEF List, ListStatuses, Of, Find, FindDevice, Judge, Detailed
<1>5. CASE l = "latest"
    <2>1. PICK p \in Of("point") : r = DeviceOf[p] /\ (all \/ Owner(p) = u)
        BY <1>5 DEF List, ListLatest
    <2>2. r \in rows /\ KindOf[r] = "device" /\ (all \/ MakerOf[r] = u)
        BY <1>1, <2>1, RowsAssumption DEF Of, Owner, ReaderInv, RowsClosed, Devices
    <2>. QED  BY <1>5, <2>1, <2>2 DEF Find, FindDevice, Judge, Detailed
<1>6. CASE l \in {"zones", "plans"}
    BY <1>6 DEF List, ListZones, ListPlans, Of, Find, FindZone, FindPlan, Judge, Detailed
<1>7. CASE l = "groups"
    BY <1>7 DEF List, ListGroups, Of, Find, FindGroup, Detailed
<1>. QED  BY <1>2, <1>3, <1>4, <1>5, <1>6, <1>7 DEF Lists

LEMMA OpensMoves ==
    ASSUME NEW S, Comes(S) \/ Goes(S), NEW k, Opens(k), KindOf[k.row] \in Kinds \ {"point"}
    PROVE  Opens(k)' \/ k.row \in S
<1> SUFFICES ASSUME k.row \notin S PROVE Opens(k)'
    OBVIOUS
<1>1. \A r : r \notin S => (r \in rows <=> r \in rows')
    BY DEF Comes, Goes
<1>2. Find(k.row, k.user, k.all)' = "ok"
    BY <1>1 DEF Opens, Kinds, Find, FindAlert, FindMedia, FindZone, FindPlan, FindDevice, FindGroup,
       Judge, Of, Owner
<1>3. Detailed(k.row, k.list)'
    <2>1. \A p \in rows : KindOf[p] = "point" /\ DeviceOf[p] = k.row => p \in rows'
        BY DEF Comes, Goes
    <2>. QED  BY <1>1, <2>1 DEF Opens, Detailed, Of
<1>. QED  BY <1>2, <1>3 DEF Opens

LEMMA SameOpens ==
    ASSUME rows' = rows, carried' = carried, NEW k
    PROVE  OpensAlong(k)' <=> OpensAlong(k)
BY DEF OpensAlong, Opens, Detailed, Of, Find, FindAlert, FindMedia, FindZone, FindPlan,
   FindDevice, FindGroup, Judge, Owner

\* One of a request's own steps.
LEMMA OpensOn ==
    ASSUME ReaderInv, NEW q \in Readings, ReadsAs(q), NEW o \in Reading, o = reading[q],
           NEW k \in Reading, k = reading'[q], ListAgrees(o), OpensAlong(o)
    PROVE  OpensAlong(k)
<1> USE DEF ReaderInv
<1>0. ReadShape(o)
    BY DEF Reads
<1>1. ASSUME NEW u \in Users, NEW l \in Lists, NEW all \in BOOLEAN, AskList(q, u, l, all)
      PROVE  OpensAlong(k)
    BY <1>1, AskListIs DEF OpensAlong
<1>2. ASSUME NEW u \in Users, NEW op \in {"dashboard", "overview"},
             IF op = "dashboard" THEN AskDashboard(q, u) ELSE AskOverview(q, u)
      PROVE  OpensAlong(k)
    BY <1>2, AskFiguresIs DEF OpensAlong
<1>3. ASSUME NEW r \in Rows, AskRow(q, r)
      PROVE  OpensAlong(k)
    <2>1. /\ k.op = "open" /\ k.user = o.user /\ (k.all <=> o.user \in carried)
          /\ k.list = o.list /\ k.row = r /\ k.todo = {"find"} /\ k.moved = o.moved
          /\ k.turned = o.turned /\ o.op = "list" /\ o.todo = {} /\ r \in o.got["rows"]
        BY <1>3, AskRowIs
    <2>2. CASE ~o.turned /\ r \notin o.moved
        <3>1. r \in List(o.list, o.user, o.all)
            BY <2>1, <2>2 DEF ListAgrees
        <3>2. o.all => k.all
            BY <2>1, <2>2 DEF OpensAlong
        <3>3. o.all \in BOOLEAN /\ k.all \in BOOLEAN /\ o.list \in Lists
            BY <1>0, <2>1 DEF Reading, ReadShape
        <3>. QED  BY <2>1, <3>1, <3>2, <3>3, ListOpens DEF OpensAlong, Opens
    <2>. QED  BY <2>1, <2>2 DEF OpensAlong
<1>4. ASSUME NEW f \in reading[q].todo, ListQuery(q, f) \/ FigureQuery(q, f)
      PROVE  OpensAlong(k)
    <2>1. PICK found \in SUBSET Rows :
              f \in Shown /\ Found(q, f, found) /\ o.op \in {"list", "dashboard", "overview"}
        BY <1>0, <1>4, QueryIs
    <2>2. k.op = o.op /\ k.user = o.user /\ k.all = o.all /\ k.turned = o.turned
        BY <2>1, FoundIs
    <2>. QED  BY <2>1, <2>2 DEF OpensAlong
<1>5. ASSUME RowQuery(q) \/ DetailQuery(q)
      PROVE  OpensAlong(k)
    <2>1. /\ o.op = "open" /\ k.op = "open" /\ k.user = o.user /\ k.all = o.all
          /\ k.list = o.list /\ k.row = o.row /\ k.moved = o.moved /\ k.turned = o.turned
          /\ o.todo # {} /\ (k.todo = {} /\ Opens(o) => k.outcome = "ok")
        BY <1>0, <1>5, OpenIs
    <2>2. Opens(o) <=> Opens(k)
        BY <2>1 DEF Opens
    <2>. QED  BY <2>1, <2>2 DEF OpensAlong
<1>. QED  BY <1>1, <1>2, <1>3, <1>4, <1>5 DEF ReadsAs

LEMMA OpenedStep ==
    ASSUME ReaderInv, ReaderInv', Agrees, Opened, [Next]_viewerVars
    PROVE  Opened'
<1> SUFFICES ASSUME NEW q \in Readings, NEW k \in Reading, reading'[q] = k
             PROVE  OpensAlong(k)'
    BY DEF Opened
<1>1. PICK o \in Reading : o = reading[q] /\ ListAgrees(o) /\ OpensAlong(o) /\ ReadShape(o)
    BY DEF ReaderInv, ReaderTypeOK, Agrees, Opened, Reads
<1>2. CASE ReaderStep
    <2>1. PICK p \in Readings : ReadsAs(p)
        BY <1>2 DEF ReaderStep, ReadsAs
    <2>2. rows' = rows /\ carried' = carried /\ Only(p)
        BY <2>1, ReadShapeStep DEF ReaderInv
    <2>3. CASE p = q
        BY <1>1, <2>1, <2>2, <2>3, OpensOn, SameOpens
    <2>4. CASE p # q
        <3>1. k = o
            BY <1>1, <2>2, <2>4 DEF Only
        <3>. QED  BY <1>1, <2>2, <3>1, SameOpens
    <2>. QED  BY <2>3, <2>4
<1>3. CASE \E S \in SUBSET Rows : RowsMove(S)
    <2>1. PICK S \in SUBSET Rows : RowsMove(S)
        BY <1>3
    <2>2. /\ k.op = o.op /\ k.user = o.user /\ k.all = o.all /\ k.list = o.list
          /\ k.todo = o.todo /\ k.row = o.row /\ k.outcome = o.outcome /\ k.turned = o.turned
          /\ o.todo # {} \/ o.op = "list" => k.moved = o.moved \cup S
          /\ ~(o.todo # {} \/ o.op = "list") => k = o
        BY <1>1, <2>1, MovedIs DEF RowsMove, Under, ReaderInv
    <2>3. Opens(o) => Opens(k)
        BY <2>2 DEF Opens
    <2>4. k.op = "open" => KindOf[k.row] \in Kinds \ {"point"}
        BY <1>1, <2>2, RowsAssumption DEF ReadShape
    <2>5. Opens(k) /\ k.op = "open" => Opens(k)' \/ k.row \in S
        BY <2>1, <2>4, OpensMoves DEF RowsMove
    <2>6. carried' = carried
        BY <2>1 DEF RowsMove
    <2>. QED  BY <1>1, <2>2, <2>3, <2>5, <2>6 DEF OpensAlong
<1>4. CASE \E u \in Users : RenewSession(u)
    <2>1. PICK u \in Users : RenewSession(u)
        BY <1>4
    <2>2. /\ k.op = o.op /\ k.user = o.user /\ k.all = o.all /\ k.list = o.list
          /\ k.todo = o.todo /\ k.row = o.row /\ k.outcome = o.outcome /\ k.moved = o.moved
          /\ o.turned => k.turned
          /\ (o.todo # {} \/ o.op = "list") /\ o.user = u => k.turned
          /\ \A v \in Users \ {u} : v \in carried' <=> v \in carried
          /\ rows' = rows
        BY <1>1, <2>1, RenewIs DEF ReaderInv, Under
    <2>3. Opens(o) => Opens(k)'
        BY <2>2 DEF Opens, Detailed, Of, Find, FindAlert, FindMedia, FindZone, FindPlan,
           FindDevice, FindGroup, Judge, Owner
    <2>4. o.op = "list" => o.user \in Users
        BY <1>1 DEF ReadShape
    <2>. QED  BY <1>1, <2>2, <2>3, <2>4 DEF OpensAlong
<1>5. CASE Quiet
    <2>1. k = o /\ rows' = rows /\ carried' = carried
        BY <1>1, <1>5 DEF Quiet
    <2>. QED  BY <1>1, <2>1, SameOpens
<1>. QED  BY <1>2, <1>3, <1>4, <1>5, ReaderMoves DEF ReaderInv

(* WhatIsListedOpens: a row that was listed opens, unless it came, went or the
   reader's role changed since: the column a list selects by is the one its
   detail endpoint judges by, in queries written separately
   (geofences.service.ts:126-151). *)
THEOREM ListedRowsOpen == Spec => []WhatIsListedOpens
<1>1. Init => Agrees /\ Opened
    <2> SUFFICES ASSUME Init, NEW q \in Readings, NEW k \in Reading, reading[q] = k
                 PROVE  ListAgrees(k) /\ FiguresAlong(k) /\ OpensAlong(k)
        BY DEF Agrees, Opened
    <2>1. k.op = "none"
        BY NoReadingIs DEF Init, ReaderInit
    <2>. QED  BY <2>1 DEF ListAgrees, FiguresAlong, OpensAlong
<1>2. ReaderInv /\ ReaderInv' /\ Agrees /\ Opened /\ [Next]_viewerVars => Agrees' /\ Opened'
    BY AgreesStep, OpenedStep
<1>3. ReaderInv /\ Opened => WhatIsListedOpens
    <2> SUFFICES ASSUME ReaderInv, Opened, NEW q \in Readings, reading[q].todo = {},
                        reading[q].op = "open", ~reading[q].turned
                 PROVE  reading[q].outcome = "ok" \/ reading[q].row \in reading[q].moved
        BY DEF WhatIsListedOpens, Answered
    <2>1. PICK k \in Reading : k = reading[q] /\ OpensAlong(k)
        BY DEF ReaderInv, ReaderTypeOK, Opened
    <2>. QED  BY <2>1 DEF OpensAlong
<1>. QED  BY <1>1, <1>2, <1>3, ReaderInvHolds, PTL DEF Spec

-----------------------------------------------------------------------------
(* The steps of the sockets and their handlers. *)
SocketTypes ==
    /\ session \subseteq Users
    /\ socket \in [Sockets -> [on : BOOLEAN, as : Identity]]
    /\ rooms \in [Sockets -> SUBSET (Devices \cup Users)]
    /\ call \in [Calls -> Handler]
    /\ unsent \subseteq Announced /\ lost \subseteq Announced
    /\ wants \in [Sockets -> SUBSET Devices] /\ overtaken \in [Sockets -> SUBSET Devices]
    /\ ruled \subseteq Sockets /\ watching \subseteq Sockets
    /\ heard \in [Sockets -> SUBSET Devices] /\ known \in [Sockets -> SUBSET Rows]
    /\ calls \in 0..MaxCalls

\* Every other handler, and every other socket, stays.
OnlyCall(c) == /\ \A x \in Calls \ {c} : call'[x] = call[x]
               /\ call' \in [Calls -> Handler]
OnlySocket(s) == /\ \A t \in Sockets \ {s} : socket'[t] = socket[t]
                 /\ socket' \in [Sockets -> [on : BOOLEAN, as : Identity]]

LEMMA NoCallIs ==
    /\ NoCall \in Handler /\ NoCall.op = "none" /\ NoCall.at = "none" /\ NoCall.socket = NoOne
    /\ Unknown \in Identity /\ Unknown.admin = FALSE /\ Unknown.user = NoOne
    /\ Gone \in [on : BOOLEAN, as : Identity] /\ Gone.on = FALSE /\ Gone.as = Unknown
    /\ NoCall.as = Unknown /\ NoCall.room = NoOne
BY DEF NoCall, Handler, Unknown, Identity, Gone

LEMMA LookedIs ==
    ASSUME NEW s \in Sockets
    PROVE  /\ Looked(s) \in Identity /\ Looked(s).user = UserOf[s]
           /\ Looked(s).admin <=> UserOf[s] \in admin
<1> DEFINE b == UserOf[s] \in admin
<1>1. b \in BOOLEAN /\ UserOf[s] \in Users
    BY SocketsAssumption
<1>2. Looked(s) = [user |-> UserOf[s], admin |-> b]
    BY DEF Looked
<1> HIDE DEF b
<1>3. Looked(s) \in Identity /\ Looked(s).user = UserOf[s] /\ Looked(s).admin = b
    BY <1>1, <1>2 DEF Identity
<1>. QED  BY <1>3 DEF b

LEMMA StartIs ==
    ASSUME SocketTypes, NEW c \in Calls, NEW s \in Sockets,
           NEW op \in {"connect", "subscribe", "join"}, NEW room \in Devices \cup Users \cup {NoOne},
           NEW at \in {"early", "guard", "device", "join"}, Start(c, op, s, room, at)
    PROVE  /\ call[c] = NoCall /\ calls' \in 0..MaxCalls
           /\ call'[c].op = op /\ call'[c].socket = s /\ call'[c].room = room
           /\ call'[c].at = at /\ call'[c].as = socket[s].as
           /\ OnlyCall(c)
<1> DEFINE k == [op |-> op, socket |-> s, room |-> room, at |-> at, as |-> socket[s].as]
<1>1. socket[s].as \in Identity
    BY DEF SocketTypes
<1>2. /\ k \in Handler /\ k.op = op /\ k.socket = s /\ k.room = room /\ k.at = at
      /\ k.as = socket[s].as
    BY <1>1 DEF Handler
<1>3. call' = [call EXCEPT ![c] = k] /\ call[c] = NoCall /\ calls < MaxCalls /\ calls' = calls + 1
    BY DEF Start
<1> HIDE DEF k
<1>4. call'[c] = k /\ OnlyCall(c)
    BY <1>2, <1>3 DEF OnlyCall, SocketTypes
<1>5. calls' \in 0..MaxCalls
    BY <1>3, SocketsAssumption DEF SocketTypes
<1>. QED  BY <1>2, <1>3, <1>4, <1>5

LEMMA EndCallIs ==
    ASSUME SocketTypes, NEW c \in Calls, EndCall(c)
    PROVE  call'[c] = NoCall /\ OnlyCall(c)
BY NoCallIs DEF EndCall, SocketTypes, OnlyCall

LEMMA ConnectIs ==
    ASSUME SocketTypes, NEW s \in Sockets, NEW c \in Calls, Connect(s, c)
    PROVE  /\ ~socket[s].on /\ socket'[s].on /\ socket'[s].as = socket[s].as /\ OnlySocket(s)
           /\ call[c] = NoCall /\ call'[c].op = "connect" /\ call'[c].socket = s
           /\ call'[c].at = "early" /\ call'[c].as = socket[s].as /\ call'[c].room = NoOne
           /\ OnlyCall(c) /\ calls' \in 0..MaxCalls
<1>1. socket[s] \in [on : BOOLEAN, as : Identity]
    BY DEF SocketTypes
<1>2. [socket[s] EXCEPT !.on = TRUE] \in [on : BOOLEAN, as : Identity]
    BY <1>1
<1>3. socket' = [socket EXCEPT ![s] = [socket[s] EXCEPT !.on = TRUE]] /\ ~socket[s].on
    BY DEF Connect, SocketTypes
<1>4. socket'[s].on /\ socket'[s].as = socket[s].as /\ OnlySocket(s)
    BY <1>1, <1>2, <1>3 DEF SocketTypes, OnlySocket
<1>. QED  BY <1>3, <1>4, StartIs DEF Connect

\* The early authentication and the guard leave the user and role they read.
LEMMA LookupIs ==
    ASSUME SocketTypes, NEW s \in Sockets, socket' = [socket EXCEPT ![s].as = Looked(s)]
    PROVE  socket'[s].on = socket[s].on /\ socket'[s].as = Looked(s) /\ OnlySocket(s)
<1>1. socket[s] \in [on : BOOLEAN, as : Identity]
    BY DEF SocketTypes
<1> DEFINE k == [socket[s] EXCEPT !.as = Looked(s)]
<1>2. k \in [on : BOOLEAN, as : Identity] /\ k.on = socket[s].on /\ k.as = Looked(s)
    BY <1>1, LookedIs
<1>3. socket' = [socket EXCEPT ![s] = k]
    BY DEF SocketTypes
<1> HIDE DEF k
<1>. QED  BY <1>2, <1>3 DEF SocketTypes, OnlySocket

LEMMA GuardIs ==
    ASSUME SocketTypes, NEW c \in Calls, GuardLookup(c), call[c].socket \in Sockets
    PROVE  \/ /\ socket'[call[c].socket].on = socket[call[c].socket].on
              /\ socket'[call[c].socket].as = Looked(call[c].socket)
              /\ OnlySocket(call[c].socket)
              /\ call'[c].op = call[c].op /\ call'[c].socket = call[c].socket
              /\ call'[c].room = call[c].room /\ call'[c].as = Looked(call[c].socket)
              /\ call'[c].at = (IF call[c].op = "subscribe" THEN "device" ELSE "join")
              /\ OnlyCall(c)
           \/ EndCall(c) /\ socket' = socket
<1> DEFINE s == call[c].socket
           a == IF call[c].op = "subscribe" THEN "device" ELSE "join"
<1>1. CASE UserOf[s] \in session
    <2>1. call' = [call EXCEPT ![c] = [call[c] EXCEPT !.as = Looked(s), !.at = a]]
        BY <1>1 DEF GuardLookup, SocketTypes
    <2>2. socket' = [socket EXCEPT ![s].as = Looked(s)]
        BY <1>1 DEF GuardLookup
    <2>3. call[c] \in Handler /\ Looked(s) \in Identity /\ a \in {"device", "join"}
        BY LookedIs DEF SocketTypes
    <2>4. socket'[s].on = socket[s].on /\ socket'[s].as = Looked(s) /\ OnlySocket(s)
        BY <2>2, LookupIs
    <2> DEFINE l == Looked(s)
               k == [call[c] EXCEPT !.as = l, !.at = a]
    <2> HIDE DEF a, l
    <2>5. /\ k \in Handler /\ k.op = call[c].op /\ k.socket = call[c].socket
          /\ k.room = call[c].room /\ k.as = l /\ k.at = a
        BY <2>3 DEF Handler, l
    <2>6. call' = [call EXCEPT ![c] = k]
        BY <2>1 DEF l
    <2> HIDE DEF k
    <2>7. call'[c] = k /\ OnlyCall(c)
        BY <2>5, <2>6 DEF SocketTypes, OnlyCall
    <2>. QED  BY <2>4, <2>5, <2>7 DEF l, a
<1>2. CASE UserOf[s] \notin session
    BY <1>2 DEF GuardLookup
<1>. QED  BY <1>1, <1>2

LEMMA CheckIs ==
    ASSUME SocketTypes, NEW c \in Calls, CheckDevice(c)
    PROVE  \/ /\ OwnsDevice(call[c].as, call[c].room)
              /\ call'[c].op = call[c].op /\ call'[c].socket = call[c].socket
              /\ call'[c].room = call[c].room /\ call'[c].as = call[c].as
              /\ call'[c].at = "join" /\ OnlyCall(c)
           \/ EndCall(c)
<1>1. CASE OwnsDevice(call[c].as, call[c].room)
    <2>1. call[c] \in Handler
        BY DEF SocketTypes
    <2> DEFINE k == [call[c] EXCEPT !.at = "join"]
    <2>2. /\ k \in Handler /\ k.op = call[c].op /\ k.socket = call[c].socket
          /\ k.room = call[c].room /\ k.as = call[c].as /\ k.at = "join"
        BY <2>1 DEF Handler
    <2>3. call' = [call EXCEPT ![c] = k]
        BY <1>1 DEF CheckDevice, SocketTypes
    <2> HIDE DEF k
    <2>4. call'[c] = k /\ OnlyCall(c)
        BY <2>2, <2>3 DEF SocketTypes, OnlyCall
    <2>. QED  BY <1>1, <2>2, <2>4
<1>2. CASE ~OwnsDevice(call[c].as, call[c].room)
    BY <1>2 DEF CheckDevice
<1>. QED  BY <1>1, <1>2

LEMMA DisconnectIs ==
    ASSUME SocketTypes, NEW s \in Sockets, Disconnect(s)
    PROVE  /\ socket'[s] = Gone /\ OnlySocket(s)
           /\ call' \in [Calls -> Handler]
           /\ \A c \in Calls : call'[c] = IF call[c].socket = s THEN NoCall ELSE call[c]
           /\ rooms'[s] = {} /\ wants'[s] = {} /\ overtaken'[s] = {} /\ heard'[s] = {}
           /\ known'[s] = {}
           /\ \A t \in Sockets \ {s} :
                 /\ rooms'[t] = rooms[t] /\ wants'[t] = wants[t] /\ overtaken'[t] = overtaken[t]
                 /\ heard'[t] = heard[t] /\ known'[t] = known[t]
<1>1. socket'[s] = Gone /\ OnlySocket(s)
    BY NoCallIs DEF Disconnect, SocketTypes, OnlySocket
<1>2. \A c \in Calls : call'[c] = IF call[c].socket = s THEN NoCall ELSE call[c]
    BY DEF Disconnect
<1>3. call' \in [Calls -> Handler]
    <2>1. \A c \in Calls : call'[c] \in Handler
        BY <1>2, NoCallIs DEF SocketTypes
    <2>2. call' = [c \in Calls |-> call'[c]]
        BY DEF Disconnect
    <2>. QED  BY <2>1, <2>2
<1>. QED  BY <1>1, <1>2, <1>3 DEF Disconnect, SocketTypes

ViewerInv == ReaderInv /\ SocketTypes /\ Shapes

LEMMA ViewerTypesStep ==
    ASSUME ViewerInv, ReaderInv', [Next]_viewerVars
    PROVE  SocketTypes' /\ Shapes'
<1> USE DEF ViewerInv
<1>1. ASSUME NEW s \in Sockets, NEW c \in Calls, Connect(s, c)
      PROVE  SocketTypes' /\ Shapes'
    <2>1. UNCHANGED <<session, rooms, unsent, lost, wants, overtaken, heard, known, watching>>
          /\ ruled' \subseteq Sockets
        BY <1>1 DEF Connect, SocketTypes
    <2>2. SocketTypes'
        BY <1>1, <2>1, ConnectIs DEF SocketTypes, OnlySocket, OnlyCall
    <2>3. \A x \in Calls : HandlerShape(call[x])'
        BY <1>1, ConnectIs DEF Shapes, HandlerShape, OnlySocket, OnlyCall
    <2>4. \A t \in Sockets : SocketShape(t)'
        BY <1>1, <2>1, ConnectIs DEF Shapes, SocketShape, OnlySocket
    <2>. QED  BY <2>2, <2>3, <2>4 DEF Shapes
<1>2. ASSUME NEW c \in Calls, EarlyLookup(c)
      PROVE  SocketTypes' /\ Shapes'
    <2>1. UNCHANGED <<session, rooms, unsent, lost, wants, overtaken, ruled, heard, known, watching, calls>>
          /\ EndCall(c) /\ call[c].at = "early"
        BY <1>2 DEF EarlyLookup
    <2>2. call[c].socket \in Sockets /\ socket[call[c].socket].on
        BY <2>1 DEF Shapes, HandlerShape
    <2>3. call'[c] = NoCall /\ OnlyCall(c)
        BY <2>1, EndCallIs
    <2>4. CASE socket' = socket
        BY <2>1, <2>3, <2>4, NoCallIs DEF SocketTypes, Shapes, HandlerShape, SocketShape, OnlyCall
    <2>5. CASE socket' = [socket EXCEPT ![call[c].socket].as = Looked(call[c].socket)]
        <3>1. socket'[call[c].socket].on /\ OnlySocket(call[c].socket)
            BY <2>2, <2>5, LookupIs
        <3>2. SocketTypes'
            BY <2>1, <2>3, <3>1 DEF SocketTypes, OnlySocket, OnlyCall
        <3>3. \A t \in Sockets : socket[t].on => socket'[t].on
            BY <3>1 DEF OnlySocket
        <3>4. \A x \in Calls : HandlerShape(call[x])'
            BY <2>3, <3>3, NoCallIs DEF Shapes, HandlerShape, OnlyCall
        <3>5. \A t \in Sockets : SocketShape(t)'
            BY <2>1, <3>1 DEF Shapes, SocketShape, OnlySocket
        <3>. QED  BY <3>2, <3>4, <3>5 DEF Shapes
    <2>. QED  BY <1>2, <2>4, <2>5 DEF EarlyLookup
<1>3. ASSUME NEW s \in Sockets, Disconnect(s)
      PROVE  SocketTypes' /\ Shapes'
    <2>1. UNCHANGED <<session, unsent, lost, calls>> /\ ruled' = ruled \ {s} /\ watching' = watching \ {s}
          /\ rooms' \in [Sockets -> SUBSET (Devices \cup Users)] /\ wants' \in [Sockets -> SUBSET Devices]
          /\ overtaken' \in [Sockets -> SUBSET Devices] /\ heard' \in [Sockets -> SUBSET Devices]
          /\ known' \in [Sockets -> SUBSET Rows]
        BY <1>3 DEF Disconnect, SocketTypes
    <2>2. SocketTypes'
        BY <1>3, <2>1, DisconnectIs DEF SocketTypes, OnlySocket
    <2>3. \A x \in Calls : HandlerShape(call[x])'
        <3> SUFFICES ASSUME NEW x \in Calls PROVE HandlerShape(call[x])'
            OBVIOUS
        <3>1. CASE call[x].socket = s
            BY <1>3, <3>1, DisconnectIs, NoCallIs DEF HandlerShape
        <3>2. CASE call[x].socket # s
            BY <1>3, <3>2, DisconnectIs DEF Shapes, HandlerShape, OnlySocket
        <3>. QED  BY <3>1, <3>2
    <2>4. \A t \in Sockets : SocketShape(t)'
        BY <1>3, <2>1, DisconnectIs DEF Shapes, SocketShape, OnlySocket
    <2>. QED  BY <2>2, <2>3, <2>4 DEF Shapes
<1>4. ASSUME NEW s \in Sockets, NEW d \in Devices, NEW c \in Calls, Subscribe(s, d, c)
      PROVE  SocketTypes' /\ Shapes'
    <2>1. UNCHANGED <<session, socket, rooms, unsent, lost, overtaken, ruled, heard, known, watching>>
          /\ socket[s].on /\ wants' \in [Sockets -> SUBSET Devices]
          /\ Start(c, "subscribe", s, d, Guarded(s, "device"))
        BY <1>4 DEF Subscribe, SocketTypes
    <2>2. Guarded(s, "device") \in {"guard", "device"}
        BY DEF Guarded
    <2>3. /\ call'[c].op = "subscribe" /\ call'[c].socket = s /\ call'[c].room = d
          /\ call'[c].at \in {"guard", "device"} /\ OnlyCall(c) /\ calls' \in 0..MaxCalls
        BY <2>1, <2>2, StartIs
    <2>4. SocketTypes'
        BY <2>1, <2>3 DEF SocketTypes, OnlyCall
    <2>. QED  BY <2>1, <2>3, <2>4 DEF Shapes, HandlerShape, SocketShape, OnlyCall
<1>5. ASSUME NEW s \in Sockets, NEW u \in Users, NEW c \in Calls, JoinUser(s, u, c)
      PROVE  SocketTypes' /\ Shapes'
    <2>1. UNCHANGED <<session, socket, rooms, unsent, lost, wants, overtaken, ruled, heard, known, watching>>
          /\ socket[s].on /\ Start(c, "join", s, u, Guarded(s, "join"))
        BY <1>5 DEF JoinUser, SocketTypes
    <2>2. Guarded(s, "join") \in {"guard", "join"}
        BY DEF Guarded
    <2>3. /\ call'[c].op = "join" /\ call'[c].socket = s /\ call'[c].room = u
          /\ call'[c].at \in {"guard", "join"} /\ OnlyCall(c) /\ calls' \in 0..MaxCalls
        BY <2>1, <2>2, StartIs
    <2>4. SocketTypes'
        BY <2>1, <2>3 DEF SocketTypes, OnlyCall
    <2>. QED  BY <2>1, <2>3, <2>4 DEF Shapes, HandlerShape, SocketShape, OnlyCall
<1>6. ASSUME NEW c \in Calls, GuardLookup(c)
      PROVE  SocketTypes' /\ Shapes'
    <2>1. UNCHANGED <<session, rooms, unsent, lost, wants, overtaken, ruled, heard, known, watching, calls>>
          /\ call[c].at = "guard"
        BY <1>6 DEF GuardLookup
    <2>2. /\ call[c].op \in {"subscribe", "join"} /\ call[c].socket \in Sockets
          /\ socket[call[c].socket].on
        BY <2>1, NoCallIs DEF Shapes, HandlerShape, SocketTypes, Handler
    <2>3. CASE EndCall(c) /\ socket' = socket
        <3>1. call'[c] = NoCall /\ OnlyCall(c)
            BY <2>3, EndCallIs
        <3>. QED  BY <2>1, <2>3, <3>1, NoCallIs DEF SocketTypes, Shapes, HandlerShape, SocketShape, OnlyCall
    <2>4. CASE ~(EndCall(c) /\ socket' = socket)
        <3>1. /\ socket'[call[c].socket].on = socket[call[c].socket].on
              /\ OnlySocket(call[c].socket)
              /\ call'[c].op = call[c].op /\ call'[c].socket = call[c].socket
              /\ call'[c].room = call[c].room
              /\ call'[c].at = (IF call[c].op = "subscribe" THEN "device" ELSE "join")
              /\ OnlyCall(c)
            BY <1>6, <2>2, <2>4, GuardIs
        <3>2. SocketTypes'
            BY <2>1, <3>1 DEF SocketTypes, OnlyCall, OnlySocket
        <3>3. \A t \in Sockets : socket[t].on => socket'[t].on
            BY <2>2, <3>1 DEF OnlySocket
        <3>4. HandlerShape(call[c])'
            BY <2>2, <3>1, <3>3 DEF Shapes, HandlerShape
        <3>5. \A x \in Calls \ {c} : HandlerShape(call[x])'
            BY <3>1, <3>3 DEF Shapes, HandlerShape, OnlyCall
        <3>6. \A t \in Sockets : SocketShape(t)'
            BY <2>1, <2>2, <3>1 DEF Shapes, SocketShape, OnlySocket
        <3>. QED  BY <3>2, <3>4, <3>5, <3>6 DEF Shapes
    <2>. QED  BY <2>3, <2>4
<1>7. ASSUME NEW c \in Calls, CheckDevice(c)
      PROVE  SocketTypes' /\ Shapes'
    <2>1. UNCHANGED <<session, socket, rooms, unsent, lost, wants, overtaken, ruled, heard, known, watching, calls>>
          /\ call[c].at = "device"
        BY <1>7 DEF CheckDevice
    <2>2. CASE EndCall(c)
        <3>1. call'[c] = NoCall /\ OnlyCall(c)
            BY <2>2, EndCallIs
        <3>. QED  BY <2>1, <3>1, NoCallIs DEF SocketTypes, Shapes, HandlerShape, SocketShape, OnlyCall
    <2>3. CASE ~EndCall(c)
        <3>1. /\ call'[c].op = call[c].op /\ call'[c].socket = call[c].socket
              /\ call'[c].room = call[c].room /\ call'[c].at = "join" /\ OnlyCall(c)
            BY <1>7, <2>3, CheckIs
        <3>2. call[c].op \in {"subscribe", "join"}
            BY <2>1, NoCallIs DEF Shapes, HandlerShape, SocketTypes, Handler
        <3>. QED  BY <2>1, <3>1, <3>2 DEF SocketTypes, Shapes, HandlerShape, SocketShape, OnlyCall
    <2>. QED  BY <2>2, <2>3
<1>8. ASSUME NEW c \in Calls, JoinRoom(c)
      PROVE  SocketTypes' /\ Shapes'
    <2>1. UNCHANGED <<session, socket, unsent, lost, wants, overtaken, ruled, heard, known, watching, calls>>
          /\ call[c].at = "join" /\ EndCall(c)
        BY <1>8 DEF JoinRoom
    <2>2. call'[c] = NoCall /\ OnlyCall(c)
        BY <2>1, EndCallIs
    <2>3. /\ call[c].op \in {"subscribe", "join"} /\ call[c].socket \in Sockets
          /\ socket[call[c].socket].on /\ call[c].room \in Devices \cup Users
        BY <2>1, NoCallIs DEF Shapes, HandlerShape, SocketTypes, Handler
    <2>4. /\ rooms' \in [Sockets -> SUBSET (Devices \cup Users)]
          /\ \A t \in Sockets \ {call[c].socket} : rooms'[t] = rooms[t]
        BY <1>8, <2>3 DEF JoinRoom, SocketTypes
    <2>5. SocketTypes'
        BY <2>1, <2>2, <2>4 DEF SocketTypes, OnlyCall
    <2>. QED  BY <2>1, <2>2, <2>3, <2>4, <2>5, NoCallIs DEF Shapes, HandlerShape, SocketShape, OnlyCall
<1>9. ASSUME NEW s \in Sockets, NEW d \in Devices, Unsubscribe(s, d)
      PROVE  SocketTypes' /\ Shapes'
    <2>1. UNCHANGED <<session, socket, call, unsent, lost, ruled, heard, known, watching, calls>>
          /\ socket[s].on
        BY <1>9 DEF Unsubscribe
    <2>2. /\ rooms' \in [Sockets -> SUBSET (Devices \cup Users)] /\ wants' \in [Sockets -> SUBSET Devices]
          /\ overtaken' \in [Sockets -> SUBSET Devices]
          /\ \A t \in Sockets \ {s} : rooms'[t] = rooms[t]
        BY <1>9 DEF Unsubscribe, Leave, SocketTypes
    <2>3. SocketTypes'
        BY <2>1, <2>2 DEF SocketTypes
    <2>. QED  BY <2>1, <2>2, <2>3 DEF Shapes, HandlerShape, SocketShape
<1>10. ASSUME NEW d \in Devices, BroadcastTelemetry(d)
       PROVE  SocketTypes' /\ Shapes'
    <2>1. UNCHANGED <<session, socket, rooms, call, unsent, lost, wants, overtaken, ruled, known, watching, calls>>
          /\ heard' \in [Sockets -> SUBSET Devices]
          /\ \A s \in Sockets : ~socket[s].on => heard'[s] = heard[s]
        BY <1>10 DEF BroadcastTelemetry, Hears, In, SocketTypes
    <2>. QED  BY <2>1 DEF SocketTypes, Shapes, HandlerShape, SocketShape
<1>11. ASSUME NEW a \in Rows, StoreAlert(a) \/ BroadcastAlert(a) \/ LoseBroadcast(a)
       PROVE  SocketTypes' /\ Shapes'
    <2>1. UNCHANGED <<session, socket, rooms, call, wants, overtaken, ruled, heard, watching, calls>>
          /\ unsent' \subseteq Announced /\ lost' \subseteq Announced /\ known' \in [Sockets -> SUBSET Rows]
        BY <1>11 DEF StoreAlert, BroadcastAlert, LoseBroadcast, SocketTypes
    <2>. QED  BY <2>1 DEF SocketTypes, Shapes, HandlerShape, SocketShape
<1>12. ASSUME NEW s \in Sockets, ShowAlerts(s)
       PROVE  SocketTypes' /\ Shapes'
    <2>1. ListAlerts(UserOf[s], FALSE) \in SUBSET Rows
        BY DEF ListAlerts, Of, ReaderInv, ReaderTypeOK
    <2>2. UNCHANGED <<session, socket, rooms, call, unsent, lost, wants, overtaken, ruled, heard, calls>>
          /\ known' \in [Sockets -> SUBSET Rows] /\ socket[s].on
          /\ watching' \subseteq watching \cup {s}
        BY <1>12, <2>1 DEF ShowAlerts, SocketTypes
    <2>. QED  BY <2>2 DEF SocketTypes, Shapes, HandlerShape, SocketShape
<1>13. ASSUME Around \/ UNCHANGED socketVars \/ \E u \in Users : Session(u)
       PROVE  SocketTypes' /\ Shapes'
    <2>1. UNCHANGED <<socket, rooms, call, unsent, lost, wants, overtaken, heard, known, watching, calls>>
          /\ session' \subseteq Users /\ ruled' \subseteq Sockets
        BY <1>13 DEF Around, socketVars, Session, SocketTypes
    <2>. QED  BY <2>1 DEF SocketTypes, Shapes, HandlerShape, SocketShape
<1>. QED
    BY <1>1, <1>2, <1>3, <1>4, <1>5, <1>6, <1>7, <1>8, <1>9, <1>10, <1>11, <1>12, <1>13
    DEF Next, SocketStep, viewerVars

(* The type invariant of the two modules, and what a request, a handler and a
   socket that is gone are. *)
LEMMA ViewerInvHolds == Spec => []ViewerInv
<1>1. Init => SocketTypes /\ Shapes
    <2> SUFFICES ASSUME Init PROVE SocketTypes /\ Shapes
        OBVIOUS
    <2>1. SocketTypes
        BY NoCallIs, SocketsAssumption DEF Init, SocketTypes
    <2>2. \A c \in Calls : HandlerShape(call[c])
        BY NoCallIs DEF Init, HandlerShape
    <2>3. \A s \in Sockets : SocketShape(s)
        BY DEF Init, SocketShape
    <2>. QED  BY <2>1, <2>2, <2>3 DEF Shapes
<1>2. ReaderInv /\ ReaderInv' /\ SocketTypes /\ Shapes /\ [Next]_viewerVars
         => SocketTypes' /\ Shapes'
    BY ViewerTypesStep DEF ViewerInv
<1>. QED  BY <1>1, <1>2, ReaderInvHolds, PTL DEF Spec, ViewerInv

(* Requests, sockets and handlers keep their types in every behaviour of the
   requests, the clients and the changes around them. *)
THEOREM TypeCorrect == Spec => []TypeOK
<1>1. ViewerInv => TypeOK
    BY DEF ViewerInv, ReaderInv, SocketTypes, TypeOK
<1>. QED  BY <1>1, ViewerInvHolds, PTL

LEMMA UsersAreNoDevices == Users \cap Devices = {} /\ NoOne \notin Users
BY RowsAssumption DEF Devices

-----------------------------------------------------------------------------
(* The last word of a client. *)
LEMMA LastWordsStep ==
    ASSUME ViewerInv, LastWords, [Next]_viewerVars
    PROVE  LastWords'
<1> USE DEF ViewerInv
<1>1. CASE UNCHANGED <<rooms, wants, overtaken, call>>
    BY <1>1 DEF LastWords, LastWordHolds
<1>2. ASSUME NEW c \in Calls, OnlyCall(c), UNCHANGED <<rooms, wants, overtaken>>,
             \/ call'[c].op # "subscribe"
             \/ /\ call'[c].op = call[c].op /\ call'[c].socket = call[c].socket
                /\ call'[c].room = call[c].room
      PROVE  LastWords'
    BY <1>2 DEF LastWords, LastWordHolds, OnlyCall
<1>3. ASSUME NEW s \in Sockets, NEW c \in Calls, Connect(s, c) PROVE LastWords'
    BY <1>2, <1>3, ConnectIs DEF Connect
<1>4. ASSUME NEW c \in Calls, EarlyLookup(c) PROVE LastWords'
    BY <1>2, <1>4, EndCallIs, NoCallIs DEF EarlyLookup
<1>5. ASSUME NEW s \in Sockets, Disconnect(s) PROVE LastWords'
    <2>1. LastWordHolds'
        BY <1>5, DisconnectIs DEF LastWords, LastWordHolds
    <2>2. ASSUME NEW c \in Calls, call'[c].op = "subscribe"
          PROVE  call'[c].room \in wants'[call'[c].socket] \cup overtaken'[call'[c].socket]
        <3>1. call'[c] = call[c] /\ call[c].socket # s
            BY <1>5, <2>2, DisconnectIs, NoCallIs
        <3>2. call[c].socket \in Sockets
            BY <2>2, <3>1 DEF Shapes, HandlerShape
        <3>. QED  BY <1>5, <2>2, <3>1, <3>2, DisconnectIs DEF LastWords
    <2>. QED  BY <2>1, <2>2 DEF LastWords
<1>6. ASSUME NEW s \in Sockets, NEW d \in Devices, NEW c \in Calls, Subscribe(s, d, c)
      PROVE  LastWords'
    <2>1. Guarded(s, "device") \in {"guard", "device"}
        BY DEF Guarded
    <2>2. /\ call'[c].socket = s /\ call'[c].room = d /\ OnlyCall(c)
          /\ UNCHANGED <<rooms, overtaken>>
        BY <1>6, <2>1, StartIs DEF Subscribe
    <2>3. /\ d \in wants'[s] /\ \A t \in Sockets : wants[t] \subseteq wants'[t]
        BY <1>6 DEF Subscribe, SocketTypes
    <2>4. \A x \in Calls : call[x].op = "subscribe" => call[x].socket \in Sockets
        BY DEF Shapes, HandlerShape
    <2>5. LastWordHolds'
        BY <2>2, <2>3 DEF LastWords, LastWordHolds
    <2>. QED  BY <2>2, <2>3, <2>4, <2>5 DEF LastWords, OnlyCall
<1>7. ASSUME NEW s \in Sockets, NEW u \in Users, NEW c \in Calls, JoinUser(s, u, c)
      PROVE  LastWords'
    <2>1. Guarded(s, "join") \in {"guard", "join"}
        BY DEF Guarded
    <2>2. call'[c].op = "join" /\ OnlyCall(c) /\ UNCHANGED <<rooms, wants, overtaken>>
        BY <1>7, <2>1, StartIs DEF JoinUser
    <2>. QED  BY <1>2, <2>2
<1>8. ASSUME NEW c \in Calls, GuardLookup(c) PROVE LastWords'
    <2>1. call[c].socket \in Sockets
        BY <1>8, NoCallIs DEF GuardLookup, Shapes, HandlerShape
    <2>2. UNCHANGED <<rooms, wants, overtaken>>
        BY <1>8 DEF GuardLookup
    <2>. QED  BY <1>2, <1>8, <2>1, <2>2, GuardIs, EndCallIs, NoCallIs
<1>9. ASSUME NEW c \in Calls, CheckDevice(c) PROVE LastWords'
    <2>1. UNCHANGED <<rooms, wants, overtaken>>
        BY <1>9 DEF CheckDevice
    <2>. QED  BY <1>2, <1>9, <2>1, CheckIs, EndCallIs, NoCallIs
<1>10. ASSUME NEW c \in Calls, JoinRoom(c) PROVE LastWords'
    <2>1. call'[c] = NoCall /\ OnlyCall(c) /\ UNCHANGED <<wants, overtaken>>
        BY <1>10, EndCallIs DEF JoinRoom
    <2>2. /\ call[c].op \in {"subscribe", "join"} /\ call[c].socket \in Sockets
          /\ call[c].op = "join" => call[c].room \in Users
        BY <1>10, NoCallIs DEF JoinRoom, Shapes, HandlerShape, SocketTypes, Handler
    <2>3. \A t \in Sockets : rooms'[t] \subseteq
              rooms[t] \cup (IF t = call[c].socket THEN {call[c].room} ELSE {})
        BY <1>10 DEF JoinRoom, SocketTypes
    <2>4. LastWordHolds'
        BY <2>1, <2>2, <2>3, UsersAreNoDevices DEF LastWords, LastWordHolds
    <2>. QED  BY <2>1, <2>4, NoCallIs DEF LastWords, OnlyCall
<1>11. ASSUME NEW s \in Sockets, NEW d \in Devices, Unsubscribe(s, d) PROVE LastWords'
    <2>1. /\ rooms'[s] = rooms[s] \ {d} /\ wants'[s] = wants[s] \ {d}
          /\ overtaken'[s] = IF Waiting(s, "subscribe", d) THEN overtaken[s] \cup {d}
                             ELSE overtaken[s] \ {d}
          /\ \A t \in Sockets \ {s} : /\ rooms'[t] = rooms[t] /\ wants'[t] = wants[t]
                                      /\ overtaken'[t] = overtaken[t]
          /\ call' = call
        BY <1>11 DEF Unsubscribe, Leave, SocketTypes
    <2>2. LastWordHolds'
        BY <2>1 DEF LastWords, LastWordHolds
    <2>3. ASSUME NEW c \in Calls, call[c].op = "subscribe"
          PROVE  call[c].room \in wants'[call[c].socket] \cup overtaken'[call[c].socket]
        <3>1. call[c].socket \in Sockets
            BY <2>3 DEF Shapes, HandlerShape
        <3>2. call[c].room = d /\ call[c].socket = s => Waiting(s, "subscribe", d)
            BY <2>3 DEF Waiting
        <3>. QED  BY <2>1, <2>3, <3>1, <3>2 DEF LastWords
    <2>. QED  BY <2>1, <2>2, <2>3 DEF LastWords
<1>12. CASE \/ \E s \in Sockets : ShowAlerts(s)
            \/ \E d \in Devices : BroadcastTelemetry(d)
            \/ \E a \in Rows : StoreAlert(a) \/ BroadcastAlert(a) \/ LoseBroadcast(a)
            \/ Around \/ UNCHANGED socketVars \/ \E u \in Users : Session(u)
    BY <1>1, <1>12 DEF ShowAlerts, BroadcastTelemetry, StoreAlert, BroadcastAlert, LoseBroadcast,
       Around, socketVars, Session
<1>. QED
    BY <1>3, <1>4, <1>5, <1>6, <1>7, <1>8, <1>9, <1>10, <1>11, <1>12
    DEF Next, SocketStep, viewerVars

(* LastWordHolds: a client that unsubscribed is not in the room, unless its
   unsubscribe overtook a subscribe that was still being checked; for any
   number of handlers waiting at a time (gnss.gateway.ts:62-66 and 82-87). *)
THEOREM LastWordIsKept == Spec => []LastWordHolds
<1>1. Init => LastWords
    BY NoCallIs DEF Init, LastWords, LastWordHolds
<1>2. ViewerInv /\ LastWords /\ [Next]_viewerVars => LastWords'
    BY LastWordsStep
<1>3. LastWords => LastWordHolds
    BY DEF LastWords
<1>. QED  BY <1>1, <1>2, <1>3, ViewerInvHolds, PTL DEF Spec

-----------------------------------------------------------------------------
(* Whose events reach a socket. *)
LEMMA OwnUserStep ==
    ASSUME ViewerInv, ReaderInv', OwnUser, [Next]_viewerVars
    PROVE  OwnUser'
<1> USE DEF ViewerInv
<1>1. \A s \in Sockets : UserOf[s] \in Users /\ UserOf[s] # NoOne
    BY SocketsAssumption, UsersAreNoDevices
<1>2. \A c \in Calls : call[c].op # "none" => call[c].socket \in Sockets /\ socket[call[c].socket].on
    BY DEF Shapes, HandlerShape
\* Of a step that ends a handler or leaves it, and leaves rooms and events.
<1>3. ASSUME UNCHANGED <<socket, call, admin, rooms, heard>>, ruled \subseteq ruled'
      PROVE  OwnUser'
    BY <1>2, <1>3 DEF OwnUser, OnlyItsUser, HearsOnlyItsOwn
<1>4. ASSUME NEW c \in Calls, EndCall(c), UNCHANGED <<socket, admin, rooms, heard, ruled>>
      PROVE  OwnUser'
    <2>1. call'[c].op = "none" /\ OnlyCall(c)
        BY <1>4, EndCallIs, NoCallIs
    <2>. QED  BY <1>2, <1>4, <2>1 DEF OwnUser, OnlyItsUser, HearsOnlyItsOwn, OnlyCall
<1>5. ASSUME NEW s \in Sockets, NEW c \in Calls, Connect(s, c) PROVE OwnUser'
    <2>1. /\ UNCHANGED <<rooms, heard, admin>>
          /\ ruled' = IF UserOf[s] \in admin THEN ruled \cup {s} ELSE ruled
        BY <1>5 DEF Connect, readerVars
    <2>2. /\ socket'[s].on /\ socket'[s].as = Unknown /\ OnlySocket(s) /\ OnlyCall(c)
          /\ call'[c].op = "connect" /\ call'[c].as = Unknown /\ call'[c].socket = s
        BY <1>5, ConnectIs, NoCallIs DEF Shapes, SocketShape
    <2>3. OnlyItsUser(s, Unknown)
        BY NoCallIs DEF OnlyItsUser
    <2>4. \A t \in Sockets : socket'[t].on /\ UserOf[t] \in admin => t \in ruled'
        BY <2>1, <2>2 DEF OwnUser, OnlySocket
    <2>5. \A t \in Sockets \ ruled' : OnlyItsUser(t, socket'[t].as)
        BY <2>1, <2>2, <2>3 DEF OwnUser, OnlySocket
    <2>6. \A x \in Calls : call'[x].op # "none" /\ call'[x].socket \notin ruled' =>
              /\ OnlyItsUser(call'[x].socket, call'[x].as)
              /\ call'[x].op = "subscribe" /\ call'[x].at = "join" =>
                    MakerOf[call'[x].room] = UserOf[call'[x].socket]
        BY <2>1, <2>2, <2>3 DEF OwnUser, OnlyCall
    <2>7. HearsOnlyItsOwn'
        BY <2>1 DEF OwnUser, HearsOnlyItsOwn
    <2>. QED  BY <2>1, <2>4, <2>5, <2>6, <2>7 DEF OwnUser, OnlyItsUser
<1>6. ASSUME NEW c \in Calls, EarlyLookup(c) PROVE OwnUser'
    <2> DEFINE s == call[c].socket
    <2>1. UNCHANGED <<rooms, heard, admin, ruled>> /\ EndCall(c)
        BY <1>6 DEF EarlyLookup, readerVars
    <2>2. CASE socket' = socket
        BY <1>4, <2>1, <2>2
    <2>3. CASE socket' = [socket EXCEPT ![s].as = Looked(s)]
        <3>1. s \in Sockets /\ socket[s].on
            BY <1>6, NoCallIs DEF EarlyLookup, Shapes, HandlerShape
        <3>2. socket'[s].on = socket[s].on /\ socket'[s].as = Looked(s) /\ OnlySocket(s)
            BY <2>3, <3>1, LookupIs
        <3>3. s \notin ruled => OnlyItsUser(s, Looked(s))
            BY <3>1, LookedIs DEF OwnUser, OnlyItsUser
        <3>4. call'[c].op = "none" /\ OnlyCall(c)
            BY <2>1, EndCallIs, NoCallIs
        <3>5. \A t \in Sockets : socket'[t].on /\ UserOf[t] \in admin => t \in ruled
            BY <3>1, <3>2 DEF OwnUser, OnlySocket
        <3>6. \A t \in Sockets \ ruled : OnlyItsUser(t, socket'[t].as)
            BY <3>1, <3>2, <3>3 DEF OwnUser, OnlySocket
        <3>7. \A x \in Calls : call'[x].op # "none" => call'[x] = call[x]
            BY <3>4 DEF OnlyCall
        <3>. QED  BY <2>1, <3>5, <3>6, <3>7 DEF OwnUser, OnlyItsUser, HearsOnlyItsOwn
    <2>. QED  BY <1>6, <2>2, <2>3 DEF EarlyLookup
<1>7. ASSUME NEW s \in Sockets, Disconnect(s) PROVE OwnUser'
    <2>1. admin' = admin /\ ruled' = ruled \ {s}
        BY <1>7 DEF Disconnect, readerVars
    <2>2. /\ socket'[s] = Gone /\ OnlySocket(s) /\ rooms'[s] = {} /\ heard'[s] = {}
          /\ \A t \in Sockets \ {s} : rooms'[t] = rooms[t] /\ heard'[t] = heard[t]
          /\ \A x \in Calls : call'[x] = IF call[x].socket = s THEN NoCall ELSE call[x]
        BY <1>7, DisconnectIs
    <2>3. OnlyItsUser(s, Gone.as)
        BY NoCallIs DEF OnlyItsUser
    <2>4. \A t \in Sockets : socket'[t].on /\ UserOf[t] \in admin => t \in ruled'
        BY <2>1, <2>2, NoCallIs DEF OwnUser, OnlySocket
    <2>5. \A t \in Sockets \ ruled' : OnlyItsUser(t, socket'[t].as)
        BY <2>1, <2>2, <2>3 DEF OwnUser, OnlySocket
    <2>6. \A x \in Calls : call'[x].op # "none" => call'[x] = call[x] /\ call[x].socket # s
        BY <2>2, NoCallIs
    <2>7. HearsOnlyItsOwn'
        BY <2>1, <2>2 DEF OwnUser, HearsOnlyItsOwn
    <2>. QED  BY <1>2, <2>1, <2>4, <2>5, <2>6, <2>7 DEF OwnUser, OnlyItsUser
\* Of a handler that goes on, for a socket whose user is known or will be.
<1>8. ASSUME NEW c \in Calls, OnlyCall(c), call'[c].socket \in Sockets,
             UNCHANGED <<socket, rooms, heard, admin, ruled>>,
             call'[c].socket \notin ruled =>
                /\ OnlyItsUser(call'[c].socket, call'[c].as)
                /\ call'[c].op = "subscribe" /\ call'[c].at = "join" =>
                      MakerOf[call'[c].room] = UserOf[call'[c].socket]
      PROVE  OwnUser'
    BY <1>8 DEF OwnUser, OnlyItsUser, HearsOnlyItsOwn, OnlyCall
<1>9. ASSUME NEW s \in Sockets, NEW d \in Devices, NEW c \in Calls, Subscribe(s, d, c)
      PROVE  OwnUser'
    <2>1. Guarded(s, "device") \in {"guard", "device"}
        BY DEF Guarded
    <2>2. UNCHANGED <<socket, rooms, heard, admin, ruled>>
        BY <1>9 DEF Subscribe, readerVars
    <2>3. /\ call'[c].socket = s /\ call'[c].as = socket[s].as /\ call'[c].at \in {"guard", "device"}
          /\ OnlyCall(c)
        BY <1>9, <2>1, StartIs DEF Subscribe
    <2>. QED  BY <1>8, <2>2, <2>3 DEF OwnUser
<1>10. ASSUME NEW s \in Sockets, NEW u \in Users, NEW c \in Calls, JoinUser(s, u, c)
       PROVE  OwnUser'
    <2>1. Guarded(s, "join") \in {"guard", "join"}
        BY DEF Guarded
    <2>2. UNCHANGED <<socket, rooms, heard, admin, ruled>>
        BY <1>10 DEF JoinUser, readerVars
    <2>3. /\ call'[c].socket = s /\ call'[c].as = socket[s].as /\ call'[c].op = "join"
          /\ OnlyCall(c)
        BY <1>10, <2>1, StartIs DEF JoinUser
    <2>. QED  BY <1>8, <2>2, <2>3 DEF OwnUser
<1>11. ASSUME NEW c \in Calls, GuardLookup(c) PROVE OwnUser'
    <2>1. UNCHANGED <<rooms, heard, admin, ruled>>
        BY <1>11 DEF GuardLookup, readerVars
    <2>2. PICK s \in Sockets : s = call[c].socket /\ socket[s].on
        BY <1>11, NoCallIs DEF GuardLookup, Shapes, HandlerShape
    <2>3. CASE EndCall(c) /\ socket' = socket
        BY <1>4, <2>1, <2>3
    <2>4. CASE ~(EndCall(c) /\ socket' = socket)
        <3>1. /\ socket'[s].on = socket[s].on /\ socket'[s].as = Looked(s) /\ OnlySocket(s)
              /\ call'[c].op = call[c].op /\ call'[c].socket = s /\ call'[c].as = Looked(s)
              /\ call'[c].at = (IF call[c].op = "subscribe" THEN "device" ELSE "join")
              /\ OnlyCall(c)
            BY <1>11, <2>2, <2>4, GuardIs
        <3>2. s \notin ruled => OnlyItsUser(s, Looked(s))
            BY <2>2, LookedIs DEF OwnUser, OnlyItsUser
        <3>3. \A t \in Sockets : socket'[t].on /\ UserOf[t] \in admin => t \in ruled
            BY <2>2, <3>1 DEF OwnUser, OnlySocket
        <3>4. \A t \in Sockets \ ruled : OnlyItsUser(t, socket'[t].as)
            BY <3>1, <3>2 DEF OwnUser, OnlySocket
        <3>5. \A x \in Calls : call'[x].op # "none" /\ call'[x].socket \notin ruled =>
                  /\ OnlyItsUser(call'[x].socket, call'[x].as)
                  /\ call'[x].op = "subscribe" /\ call'[x].at = "join" =>
                        MakerOf[call'[x].room] = UserOf[call'[x].socket]
            BY <3>1, <3>2 DEF OwnUser, OnlyCall
        <3>6. HearsOnlyItsOwn'
            BY <2>1 DEF OwnUser, HearsOnlyItsOwn
        <3>. QED  BY <2>1, <3>3, <3>4, <3>5, <3>6 DEF OwnUser, OnlyItsUser
    <2>. QED  BY <2>3, <2>4
<1>12. ASSUME NEW c \in Calls, CheckDevice(c) PROVE OwnUser'
    <2>1. UNCHANGED <<socket, rooms, heard, admin, ruled>>
        BY <1>12 DEF CheckDevice, readerVars
    <2>2. PICK s \in Sockets : s = call[c].socket /\ socket[s].on /\ call[c].op = "subscribe"
        BY <1>12, NoCallIs DEF CheckDevice, Shapes, HandlerShape, SocketTypes, Handler
    <2>3. CASE EndCall(c)
        BY <1>4, <2>1, <2>3
    <2>4. CASE ~EndCall(c)
        <3>1. /\ OwnsDevice(call[c].as, call[c].room)
              /\ call'[c].op = call[c].op /\ call'[c].socket = s /\ call'[c].room = call[c].room
              /\ call'[c].as = call[c].as /\ OnlyCall(c)
            BY <1>12, <2>2, <2>4, CheckIs
        <3>2. s \notin ruled => OnlyItsUser(s, call[c].as)
            BY <2>2 DEF OwnUser
        <3>3. call[c].room \in Devices
            BY <2>2 DEF Shapes, HandlerShape
        <3>4. call[c].as.admin \/ MakerOf[call[c].room] = call[c].as.user
            BY <3>1 DEF OwnsDevice, FindDevice, Judge
        <3>5. MakerOf[call[c].room] # NoOne
            BY <3>3, RowsAssumption, UsersAreNoDevices DEF Devices
        <3>6. s \notin ruled => MakerOf[call[c].room] = UserOf[s]
            BY <3>2, <3>4, <3>5 DEF OnlyItsUser
        <3>. QED  BY <1>8, <2>1, <2>2, <3>1, <3>2, <3>6
    <2>. QED  BY <2>3, <2>4
<1>13. ASSUME NEW c \in Calls, JoinRoom(c) PROVE OwnUser'
    <2>1. UNCHANGED <<socket, heard, admin, ruled>> /\ call'[c] = NoCall /\ OnlyCall(c)
        BY <1>13, EndCallIs DEF JoinRoom, readerVars
    <2>2. PICK s \in Sockets : s = call[c].socket /\ call[c].op \in {"subscribe", "join"}
                               /\ call[c].at = "join"
        BY <1>13, NoCallIs DEF JoinRoom, Shapes, HandlerShape, SocketTypes, Handler
    <2>3. /\ \A t \in Sockets \ {s} : rooms'[t] = rooms[t]
          /\ rooms'[s] = IF Admits(c) THEN rooms[s] \cup {call[c].room} ELSE rooms[s]
        BY <1>13, <2>2 DEF JoinRoom, SocketTypes
    <2>4. s \notin ruled => OnlyItsUser(s, call[c].as)
        BY <2>2 DEF OwnUser
    <2>5. CASE call[c].op = "subscribe"
        <3>1. call[c].room \in Devices /\ (s \notin ruled => MakerOf[call[c].room] = UserOf[s])
            BY <2>2, <2>5 DEF OwnUser, Shapes, HandlerShape
        <3>2. HearsOnlyItsOwn'
            BY <2>1, <2>3, <3>1, UsersAreNoDevices DEF OwnUser, HearsOnlyItsOwn
        <3>. QED  BY <2>1, <3>2, NoCallIs DEF OwnUser, OnlyItsUser, OnlyCall
    <2>6. CASE call[c].op = "join"
        <3>1. call[c].room \in Users
            BY <2>6 DEF Shapes, HandlerShape
        <3>2. s \notin ruled /\ Admits(c) => call[c].room = UserOf[s]
            BY <2>4, <2>6, <3>1, UsersAreNoDevices DEF Admits, OnlyItsUser
        <3>3. HearsOnlyItsOwn'
            BY <2>1, <2>3, <3>1, <3>2, UsersAreNoDevices DEF OwnUser, HearsOnlyItsOwn
        <3>. QED  BY <2>1, <3>3, NoCallIs DEF OwnUser, OnlyItsUser, OnlyCall
    <2>. QED  BY <2>2, <2>5, <2>6
<1>14. ASSUME NEW s \in Sockets, NEW d \in Devices, Unsubscribe(s, d) PROVE OwnUser'
    <2>1. UNCHANGED <<socket, call, heard, admin, ruled>>
          /\ \A t \in Sockets : rooms'[t] \subseteq rooms[t]
        BY <1>14 DEF Unsubscribe, Leave, SocketTypes, readerVars
    <2>2. HearsOnlyItsOwn'
        BY <2>1 DEF OwnUser, HearsOnlyItsOwn
    <2>. QED  BY <2>1, <2>2 DEF OwnUser, OnlyItsUser
<1>15. ASSUME NEW d \in Devices, BroadcastTelemetry(d) PROVE OwnUser'
    <2>1. UNCHANGED <<socket, call, rooms, admin, ruled>>
          /\ \A s \in Sockets : heard'[s] \subseteq heard[s] \cup (rooms[s] \cap Devices)
        BY <1>15 DEF BroadcastTelemetry, Hears, In, readerVars
    <2>2. HearsOnlyItsOwn'
        BY <2>1 DEF OwnUser, HearsOnlyItsOwn
    <2>. QED  BY <2>1, <2>2 DEF OwnUser, OnlyItsUser
<1>16. ASSUME Around PROVE OwnUser'
    <2>1. UNCHANGED <<socket, call, rooms, heard>>
          /\ ruled' = ruled \cup {s \in Sockets : socket[s].on /\ UserOf[s] \in admin'}
        BY <1>16 DEF Around
    <2>2. \A s \in Sockets : socket'[s].on /\ UserOf[s] \in admin' => s \in ruled'
        BY <2>1
    <2>3. HearsOnlyItsOwn'
        BY <2>1 DEF OwnUser, HearsOnlyItsOwn
    <2>. QED  BY <2>1, <2>2, <2>3 DEF OwnUser, OnlyItsUser
<1>17. CASE \/ \E s \in Sockets : ShowAlerts(s)
            \/ \E a \in Rows : StoreAlert(a) \/ BroadcastAlert(a) \/ LoseBroadcast(a)
            \/ UNCHANGED viewerVars \/ \E u \in Users : Session(u)
    BY <1>3, <1>17 DEF ShowAlerts, StoreAlert, BroadcastAlert, LoseBroadcast, viewerVars, readerVars,
       socketVars, Session
<1>18. CASE ReaderStep /\ UNCHANGED socketVars
    <2>1. admin' = admin
        <3>1. PICK q \in Readings : ReadsAs(q)
            BY <1>18 DEF ReaderStep, ReadsAs
        <3>. QED  BY <3>1, ReadShapeStep DEF ReaderInv
    <2>. QED  BY <1>3, <1>18, <2>1 DEF socketVars
<1>. QED
    BY <1>5, <1>6, <1>7, <1>9, <1>10, <1>11, <1>12, <1>13, <1>14, <1>15, <1>16, <1>17, <1>18
    DEF Next, SocketStep

(* HearsOnlyItsOwn: a socket is in the rooms, and hears of the devices, of its
   own user only, unless the user was an administrator since it connected;
   however the lookups of its handlers interleave with changes of role
   (gnss.gateway.ts:57-66, ws-auth.guard.ts:33-36). *)
THEOREM OwnRoomsOnly == Spec => []HearsOnlyItsOwn
<1>1. Init => OwnUser
    BY NoCallIs DEF Init, OwnUser, HearsOnlyItsOwn, OnlyItsUser
<1>2. ViewerInv /\ ReaderInv' /\ OwnUser /\ [Next]_viewerVars => OwnUser'
    BY OwnUserStep
<1>3. OwnUser => HearsOnlyItsOwn
    BY DEF OwnUser
<1>. QED  BY <1>1, <1>2, <1>3, ViewerInvHolds, ReaderInvHolds, PTL DEF Spec

-----------------------------------------------------------------------------
(* The alerts a page knows. *)
LEMMA WatchedStep ==
    ASSUME ViewerInv, Watched, [Next]_viewerVars
    PROVE  Watched'
<1> USE DEF ViewerInv
<1>1. \A s \in Sockets : UserOf[s] \in Users
    BY SocketsAssumption
\* Of a step that stores no alert, forgets none, and takes no user out of a room.
<1>2. ASSUME \A a \in Of("alert")' : a \in Of("alert"),
             \A a \in unsent \cup lost : a \in unsent' \cup lost',
             \A s \in watching' : /\ s \in watching /\ UserOf[s] \in rooms'[s]
                                  /\ known[s] \subseteq known'[s]
      PROVE  Watched'
    BY <1>2 DEF Watched, NoAlertIsMissed, ListAlerts, Owner
<1>3. CASE UNCHANGED <<rows, unsent, lost, rooms, known, watching>>
    BY <1>2, <1>3 DEF Of, Watched
<1>4. CASE ReaderStep /\ UNCHANGED socketVars
    <2>1. PICK q \in Readings : ReadsAs(q)
        BY <1>4 DEF ReaderStep, ReadsAs
    <2>2. rows' = rows
        BY <2>1, ReadShapeStep DEF ReaderInv
    <2>. QED  BY <1>3, <1>4, <2>2 DEF socketVars
<1>5. CASE Around
    <2>1. \A a \in Of("alert")' : a \in Of("alert")
        BY <1>5 DEF Around, Surroundings, Add, Remove, Report, SetRole, RenewSession, Of
    <2>2. UNCHANGED <<unsent, lost, rooms, known, watching>>
        BY <1>5 DEF Around
    <2>. QED  BY <1>2, <2>1, <2>2 DEF Watched
<1>6. ASSUME NEW s \in Sockets, Disconnect(s) PROVE Watched'
    <2>1. /\ UNCHANGED <<rows, unsent, lost>> /\ watching' = watching \ {s}
          /\ \A t \in Sockets \ {s} : rooms'[t] = rooms[t] /\ known'[t] = known[t]
        BY <1>6, DisconnectIs DEF Disconnect, readerVars
    <2>2. watching \subseteq Sockets
        BY DEF SocketTypes
    <2>. QED  BY <1>2, <2>1, <2>2 DEF Watched, Of
<1>7. ASSUME NEW c \in Calls, JoinRoom(c) PROVE Watched'
    <2>1. UNCHANGED <<rows, unsent, lost, known, watching>> /\ watching \subseteq Sockets
        BY <1>7 DEF JoinRoom, readerVars, SocketTypes
    <2>2. \A s \in Sockets : rooms[s] \subseteq rooms'[s]
        BY <1>7 DEF JoinRoom, SocketTypes
    <2>. QED  BY <1>2, <2>1, <2>2 DEF Watched, Of
<1>8. ASSUME NEW s \in Sockets, NEW d \in Devices, Unsubscribe(s, d) PROVE Watched'
    <2>1. UNCHANGED <<rows, unsent, lost, known, watching>> /\ watching \subseteq Sockets
        BY <1>8 DEF Unsubscribe, readerVars, SocketTypes
    <2>2. \A t \in Sockets : rooms[t] \ {d} \subseteq rooms'[t]
        BY <1>8 DEF Unsubscribe, Leave, SocketTypes
    <2>. QED  BY <1>1, <1>2, <2>1, <2>2, UsersAreNoDevices DEF Watched, Of
<1>9. ASSUME NEW a \in Rows, StoreAlert(a) PROVE Watched'
    <2>1. /\ UNCHANGED <<rooms, lost, known, watching>> /\ rows' = rows \cup {a}
          /\ unsent' = IF a \in Announced THEN unsent \cup {a} ELSE unsent
        BY <1>9 DEF StoreAlert
    <2>. QED  BY <2>1 DEF Watched, NoAlertIsMissed, ListAlerts, Of, Owner
<1>10. ASSUME NEW a \in Rows, BroadcastAlert(a) PROVE Watched'
    <2>1. /\ UNCHANGED <<rows, rooms, lost, watching>> /\ unsent' = unsent \ {a}
          /\ \A s \in Sockets : known'[s] = IF s \in Audience(a) THEN known[s] \cup {a} ELSE known[s]
        BY <1>10 DEF BroadcastAlert, readerVars
    <2>2. ASSUME NEW s \in watching, a \in ListAlerts(UserOf[s], FALSE)
          PROVE  a \in known'[s]
        <3>1. s \in Sockets /\ socket[s].on
            BY DEF Shapes, SocketShape, SocketTypes
        <3>2. s \in Audience(a)
            BY <2>2, <3>1 DEF Audience, In, ListAlerts, Owner, Watched
        <3>. QED  BY <2>1, <3>1, <3>2
    <2>3. watching \subseteq Sockets
        BY DEF SocketTypes
    <2>4. \A s \in watching : UserOf[s] \in rooms'[s]
        BY <2>1 DEF Watched
    <2>5. ASSUME NEW s \in watching, NEW b \in ListAlerts(UserOf[s], FALSE)
          PROVE  b \in known'[s] \/ b \notin Announced \/ b \in unsent' \cup lost'
        <3>1. CASE b = a
            BY <2>2, <3>1
        <3>2. CASE b # a
            BY <2>1, <2>3, <3>2 DEF Watched, NoAlertIsMissed
        <3>. QED  BY <3>1, <3>2
    <2>6. \A s \in Sockets : \A b \in ListAlerts(UserOf[s], FALSE)' :
              b \in ListAlerts(UserOf[s], FALSE)
        BY <2>1 DEF ListAlerts, Of, Owner
    <2>. QED  BY <2>1, <2>3, <2>4, <2>5, <2>6 DEF Watched, NoAlertIsMissed
<1>11. ASSUME NEW a \in Rows, LoseBroadcast(a) PROVE Watched'
    BY <1>2, <1>11 DEF LoseBroadcast, readerVars, Watched, Of
<1>12. ASSUME NEW s \in Sockets, ShowAlerts(s) PROVE Watched'
    <2>1. /\ UNCHANGED <<rows, rooms, unsent, lost>>
          /\ known'[s] = known[s] \cup ListAlerts(UserOf[s], FALSE)
          /\ \A t \in Sockets \ {s} : known'[t] = known[t]
          /\ watching' = IF UserOf[s] \in rooms[s] THEN watching \cup {s} ELSE watching
          /\ watching \subseteq Sockets
        BY <1>12 DEF ShowAlerts, readerVars, SocketTypes
    <2>2. \A t \in Sockets : \A b \in ListAlerts(UserOf[t], FALSE)' :
              b \in ListAlerts(UserOf[t], FALSE)
        BY <2>1 DEF ListAlerts, Of, Owner
    <2>. QED  BY <2>1, <2>2 DEF Watched, NoAlertIsMissed
<1>13. CASE \/ \E s \in Sockets, c \in Calls :
                  \/ Connect(s, c)
                  \/ \E d \in Devices : Subscribe(s, d, c)
                  \/ \E u \in Users : JoinUser(s, u, c)
            \/ \E c \in Calls : EarlyLookup(c) \/ GuardLookup(c) \/ CheckDevice(c)
            \/ \E d \in Devices : BroadcastTelemetry(d)
            \/ \E u \in Users : Session(u)
            \/ UNCHANGED viewerVars
    BY <1>3, <1>13 DEF Connect, Subscribe, JoinUser, EarlyLookup, GuardLookup, CheckDevice,
       BroadcastTelemetry, Session, viewerVars, readerVars, socketVars
<1>. QED
    BY <1>4, <1>5, <1>6, <1>7, <1>8, <1>9, <1>10, <1>11, <1>12, <1>13 DEF Next, SocketStep

(* NoAlertIsMissed: a page that joined its room and then listed its alerts
   knows every announced alert of its user's devices whose broadcast is neither
   to come nor lost (alerts.consumer.ts:127-181). *)
THEOREM NoneIsMissed == Spec => []NoAlertIsMissed
<1>1. Init => Watched
    BY DEF Init, Watched, NoAlertIsMissed
<1>2. ViewerInv /\ Watched /\ [Next]_viewerVars => Watched'
    BY WatchedStep
<1>3. Watched => NoAlertIsMissed
    BY DEF Watched
<1>. QED  BY <1>1, <1>2, <1>3, ViewerInvHolds, PTL DEF Spec
=============================================================================
