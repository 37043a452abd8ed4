------------------------------ MODULE Viewers ------------------------------
(***************************************************************************)
(* GnssGateway: sockets, the rooms they are in and what reaches them, while *)
(* the rows of Readers change.  A handler that awaits a query is a call in  *)
(* progress; handlers of one socket may overlap each other and the early    *)
(* authentication of handleConnection, which Nest does not wait for.        *)
(***************************************************************************)
EXTENDS Readers

CONSTANTS
    Sockets,
    UserOf,       \* UserOf[s]: the user whose session token s presents
    Calls,        \* handlers that may be waiting at a time
    Announced,    \* alerts that arrive over Kafka; the others are of server checks
    MaxCalls,     \* bound: messages of clients that wait, and connections
    MaxLost       \* bound: broadcasts lost

ASSUME SocketsAssumption ==
    /\ UserOf \in [Sockets -> Users]
    /\ Announced \subseteq {r \in Rows : KindOf[r] = "alert"}
    /\ MaxCalls \in Nat

VARIABLES
    session,     \* the users whose session row is there and not expired
    socket,      \* socket[s]: whether it is connected and data.user, its user and role
    rooms,       \* rooms[s]: the devices and users whose rooms s is in
    call,        \* call[c]: the handler in progress
    unsent,      \* alerts stored by AlertsConsumer and not broadcast yet
    lost,        \* alerts whose broadcast was lost
    wants,       \* history: devices whose last message on s was a subscribe
    overtaken,   \* history: devices s left while a subscribe of it was waiting
    ruled,       \* history: sockets whose user was an administrator since they connected
    heard,       \* history: devices s received an event of
    known,       \* history: alerts s was shown, by a list or an event
    watching,    \* history: sockets that listed their alerts after joining their room
    calls

socketVars == <<session, socket, rooms, call, unsent, lost, wants, overtaken, ruled, heard,
                known, watching, calls>>
viewerVars == <<readerVars, socketVars>>

-----------------------------------------------------------------------------
Unknown == [user |-> NoOne, admin |-> FALSE]
Gone == [on |-> FALSE, as |-> Unknown]
\* as: the user the handler took from its socket when it began.
NoCall == [op |-> "none", socket |-> NoOne, room |-> NoOne, at |-> "none", as |-> Unknown]

Identity == [user : Users \cup {NoOne}, admin : BOOLEAN]
Handler == [op : {"none", "connect", "subscribe", "join"}, socket : Sockets \cup {NoOne},
            room : Devices \cup Users \cup {NoOne},
            at : {"none", "early", "guard", "device", "join"}, as : Identity]

TypeOK ==
    /\ ReaderTypeOK
    /\ session \subseteq Users
    /\ socket \in [Sockets -> [on : BOOLEAN, as : Identity]]
    /\ rooms \in [Sockets -> SUBSET (Devices \cup Users)]
    /\ call \in [Calls -> Handler]
    /\ unsent \subseteq Announced /\ lost \subseteq Announced
    /\ wants \in [Sockets -> SUBSET Devices] /\ overtaken \in [Sockets -> SUBSET Devices]
    /\ ruled \subseteq Sockets /\ watching \subseteq Sockets
    /\ heard \in [Sockets -> SUBSET Devices] /\ known \in [Sockets -> SUBSET Rows]
    /\ calls \in 0..MaxCalls

Init ==
    /\ ReaderInit
    /\ session = Users
    /\ socket = [s \in Sockets |-> Gone] /\ rooms = [s \in Sockets |-> {}]
    /\ call = [c \in Calls |-> NoCall]
    /\ unsent = {} /\ lost = {}
    /\ wants = [s \in Sockets |-> {}] /\ overtaken = [s \in Sockets |-> {}]
    /\ ruled = {} /\ watching = {}
    /\ heard = [s \in Sockets |-> {}] /\ known = [s \in Sockets |-> {}]
    /\ calls = 0

Waiting(s, op, room) ==
    \E c \in Calls : call[c].socket = s /\ call[c].op = op /\ call[c].room = room

Start(c, op, s, room, at) ==
    /\ call[c] = NoCall /\ calls < MaxCalls
    /\ calls' = calls + 1
    /\ call' = [call EXCEPT ![c] = [op |-> op, socket |-> s, room |-> room, at |-> at,
                                   as |-> socket[s].as]]
EndCall(c) == call' = [call EXCEPT ![c] = NoCall]

\* What the session row and its user say, read in one query.
Looked(s) == [user |-> UserOf[s], admin |-> UserOf[s] \in admin]

-----------------------------------------------------------------------------
(* The connection; handleConnection looks the token up on its own. *)
Connect(s, c) ==
    /\ ~socket[s].on
    /\ socket' = [socket EXCEPT ![s].on = TRUE]
    /\ ruled' = IF UserOf[s] \in admin THEN ruled \cup {s} ELSE ruled
    /\ Start(c, "connect", s, NoOne, "early")
    /\ UNCHANGED <<readerVars, session, rooms, unsent, lost, wants, overtaken, heard, known,
                   watching>>

EarlyLookup(c) ==
    LET s == call[c].socket IN
    /\ call[c].at = "early"
    /\ socket' = IF UserOf[s] \in session THEN [socket EXCEPT ![s].as = Looked(s)] ELSE socket
    /\ EndCall(c)
    /\ UNCHANGED <<readerVars, session, rooms, unsent, lost, wants, overtaken, ruled, heard,
                   known, watching, calls>>

\* The socket leaves its rooms; its handlers go on without effect, since join
\* of a closed socket does nothing (socket.io).
Disconnect(s) ==
    /\ socket[s].on
    /\ socket' = [socket EXCEPT ![s] = Gone] /\ rooms' = [rooms EXCEPT ![s] = {}]
    /\ call' = [c \in Calls |-> IF call[c].socket = s THEN NoCall ELSE call[c]]
    /\ wants' = [wants EXCEPT ![s] = {}] /\ overtaken' = [overtaken EXCEPT ![s] = {}]
    /\ heard' = [heard EXCEPT ![s] = {}] /\ known' = [known EXCEPT ![s] = {}]
    /\ ruled' = ruled \ {s} /\ watching' = watching \ {s}
    /\ UNCHANGED <<readerVars, session, unsent, lost, calls>>

-----------------------------------------------------------------------------
(* Subscribing to a device: the guard, the ownership check, the room. *)
Guarded(s, next) == IF socket[s].as = Unknown THEN "guard" ELSE next

Subscribe(s, d, c) ==
    /\ socket[s].on
    /\ Start(c, "subscribe", s, d, Guarded(s, "device"))
    /\ wants' = [wants EXCEPT ![s] = @ \cup {d}]
    /\ UNCHANGED <<readerVars, session, socket, rooms, unsent, lost, overtaken, ruled, heard,
                   known, watching>>

\* WsAuthGuard: an unknown user is looked up by the token of the handshake.
GuardLookup(c) ==
    LET s == call[c].socket IN
    /\ call[c].at = "guard"
    /\ IF UserOf[s] \in session
       THEN /\ socket' = [socket EXCEPT ![s].as = Looked(s)]
            /\ call' = [call EXCEPT ![c].as = Looked(s),
                          ![c].at = IF call[c].op = "subscribe" THEN "device" ELSE "join"]
       ELSE EndCall(c) /\ UNCHANGED socket
    /\ UNCHANGED <<readerVars, session, rooms, unsent, lost, wants, overtaken, ruled, heard,
                   known, watching, calls>>

\* Mutant of OwnsDevice: whether the device is there is all that is asked.
OwnsDeviceAny(as, d) == d \in rows

\* devicesService.findOne with the user and role the handler took.
OwnsDevice(as, d) == FindDevice(d, as.user, as.admin) = "ok"

CheckDevice(c) ==
    /\ call[c].at = "device"
    /\ IF OwnsDevice(call[c].as, call[c].room)
       THEN call' = [call EXCEPT ![c].at = "join"]
       ELSE EndCall(c)
    /\ UNCHANGED <<readerVars, session, socket, rooms, unsent, lost, wants, overtaken, ruled,
                   heard, known, watching, calls>>

\* Another user's room is refused to all but administrators.
Admits(c) == call[c].op = "subscribe" \/ call[c].as.admin \/ call[c].as.user = call[c].room

JoinRoom(c) ==
    /\ call[c].at = "join"
    /\ rooms' = IF Admits(c) THEN [rooms EXCEPT ![call[c].socket] = @ \cup {call[c].room}]
                ELSE rooms
    /\ EndCall(c)
    /\ UNCHANGED <<readerVars, session, socket, unsent, lost, wants, overtaken, ruled, heard,
                   known, watching, calls>>

\* Mutant of Leave: nothing is left.
LeaveNot(s, d) == UNCHANGED rooms

Leave(s, d) == rooms' = [rooms EXCEPT ![s] = @ \ {d}]

\* Unguarded and synchronous: it overtakes a subscribe that is waiting.
Unsubscribe(s, d) ==
    /\ socket[s].on /\ d \in wants[s] \cup rooms[s]
    /\ Leave(s, d)
    /\ wants' = [wants EXCEPT ![s] = @ \ {d}]
    /\ overtaken' = [overtaken EXCEPT ![s] =
                       IF Waiting(s, "subscribe", d) THEN @ \cup {d} ELSE @ \ {d}]
    /\ UNCHANGED <<readerVars, session, socket, call, unsent, lost, ruled, heard, known,
                   watching, calls>>

JoinUser(s, u, c) ==
    /\ socket[s].on
    /\ Start(c, "join", s, u, Guarded(s, "join"))
    /\ UNCHANGED <<readerVars, session, socket, rooms, unsent, lost, wants, overtaken, ruled,
                   heard, known, watching>>

-----------------------------------------------------------------------------
(* What reaches the sockets. *)
In(room) == {s \in Sockets : socket[s].on /\ room \in rooms[s]}
Hears(d) == heard' = [s \in Sockets |-> IF s \in In(d) THEN heard[s] \cup {d} ELSE heard[s]]

BroadcastTelemetry(d) ==
    /\ d \in rows /\ In(d) # {}
    /\ Hears(d)
    /\ UNCHANGED <<readerVars, session, socket, rooms, call, unsent, lost, wants, overtaken,
                   ruled, known, watching, calls>>

\* AlertsConsumer and the checks of TelemetryConsumer store an alert; only the
\* former broadcasts it, in a later step.
StoreAlert(a) ==
    /\ KindOf[a] = "alert" /\ a \notin rows /\ DeviceOf[a] \in rows
    /\ rows' = rows \cup {a}
    /\ Moved({a})
    /\ unsent' = IF a \in Announced THEN unsent \cup {a} ELSE unsent
    /\ UNCHANGED <<online, admin, carried, reads, changes, session, socket, rooms, call, lost,
                   wants, overtaken, ruled, heard, known, watching, calls>>

\* Mutant of Audience: the room of the device instead of its owner's.
AudienceOfDevice(a) == In(DeviceOf[a])

Audience(a) == In(MakerOf[DeviceOf[a]])

BroadcastAlert(a) ==
    /\ a \in unsent /\ DeviceOf[a] \in rows
    /\ unsent' = unsent \ {a}
    /\ known' = [s \in Sockets |-> IF s \in Audience(a) THEN known[s] \cup {a} ELSE known[s]]
    /\ UNCHANGED <<readerVars, session, socket, rooms, call, lost, wants, overtaken, ruled,
                   heard, watching, calls>>

\* The lookup of the device fails or finds nothing, or the process dies.
LoseBroadcast(a) ==
    /\ a \in unsent
    /\ DeviceOf[a] \in rows => Cardinality(lost) < MaxLost
    /\ unsent' = unsent \ {a} /\ lost' = lost \cup {a}
    /\ UNCHANGED <<readerVars, session, socket, rooms, call, wants, overtaken, ruled, heard,
                   known, watching, calls>>

\* The page of s lists the alerts of its user, GET /alerts/mine.
ShowAlerts(s) ==
    /\ socket[s].on
    /\ known' = [known EXCEPT ![s] = @ \cup ListAlerts(UserOf[s], FALSE)]
    /\ watching' = IF UserOf[s] \in rooms[s] THEN watching \cup {s} ELSE watching
    /\ UNCHANGED <<readerVars, session, socket, rooms, call, unsent, lost, wants, overtaken,
                   ruled, heard, calls>>

-----------------------------------------------------------------------------
SocketStep ==
    \/ \E s \in Sockets :
          \/ \E c \in Calls :
                \/ Connect(s, c)
                \/ \E d \in Devices : Subscribe(s, d, c)
                \/ \E u \in Users : JoinUser(s, u, c)
          \/ Disconnect(s) \/ ShowAlerts(s)
          \/ \E d \in Devices : Unsubscribe(s, d)
    \/ \E c \in Calls :
          EarlyLookup(c) \/ GuardLookup(c) \/ CheckDevice(c) \/ JoinRoom(c)
    \/ \E d \in Devices : BroadcastTelemetry(d)
    \/ \E a \in Rows : StoreAlert(a) \/ BroadcastAlert(a) \/ LoseBroadcast(a)

\* Rows and roles change under the sockets; the alerts of a removed device go.
Around ==
    /\ Surroundings
    /\ ruled' = ruled \cup {s \in Sockets : socket[s].on /\ UserOf[s] \in admin'}
    /\ UNCHANGED <<session, socket, rooms, call, unsent, lost, wants, overtaken, heard, known,
                   watching, calls>>

\* Sign-out, or the expiry of the session row; the user may sign in again.
Session(u) ==
    /\ Change
    /\ session' = IF u \in session THEN session \ {u} ELSE session \cup {u}
    /\ UNCHANGED <<rows, online, admin, carried, reading, reads, socket, rooms, call, unsent,
                   lost, wants, overtaken, ruled, heard, known, watching, calls>>

Next ==
    \/ SocketStep
    \/ ReaderStep /\ UNCHANGED socketVars
    \/ Around
    \/ \E u \in Users : Session(u)

Spec == Init /\ [][Next]_viewerVars

-----------------------------------------------------------------------------
(* A socket is in the rooms, and hears of the devices, of its own user only,
   unless the user was an administrator since it connected: the check of a
   subscribe uses the role the early authentication or a guard left on the
   socket, and neither a sign-out nor a demotion takes a socket out of a room
   (gnss.gateway.ts:57-66, ws-auth.guard.ts:33-36). *)
HearsOnlyItsOwn ==
    \A s \in Sockets : s \notin ruled =>
        /\ rooms[s] \cap Users \subseteq {UserOf[s]}
        /\ \A d \in heard[s] \cup (rooms[s] \cap Devices) : MakerOf[d] = UserOf[s]

(* A client that unsubscribed does not stay in the room, unless its
   unsubscribe overtook a subscribe that was still being checked
   (gnss.gateway.ts:62-66 and 82-87). *)
LastWordHolds ==
    \A s \in Sockets : rooms[s] \cap Devices \subseteq wants[s] \cup overtaken[s]

(* A client that joined its room and then listed its alerts knows every alert
   of its devices, but for those of server checks, which are never broadcast,
   and those whose broadcast is to come or was lost (alerts.consumer.ts:127-181). *)
NoAlertIsMissed ==
    \A s \in watching : \A a \in ListAlerts(UserOf[s], FALSE) :
        a \in known[s] \/ a \notin Announced \/ a \in unsent \cup lost
=============================================================================
