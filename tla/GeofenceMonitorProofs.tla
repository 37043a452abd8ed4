----------------------- MODULE GeofenceMonitorProofs -----------------------
(* Proofs about GeofenceMonitor, for any geofences, slots, points, edits,
   faults and restarts.  The last part is about one slot: then the program
   implements GeofenceEdge. *)
EXTENDS GeofenceMonitor, FiniteSetTheorems, TLAPS

In(v, a) == \E n \in 1..Len(v) : v[n] = a

\* a is among the violations the check k has collected and not answered yet.
Found(k, a) == In(k.viol, a)

\* The check is at a row: it has read its previous presence and not saved it.
AtRow(k) == k.call \in {"find", "save"}

Answering(k) == k.call \in {"getCooldown", "create", "setCooldown"}

(* What a check's call says of its locals. *)
CallShape(k) ==
    /\ k.call = "idle" => k = Idle
    /\ k.call # "idle" => k.point \in 1..Len(points)
    /\ k.call = "query" => k.todo = {} /\ k.viol = <<>>
    /\ AtRow(k) => k.cur \in Geofences \ k.todo
    /\ Answering(k) => k.viol # <<>> /\ k.todo = {}
    /\ k.call = "setCooldown" => k.point \in alerts[Head(k.viol)]

Shapes ==
    /\ Len(points) <= MaxPoints
    /\ \A c \in Checks : CallShape(chk[c])

TInv == TypeOK /\ Shapes

PastAlerts == \A a \in Violations : alerts[a] \subseteq 1..Len(points)

(* A check finds nobody inside who is not, and nobody outside who is not while
   every polygon is there; and the violations it found are as true. *)
TrueCheck(k) ==
    /\ \A g \in Ahead(k) :
          /\ g \in k.inside => g \in points[k.point]
          /\ restarts = 0 /\ g \in points[k.point] => g \in k.inside
    /\ \A a \in Violations :
          Found(k, a) /\ (a[1] = "GEOFENCE_ENTRY" \/ restarts = 0) => Violates(a, k.point)

TruthSoFar ==
    /\ restarts = 0 => \A g \in Geofences : geom[g]
    /\ FalseAlertsNeedARestart
    /\ \A c \in Checks : TrueCheck(chk[c])

(* The row of g is answered: what ViolationIsAnswered says of it, and of rows
   that stand for no violation now. *)
AnsweredRow(g) ==
    /\ since[g] \in 1..Len(points)
    /\ \A a \in Violations :
          a = Stored(g) /\ state[g] = SideOf(a[1]) => since[g] \in Answered(a)
    /\ restarts = 0 =>
          \A n \in since[g]..Len(points) :
              StillToSee(g, n) \/ PresenceIn(points[n], g) = state[g]

AnswersSoFar ==
    \A g \in Geofences : state[g] # "none" /\ g \notin excused => AnsweredRow(g)

(* What holds of a check that no other check meets. *)
AloneCheck(k) ==
    /\ k.call # "idle" => k.point = Len(points)
    /\ k.call = "query" => \A g \in Geofences : since[g] < k.point
    /\ \A g \in Ahead(k) : since[g] < k.point
    /\ AtRow(k) => k.prev = state[k.cur]
    /\ k.call = "save" => (k.exists <=> state[k.cur] # "none")
    /\ \A a \in Violations :
          Found(k, a) => since[a[2]] = k.point /\ state[a[2]] = SideOf(a[1])

InOrder ==
    /\ \A g \in Geofences : since[g] <= Len(points)
    /\ \A c \in Checks : AloneCheck(chk[c])

(* The device has left the violating side between i and j. *)
LeftBetween(a, i, j) == \E n \in i..j : ~Violates(a, n)

(* Every alert is of a stay that goes on, or that a later point ended. *)
StaysSoFar ==
    restarts = 0 =>
        /\ OneAlertPerStay
        /\ \A a \in Violations : \A i \in alerts[a] :
              /\ state[a[2]] = SideOf(a[1]) \/ LeftBetween(a, i, since[a[2]])
              /\ \A c \in Checks :
                    Found(chk[c], a) /\ i < chk[c].point => LeftBetween(a, i, chk[c].point)

-----------------------------------------------------------------------------
(* Violations and sequences of them. *)

LEMMA ViolationParts ==
    /\ \A a \in Violations : a[1] \in AlertTypes /\ a[2] \in Geofences /\ a = <<a[1], a[2]>>
    /\ \A t \in AlertTypes, g \in Geofences : <<t, g>> \in Violations
BY DEF Violations

LEMMA Sides ==
    /\ \A t \in AlertTypes : SideOf(t) \in Presence
    /\ \A type : AlertOf(type) \in AlertTypes
    /\ \A inside, g : PresenceIn(inside, g) \in Presence
BY DEF SideOf, AlertOf, AlertTypes, Presence, PresenceIn

LEMMA InAppend ==
    ASSUME NEW v \in Seq(Violations), NEW x \in Violations
    PROVE  /\ Append(v, x) \in Seq(Violations) /\ Append(v, x) # <<>>
           /\ \A a \in Violations : In(Append(v, x), a) <=> In(v, a) \/ a = x
<1>1. /\ Append(v, x) \in Seq(Violations) /\ Len(Append(v, x)) = Len(v) + 1 /\ Len(v) \in Nat
      /\ \A n \in 1..Len(v) : Append(v, x)[n] = v[n]
      /\ Append(v, x)[Len(v) + 1] = x
    OBVIOUS
<1>2. Append(v, x) # <<>>
    BY <1>1
<1>3. ASSUME NEW a \in Violations PROVE In(Append(v, x), a) <=> In(v, a) \/ a = x
    <2>1. ASSUME In(Append(v, x), a), a # x PROVE In(v, a)
        BY <1>1, <2>1 DEF In
    <2>2. ASSUME In(v, a) PROVE In(Append(v, x), a)
        <3>1. PICK n \in 1..Len(v) : v[n] = a
            BY <2>2 DEF In
        <3>2. n \in 1..Len(Append(v, x)) /\ Append(v, x)[n] = a
            BY <1>1, <3>1
        <3>. QED  BY <3>2 DEF In
    <2>3. In(Append(v, x), x)
        <3>1. Len(v) + 1 \in 1..Len(Append(v, x))
            BY <1>1
        <3>. QED  BY <1>1, <3>1 DEF In
    <2>. QED  BY <2>1, <2>2, <2>3
<1>. QED  BY <1>1, <1>2, <1>3

LEMMA InTail ==
    ASSUME NEW v \in Seq(Violations), v # <<>>
    PROVE  /\ Head(v) \in Violations /\ Tail(v) \in Seq(Violations)
           /\ \A a \in Violations : In(v, a) <=> In(Tail(v), a) \/ a = Head(v)
<1>1. /\ Len(v) \in Nat \ {0} /\ Head(v) = v[1] /\ Head(v) \in Violations
      /\ Tail(v) \in Seq(Violations) /\ Len(Tail(v)) = Len(v) - 1
      /\ \A n \in 1..Len(v) - 1 : Tail(v)[n] = v[n + 1]
    OBVIOUS
<1>2. ASSUME NEW a \in Violations PROVE In(v, a) <=> In(Tail(v), a) \/ a = Head(v)
    <2>1. ASSUME In(v, a), a # Head(v) PROVE In(Tail(v), a)
        <3>1. PICK n \in 1..Len(v) : v[n] = a
            BY <2>1 DEF In
        <3>2. n - 1 \in 1..Len(Tail(v)) /\ Tail(v)[n - 1] = a
            BY <1>1, <2>1, <3>1
        <3>. QED  BY <3>2 DEF In
    <2>2. ASSUME In(Tail(v), a) PROVE In(v, a)
        <3>1. PICK n \in 1..Len(Tail(v)) : Tail(v)[n] = a
            BY <2>2 DEF In
        <3>2. n + 1 \in 1..Len(v) /\ v[n + 1] = a
            BY <1>1, <3>1
        <3>. QED  BY <3>2 DEF In
    <2>3. In(v, Head(v))
        <3>1. 1 \in 1..Len(v) /\ v[1] = Head(v)
            BY <1>1
        <3>. QED  BY <3>1 DEF In
    <2>. QED  BY <2>1, <2>2, <2>3
<1>. QED  BY <1>1, <1>2

-----------------------------------------------------------------------------
(* What each step makes of a check. *)

LEMMA CheckFields ==
    ASSUME TypeOK, NEW c \in Checks
    PROVE  /\ chk[c].call \in Calls /\ chk[c].point \in Nat
           /\ chk[c].inside \subseteq Geofences /\ chk[c].todo \subseteq Geofences
           /\ chk[c].forbidden \subseteq Geofences
           /\ chk[c].cur \in Geofences \cup {"none"} /\ chk[c].prev \in Presence \cup {"none"}
           /\ chk[c].exists \in BOOLEAN /\ chk[c].viol \in Seq(Violations)
BY DEF TypeOK, Check

LEMMA IdleCheck ==
    /\ Idle \in Check /\ Idle.call = "idle" /\ Idle.point = 0
    /\ Idle.todo = {} /\ Idle.viol = <<>>
    /\ \A a \in Violations : ~Found(Idle, a)
BY DEF Idle, Check, Calls, Found, In

\* The check keeps its point, and what it knows of it.
Same(k, l) == l.point = k.point /\ l.inside = k.inside

LEMMA ToRow ==
    ASSUME TypeOK, NEW c \in Checks, NEW g \in Geofences, ReadPrevious(c, g)
    PROVE  /\ chk[c].call = "previous" /\ g \in chk[c].todo
           /\ chk'[c] \in Check /\ Same(chk[c], chk'[c]) /\ chk'[c].call = "find"
           /\ chk'[c].cur = g /\ chk'[c].todo = chk[c].todo \ {g}
           /\ chk'[c].prev = state[g] /\ chk'[c].viol = chk[c].viol
<1>1. /\ chk[c] \in Check /\ g \in chk[c].todo /\ chk[c].call = "previous"
      /\ state[g] \in Presence \cup {"none"}
    BY DEF ReadPrevious, At, TypeOK
<1>2. chk'[c] = [chk[c] EXCEPT !.call = "find", !.cur = g, !.todo = chk[c].todo \ {g},
                               !.prev = state[g]]
    BY DEF ReadPrevious, TypeOK
<1>3. chk[c].todo \ {g} \in SUBSET Geofences
    BY <1>1 DEF Check
<1> DEFINE rest == chk[c].todo \ {g}
<1> HIDE DEF rest
<1>4. /\ chk'[c] = [chk[c] EXCEPT !.call = "find", !.cur = g, !.todo = rest, !.prev = state[g]]
      /\ rest \in SUBSET Geofences
    BY <1>2, <1>3 DEF rest
<1>5. /\ chk'[c] \in Check /\ Same(chk[c], chk'[c]) /\ chk'[c].call = "find"
      /\ chk'[c].cur = g /\ chk'[c].todo = rest
      /\ chk'[c].prev = state[g] /\ chk'[c].viol = chk[c].viol
    BY <1>1, <1>4 DEF Check, Calls, Same
<1>. QED  BY <1>1, <1>5 DEF rest

LEMMA AtTheRow ==
    ASSUME TypeOK, NEW c \in Checks, FindState(c)
    PROVE  /\ chk[c].call = "find"
           /\ chk'[c] \in Check /\ Same(chk[c], chk'[c]) /\ chk'[c].call = "save"
           /\ chk'[c].cur = chk[c].cur /\ chk'[c].todo = chk[c].todo
           /\ chk'[c].prev = chk[c].prev /\ chk'[c].viol = chk[c].viol
           /\ chk'[c].exists = (state[chk[c].cur] # "none")
<1>1. chk[c] \in Check /\ chk[c].call = "find"
    BY DEF FindState, At, TypeOK
<1>2. PICK there \in BOOLEAN : there = (state[chk[c].cur] # "none")
    OBVIOUS
<1>3. chk'[c] = [chk[c] EXCEPT !.call = "save", !.exists = there]
    BY <1>2 DEF FindState, TypeOK
<1>4. /\ chk'[c] \in Check /\ Same(chk[c], chk'[c]) /\ chk'[c].call = "save"
      /\ chk'[c].cur = chk[c].cur /\ chk'[c].todo = chk[c].todo
      /\ chk'[c].prev = chk[c].prev /\ chk'[c].viol = chk[c].viol /\ chk'[c].exists = there
    BY <1>1, <1>3 DEF Check, Calls, Same
<1>. QED  BY <1>1, <1>2, <1>4

\* The row at hand makes a a violation, and a new one.
Judges(k, a) ==
    /\ a = <<AlertOf(TypeRead(k, k.cur)), k.cur>>
    /\ PresenceIn(k.inside, k.cur) = SideOf(AlertOf(TypeRead(k, k.cur)))
    /\ k.prev # PresenceIn(k.inside, k.cur)

LEMMA JudgedRow ==
    ASSUME TypeOK, NEW c \in Checks, chk[c].cur \in Geofences
    PROVE  /\ Judged(chk[c]) \in Seq(Violations)
           /\ \A a \in Violations : In(Judged(chk[c]), a) <=> In(chk[c].viol, a) \/ Judges(chk[c], a)
<1> DEFINE k == chk[c]
           x == <<AlertOf(TypeRead(k, k.cur)), k.cur>>
           isNew == /\ PresenceIn(k.inside, k.cur) = SideOf(AlertOf(TypeRead(k, k.cur)))
                    /\ k.prev # PresenceIn(k.inside, k.cur)
<1>1. k.viol \in Seq(Violations) /\ x \in Violations
    BY CheckFields, ViolationParts, Sides
<1>2. /\ Judged(k) = IF isNew THEN Append(k.viol, x) ELSE k.viol
      /\ \A a : Judges(k, a) <=> a = x /\ isNew
    BY DEF Judged, Judges
<1> HIDE DEF k, x, isNew
<1>3. CASE isNew
    BY <1>1, <1>2, <1>3, InAppend DEF k
<1>4. CASE ~isNew
    BY <1>1, <1>2, <1>4 DEF k
<1>. QED  BY <1>3, <1>4

LEMMA PastRow ==
    ASSUME TInv, NEW c \in Checks, SaveState(c)
    PROVE  /\ chk[c].call = "save" /\ chk[c].cur \in Geofences \ chk[c].todo
           /\ chk'[c] \in Check
           /\ \/ chk'[c] = Idle /\ chk[c].todo = {}
              \/ /\ chk'[c].point = chk[c].point
                 /\ chk'[c].inside = chk[c].inside \cap chk[c].todo
                 /\ chk'[c].todo = chk[c].todo
                 /\ \/ chk'[c].call = "previous"
                    \/ chk'[c].call = "getCooldown" /\ chk'[c].viol # <<>> /\ chk[c].todo = {}
           /\ \A a \in Violations : Found(chk'[c], a) <=> Found(chk[c], a) \/ Judges(chk[c], a)
<1> DEFINE v == Judged(chk[c])
           k == chk[c]
<1>1. /\ chk[c].call = "save" /\ chk[c].cur \in Geofences \ chk[c].todo /\ k \in Check
    BY DEF SaveState, At, TInv, Shapes, CallShape, AtRow, TypeOK
<1>2. /\ v \in Seq(Violations)
      /\ \A a \in Violations : In(v, a) <=> In(k.viol, a) \/ Judges(k, a)
    BY <1>1, JudgedRow DEF TInv
<1>3. chk'[c] = Onward(k, v)
    BY <1>1 DEF SaveState, TInv, TypeOK
<1> HIDE DEF v, k
<1> DEFINE left == [k EXCEPT !.cur = "none", !.prev = "none", !.exists = FALSE, !.viol = v,
                            !.inside = @ \cap k.todo, !.forbidden = @ \cap k.todo]
           done(call) == [left EXCEPT !.call = call]
<1>4. chk'[c] = IF k.todo # {} THEN done("previous")
                ELSE IF v # <<>> THEN done("getCooldown") ELSE Idle
    BY <1>3 DEF Onward
<1>5. ASSUME NEW call \in {"previous", "getCooldown"}, chk'[c] = done(call)
      PROVE  /\ chk'[c] \in Check /\ chk'[c].call = call /\ chk'[c].point = k.point
             /\ chk'[c].inside = k.inside \cap k.todo /\ chk'[c].todo = k.todo
             /\ chk'[c].viol = v
    <2>1. /\ k \in Check /\ k.inside \cap k.todo \in SUBSET Geofences
          /\ k.forbidden \cap k.todo \in SUBSET Geofences /\ call \in Calls
        BY <1>1, CheckFields DEF k, TInv, Calls
    <2>2. PICK no \in BOOLEAN : no = FALSE
        OBVIOUS
    <2>3. PICK ins, fo \in SUBSET Geofences : ins = k.inside \cap k.todo /\ fo = k.forbidden \cap k.todo
        BY <2>1
    <2>4. left = [k EXCEPT !.cur = "none", !.prev = "none", !.exists = no, !.viol = v,
                           !.inside = ins, !.forbidden = fo]
        BY <2>2, <2>3
    <2> HIDE DEF left
    <2>5. /\ left \in Check /\ left.point = k.point /\ left.inside = ins /\ left.todo = k.todo
          /\ left.viol = v
        BY <1>2, <2>1, <2>4 DEF Check
    <2>. QED  BY <1>5, <2>1, <2>3, <2>5 DEF Check
<1>6. CASE k.todo # {}
    <2>1. chk'[c] = done("previous")
        BY <1>4, <1>6
    <2>. QED  BY <1>1, <1>2, <1>5, <2>1 DEF Found, k
<1>7. CASE k.todo = {} /\ v # <<>>
    <2>1. chk'[c] = done("getCooldown")
        BY <1>4, <1>7
    <2>. QED  BY <1>1, <1>2, <1>5, <1>7, <2>1 DEF Found, k
<1>8. CASE k.todo = {} /\ v = <<>>
    <2>1. chk'[c] = Idle
        BY <1>4, <1>8
    <2>2. \A a \in Violations : ~In(v, a)
        BY <1>8 DEF In
    <2>. QED  BY <1>1, <1>2, <1>8, <2>1, <2>2, IdleCheck DEF Found, k
<1>. QED  BY <1>6, <1>7, <1>8

LEMMA PastViolation ==
    ASSUME TypeOK, NEW c \in Checks, chk[c].viol # <<>>, chk'[c] = NextViolation(chk[c])
    PROVE  /\ Head(chk[c].viol) \in Violations /\ chk'[c] \in Check
           /\ \/ chk'[c] = Idle
              \/ /\ Same(chk[c], chk'[c]) /\ chk'[c].call = "getCooldown"
                 /\ chk'[c].todo = chk[c].todo /\ chk'[c].viol # <<>>
           /\ \A a \in Violations :
                 Found(chk[c], a) <=> Found(chk'[c], a) \/ a = Head(chk[c].viol)
<1> DEFINE v == Tail(chk[c].viol)
<1>1. chk[c] \in Check /\ chk[c].viol \in Seq(Violations) /\ v \in Seq(Violations)
    BY InTail DEF TypeOK, Check
<1>2. CASE v = <<>>
    <2>1. chk'[c] = Idle /\ \A a \in Violations : ~In(v, a)
        BY <1>2 DEF NextViolation, In
    <2>. QED  BY <1>1, <2>1, IdleCheck, InTail DEF Found
<1>3. CASE v # <<>>
    <2>1. chk'[c] = [chk[c] EXCEPT !.call = "getCooldown", !.viol = v]
        BY <1>3 DEF NextViolation
    <2>2. /\ chk'[c] \in Check /\ Same(chk[c], chk'[c]) /\ chk'[c].call = "getCooldown"
          /\ chk'[c].todo = chk[c].todo /\ chk'[c].viol = v
        BY <1>1, <2>1 DEF Check, Calls, Same
    <2>. QED  BY <1>1, <1>3, <2>2, InTail DEF Found
<1>. QED  BY <1>2, <1>3

LEMMA OnlyCall ==
    ASSUME TypeOK, NEW c \in Checks, NEW k \in Calls, chk' = [chk EXCEPT ![c].call = k]
    PROVE  /\ chk'[c] \in Check /\ Same(chk[c], chk'[c]) /\ chk'[c].call = k
           /\ chk'[c].todo = chk[c].todo /\ chk'[c].viol = chk[c].viol
           /\ chk'[c].cur = chk[c].cur
           /\ chk' = [chk EXCEPT ![c] = chk'[c]]
BY DEF TypeOK, Check, Same

-----------------------------------------------------------------------------
(* The shapes of the variables. *)

\* A step of the check in slot c, or its start.
Moves(c) == (\E w \in SUBSET Geofences : StartCheck(c, w)) \/ CheckStep(c) \/ CallFails(c)

LEMMA OthersStay ==
    ASSUME TypeOK, NEW c \in Checks, Moves(c)
    PROVE  /\ chk' = [chk EXCEPT ![c] = chk'[c]]
           /\ \A d \in Checks \ {c} : chk'[d] = chk[d]
<1>1. CASE \E w \in SUBSET Geofences : StartCheck(c, w)
    BY <1>1 DEF StartCheck, TypeOK
<1>2. CASE Query(c)
    BY <1>2 DEF Query, TypeOK
<1>3. CASE \E g \in Geofences : ReadPrevious(c, g)
    BY <1>3 DEF ReadPrevious, TypeOK
<1>4. CASE FindState(c)
    BY <1>4 DEF FindState, TypeOK
<1>5. CASE SaveState(c) \/ SaveConflicts(c)
    BY <1>5 DEF SaveState, SaveConflicts, TypeOK
<1>6. CASE GetCooldown(c)
    BY <1>6 DEF GetCooldown, TypeOK
<1>7. CASE CreateAlert(c) \/ SetCooldown(c)
    BY <1>7 DEF CreateAlert, SetCooldown, TypeOK
<1>8. CASE CallFails(c)
    BY <1>8 DEF CallFails, TypeOK
<1>. QED  BY <1>1, <1>2, <1>3, <1>4, <1>5, <1>6, <1>7, <1>8 DEF Moves, CheckStep

\* The history of points and alerts only grows.
Grown ==
    /\ Len(points) <= Len(points')
    /\ \A a \in Violations : alerts[a] \subseteq alerts'[a]

LEMMA ShapeKept ==
    ASSUME TInv, TypeOK', NEW d \in Checks, chk'[d] = chk[d], Grown
    PROVE  CallShape(chk[d])'
<1>1. chk[d] \in Check /\ Len(points) \in Nat /\ Len(points') \in Nat
    BY DEF TInv, TypeOK
<1>2. Answering(chk[d]) => Head(chk[d].viol) \in Violations
    BY <1>1, InTail DEF TInv, Shapes, CallShape, Check
<1>. QED  BY <1>1, <1>2 DEF TInv, Shapes, CallShape, Grown, Answering, AtRow

LEMMA ShapesKept ==
    ASSUME TInv, TypeOK', NEW c \in Checks, \A d \in Checks \ {c} : chk'[d] = chk[d],
           Grown, Len(points') <= MaxPoints, CallShape(chk[c])'
    PROVE  TInv'
<1>1. ASSUME NEW d \in Checks PROVE CallShape(chk[d])'
    BY <1>1, ShapeKept
<1>. QED  BY <1>1 DEF TInv, Shapes

LEMMA InitialTypes == ASSUME Init PROVE TInv
<1>1. TypeOK
    <2>1. points \in Seq(SUBSET Geofences) /\ chk \in [Checks -> Check]
        BY IdleCheck DEF Init
    <2>2. /\ alerts \in [Violations -> SUBSET (1..MaxPoints)]
          /\ suppressed \in [Violations -> SUBSET (1..MaxPoints)]
        BY DEF Init
    <2>3. /\ cooldown \in [Violations -> 0..CooldownTTL]
          /\ zone \in [Geofences -> ZoneTypes]
        BY ConstantsAssumption DEF Init
    <2>4. /\ edits \in 0..MaxEdits /\ faults \in 0..MaxFaults /\ restarts \in 0..MaxRestarts
        BY ConstantsAssumption DEF Init
    <2>5. /\ assigned \subseteq Geofences /\ geom \in [Geofences -> BOOLEAN]
          /\ state \in [Geofences -> Presence \cup {"none"}]
          /\ since \in [Geofences -> Nat] /\ excused \subseteq Geofences
        BY DEF Init
    <2>. QED  BY <2>1, <2>2, <2>3, <2>4, <2>5 DEF TypeOK
<1>2. Shapes
    BY ConstantsAssumption DEF Init, Shapes, CallShape, Idle, AtRow, Answering
<1>. QED  BY <1>1, <1>2 DEF TInv

LEMMA StartTypes ==
    ASSUME TInv, NEW c \in Checks, NEW where \in SUBSET Geofences, StartCheck(c, where)
    PROVE  /\ TInv' /\ chk[c] = Idle /\ chk'[c].call = "query" /\ chk'[c].viol = <<>>
           /\ chk'[c].point = Len(points')
           /\ Len(points') = Len(points) + 1 /\ \A i \in 1..Len(points) : points'[i] = points[i]
<1> USE DEF TInv
<1>1. /\ points \in Seq(SUBSET Geofences) /\ Len(points) \in Nat
      /\ points' = Append(points, where) /\ Len(points) < MaxPoints
    BY DEF StartCheck, TypeOK
<1>2. /\ points' \in Seq(SUBSET Geofences) /\ Len(points') = Len(points) + 1
      /\ \A i \in 1..Len(points) : points'[i] = points[i]
      /\ Len(points) <= Len(points') /\ Len(points') <= MaxPoints /\ Len(points') \in 1..Len(points')
    BY <1>1, ConstantsAssumption
<1>3. /\ chk' = [chk EXCEPT ![c] = chk'[c]] /\ \A d \in Checks \ {c} : chk'[d] = chk[d]
    BY OthersStay DEF Moves
<1>4. chk'[c] = [Idle EXCEPT !.call = "query", !.point = Len(points) + 1]
    BY DEF StartCheck, TypeOK
<1>5. /\ chk'[c] \in Check /\ chk'[c].call = "query" /\ chk'[c].point = Len(points')
      /\ chk'[c].todo = {} /\ chk'[c].viol = <<>>
    <2>1. chk'[c] = [call |-> "query", point |-> Len(points'), inside |-> {}, forbidden |-> {},
                     todo |-> {}, cur |-> "none", prev |-> "none", exists |-> FALSE, viol |-> <<>>]
        BY <1>2, <1>4 DEF Idle
    <2>2. Len(points') \in Nat
        BY <1>2
    <2>. QED  BY <2>1, <2>2 DEF Check, Calls
<1>6. chk' \in [Checks -> Check]
    BY <1>3, <1>5 DEF TypeOK
<1>7. TypeOK'
    BY <1>2, <1>6 DEF TypeOK, StartCheck, row, outcome, bounds
<1>8. CallShape(chk[c])'
    BY <1>2, <1>5 DEF CallShape, AtRow, Answering
<1>9. Grown
    BY <1>2 DEF Grown, StartCheck, outcome
<1>10. TInv'
    BY <1>2, <1>3, <1>7, <1>8, <1>9, ShapesKept
<1>11. chk[c] = Idle
    BY DEF StartCheck, At, Shapes, CallShape
<1>. QED  BY <1>2, <1>5, <1>10, <1>11

LEMMA QueryTypes ==
    ASSUME TInv, NEW c \in Checks, Query(c)
    PROVE  /\ TInv' /\ chk[c].call = "query"
           /\ \/ chk'[c] = Idle /\ assigned = {}
              \/ /\ chk'[c].call = "previous" /\ chk'[c].point = chk[c].point
                 /\ chk'[c].todo = assigned /\ chk'[c].viol = chk[c].viol
                 /\ chk'[c].inside = {g \in assigned \cap points[chk[c].point] : geom[g]}
<1> DEFINE found == {g \in assigned \cap points[chk[c].point] : geom[g]}
           bad == {g \in assigned : zone[g] = "FORBIDDEN_ZONE"}
<1> USE DEF TInv
<1>1. chk[c] \in Check /\ chk[c].call = "query" /\ chk[c].point \in 1..Len(points)
    BY DEF Query, At, TypeOK, Shapes, CallShape
<1>2. chk'[c] = IF assigned = {} THEN Idle
                ELSE [chk[c] EXCEPT !.call = "previous", !.todo = assigned, !.inside = found,
                                    !.forbidden = bad]
    BY DEF Query, TypeOK
<1>3. found \in SUBSET Geofences /\ assigned \in SUBSET Geofences /\ bad \in SUBSET Geofences
    BY DEF TypeOK
<1> HIDE DEF found, bad
<1>4. /\ chk'[c] \in Check
      /\ \/ chk'[c] = Idle /\ assigned = {}
         \/ /\ chk'[c].call = "previous" /\ chk'[c].point = chk[c].point
            /\ chk'[c].todo = assigned /\ chk'[c].viol = chk[c].viol /\ chk'[c].inside = found
    <2>1. CASE assigned = {}
        BY <1>2, <2>1, IdleCheck
    <2>2. CASE assigned # {}
        <3>1. chk'[c] = [chk[c] EXCEPT !.call = "previous", !.todo = assigned, !.inside = found,
                                       !.forbidden = bad]
            BY <1>2, <2>2
        <3>. QED  BY <1>1, <1>3, <3>1 DEF Check, Calls
    <2>. QED  BY <2>1, <2>2
<1>5. /\ chk' = [chk EXCEPT ![c] = chk'[c]] /\ \A d \in Checks \ {c} : chk'[d] = chk[d]
    BY OthersStay DEF Moves, CheckStep
<1>6. TypeOK'
    <2>1. chk' \in [Checks -> Check]
        BY <1>4, <1>5 DEF TypeOK
    <2>2. excused' \subseteq Geofences
        BY DEF TypeOK, Query
    <2>. QED  BY <2>1, <2>2 DEF TypeOK, Query, data, outcome, bounds
<1>7. /\ Len(points') = Len(points) /\ Len(points) <= MaxPoints /\ Len(points) \in Nat
      /\ alerts' = alerts
    BY DEF Query, data, outcome, Shapes, TypeOK
<1>8. CallShape(chk[c])'
    BY <1>1, <1>4, <1>7, IdleCheck DEF CallShape, AtRow, Answering
<1>9. TInv'
    BY <1>5, <1>6, <1>7, <1>8, ShapesKept DEF Grown
<1>. QED  BY <1>1, <1>4, <1>9 DEF found

\* A step of one check that leaves the points and the alerts alone.
LEMMA QuietTypes ==
    ASSUME TInv, NEW c \in Checks, Moves(c), chk'[c] \in Check,
           UNCHANGED <<data, alerts>>, CallShape(chk[c])',
           state' \in [Geofences -> Presence \cup {"none"}], since' \in [Geofences -> Nat],
           cooldown' \in [Violations -> 0..CooldownTTL],
           suppressed' \in [Violations -> SUBSET (1..MaxPoints)],
           excused' \subseteq Geofences, edits' = edits, faults' \in 0..MaxFaults,
           restarts' = restarts
    PROVE  TInv'
<1>1. /\ chk' = [chk EXCEPT ![c] = chk'[c]] /\ \A d \in Checks \ {c} : chk'[d] = chk[d]
    BY OthersStay DEF TInv
<1>2. chk' \in [Checks -> Check]
    BY <1>1 DEF TInv, TypeOK
<1>3. TypeOK'
    BY <1>2 DEF TInv, TypeOK, data
<1>4. Grown /\ Len(points') <= MaxPoints
    BY DEF Grown, data, TInv, TypeOK, Shapes
<1>. QED  BY <1>1, <1>3, <1>4, ShapesKept

LEMMA ReadTypes ==
    ASSUME TInv, NEW c \in Checks, NEW g \in Geofences, ReadPrevious(c, g)
    PROVE  TInv'
<1>1. /\ chk[c] \in Check /\ chk[c].call = "previous" /\ chk[c].point \in 1..Len(points)
    BY DEF ReadPrevious, At, TInv, TypeOK, Shapes, CallShape
<1>2. CallShape(chk[c])'
    BY <1>1, ToRow DEF TInv, CallShape, AtRow, Answering, Same, ReadPrevious, data
<1>3. Moves(c)
    BY DEF Moves, CheckStep
<1>. QED  BY <1>2, <1>3, ToRow, QuietTypes
           DEF TInv, TypeOK, ReadPrevious, data, row, outcome, bounds

LEMMA FindTypes ==
    ASSUME TInv, NEW c \in Checks, FindState(c)
    PROVE  TInv'
<1>1. /\ chk[c] \in Check /\ chk[c].call = "find" /\ chk[c].point \in 1..Len(points)
      /\ chk[c].cur \in Geofences \ chk[c].todo
    BY DEF FindState, At, TInv, TypeOK, Shapes, CallShape, AtRow
<1>2. CallShape(chk[c])'
    BY <1>1, AtTheRow DEF TInv, CallShape, AtRow, Answering, Same, FindState, data
<1>3. Moves(c)
    BY DEF Moves, CheckStep
<1>. QED  BY <1>2, <1>3, AtTheRow, QuietTypes
           DEF TInv, TypeOK, FindState, data, row, outcome, bounds

LEMMA SaveTypes ==
    ASSUME TInv, NEW c \in Checks, SaveState(c)
    PROVE  TInv'
<1>1. /\ chk[c] \in Check /\ chk[c].point \in 1..Len(points) /\ chk[c].point \in Nat
      /\ chk[c].cur \in Geofences
    BY DEF SaveState, At, TInv, TypeOK, Shapes, CallShape, Check, AtRow
<1>2. CallShape(chk[c])'
    BY <1>1, PastRow, IdleCheck DEF CallShape, AtRow, Answering, SaveState, data
<1>3. PresenceIn(chk[c].inside, chk[c].cur) \in Presence
    BY DEF PresenceIn, Presence
<1>4. /\ state' \in [Geofences -> Presence \cup {"none"}] /\ since' \in [Geofences -> Nat]
      /\ excused' \subseteq Geofences
    BY <1>1, <1>3 DEF SaveState, TInv, TypeOK
<1>5. Moves(c)
    BY DEF Moves, CheckStep
<1>. QED  BY <1>2, <1>4, <1>5, PastRow, QuietTypes
           DEF TInv, TypeOK, SaveState, data, outcome, bounds

LEMMA IdleTypes ==
    ASSUME TInv, NEW c \in Checks, Moves(c), chk'[c] = Idle,
           UNCHANGED <<data, state, since, outcome, edits, restarts>>,
           excused' \subseteq Geofences, faults' \in 0..MaxFaults
    PROVE  TInv'
<1>1. CallShape(chk[c])'
    BY IdleCheck DEF CallShape, AtRow, Answering
<1>. QED  BY <1>1, IdleCheck, QuietTypes DEF TInv, TypeOK, outcome

\* A step that only changes where the check is.
LEMMA MovedTypes ==
    ASSUME TInv, NEW c \in Checks, Moves(c), NEW k \in {"create", "setCooldown"},
           chk' = [chk EXCEPT ![c].call = k], Answering(chk[c])
    PROVE  /\ chk'[c] \in Check /\ chk[c].viol # <<>> /\ chk'[c].viol = chk[c].viol
           /\ chk'[c].point = chk[c].point /\ chk[c].point \in 1..Len(points)
           /\ chk'[c].call = k /\ chk'[c].todo = chk[c].todo /\ chk[c].todo = {}
           /\ Head(chk[c].viol) \in Violations
<1>1. /\ chk[c] \in Check /\ chk[c].viol # <<>> /\ chk[c].point \in 1..Len(points)
      /\ chk[c].todo = {}
    BY DEF TInv, TypeOK, Shapes, CallShape, Answering
<1>2. k \in Calls
    BY DEF Calls
<1>3. chk[c].viol \in Seq(Violations) /\ Head(chk[c].viol) \in Violations
    BY <1>1, CheckFields, InTail DEF TInv
<1>4. /\ chk'[c] \in Check /\ Same(chk[c], chk'[c]) /\ chk'[c].call = k
      /\ chk'[c].todo = chk[c].todo /\ chk'[c].viol = chk[c].viol
    BY <1>2, OnlyCall DEF TInv
<1>. QED  BY <1>1, <1>3, <1>4 DEF Same

LEMMA GetTypes ==
    ASSUME TInv, NEW c \in Checks, GetCooldown(c)
    PROVE  TInv'
<1> DEFINE a == Head(chk[c].viol)
<1>1. /\ chk[c] \in Check /\ chk[c].call = "getCooldown" /\ chk[c].viol # <<>>
      /\ chk[c].point \in 1..Len(points) /\ Len(points) \in Nat /\ Len(points) <= MaxPoints
      /\ chk[c].viol \in Seq(Violations) /\ Answering(chk[c]) /\ chk[c].todo = {}
    BY DEF GetCooldown, At, TInv, TypeOK, Shapes, CallShape, Answering, Check
<1>2. Moves(c)
    BY DEF Moves, CheckStep
<1>3. CASE cooldown[a] > 0
    <2>1. /\ suppressed' = [suppressed EXCEPT ![a] = @ \cup {chk[c].point}]
          /\ chk'[c] = NextViolation(chk[c])
        BY <1>3 DEF GetCooldown, TInv, TypeOK
    <2>2. CallShape(chk[c])'
        BY <1>1, <2>1, PastViolation, IdleCheck
        DEF TInv, CallShape, AtRow, Answering, Same, GetCooldown, data
    <2>3. chk[c].point \in 1..MaxPoints
        BY <1>1, ConstantsAssumption
    <2>4. suppressed' \in [Violations -> SUBSET (1..MaxPoints)]
        BY <2>1, <2>3 DEF TInv, TypeOK
    <2>. QED  BY <1>1, <1>2, <2>1, <2>2, <2>4, PastViolation, QuietTypes
               DEF TInv, TypeOK, GetCooldown, data, row, bounds
<1>4. CASE ~(cooldown[a] > 0)
    <2>1. suppressed' = suppressed /\ chk' = [chk EXCEPT ![c].call = "create"]
        BY <1>4 DEF GetCooldown
    <2>2. CallShape(chk[c])'
        BY <1>1, <1>2, <2>1, MovedTypes DEF CallShape, AtRow, Answering, GetCooldown, data
    <2>. QED  BY <1>1, <1>2, <2>1, <2>2, MovedTypes, QuietTypes
               DEF TInv, TypeOK, GetCooldown, data, row, bounds
<1>. QED  BY <1>3, <1>4

LEMMA CreateTypes ==
    ASSUME TInv, NEW c \in Checks, CreateAlert(c)
    PROVE  TInv'
<1> DEFINE a == Head(chk[c].viol)
<1>1. /\ chk[c] \in Check /\ chk[c].call = "create" /\ Len(points) \in Nat
      /\ chk[c].point \in 1..Len(points) /\ Len(points) <= MaxPoints /\ Answering(chk[c])
    BY DEF CreateAlert, At, TInv, TypeOK, Shapes, CallShape, Answering, Check
<1>2. Moves(c)
    BY DEF Moves, CheckStep
<1>3. /\ chk' = [chk EXCEPT ![c].call = "setCooldown"]
      /\ alerts' = [alerts EXCEPT ![a] = @ \cup {chk[c].point}] /\ points' = points
    BY DEF CreateAlert, data
<1>4. chk[c].point \in 1..MaxPoints
    BY <1>1, ConstantsAssumption
<1>5. /\ chk' = [chk EXCEPT ![c] = chk'[c]] /\ \A d \in Checks \ {c} : chk'[d] = chk[d]
    BY <1>2, OthersStay DEF TInv
<1>6. TypeOK'
    <2>1. chk' \in [Checks -> Check]
        BY <1>1, <1>2, <1>3, <1>5, MovedTypes DEF TInv, TypeOK
    <2>2. alerts' \in [Violations -> SUBSET (1..MaxPoints)]
        BY <1>3, <1>4 DEF TInv, TypeOK
    <2>. QED  BY <2>1, <2>2 DEF TInv, TypeOK, CreateAlert, data, row, bounds
<1>7. Grown
    BY <1>1, <1>3 DEF Grown, TInv, TypeOK
<1>8. CallShape(chk[c])'
    <2>1. /\ chk'[c].call = "setCooldown" /\ chk'[c].viol = chk[c].viol /\ chk[c].viol # <<>>
          /\ chk'[c].point = chk[c].point /\ a \in Violations /\ chk'[c].todo = {}
        BY <1>1, <1>2, <1>3, MovedTypes
    <2>2. chk[c].point \in alerts'[a]
        BY <1>3, <2>1 DEF TInv, TypeOK
    <2>. QED  BY <1>1, <1>3, <2>1, <2>2 DEF CallShape, AtRow, Answering
<1>. QED  BY <1>1, <1>3, <1>5, <1>6, <1>7, <1>8, ShapesKept

LEMMA SetTypes ==
    ASSUME TInv, NEW c \in Checks, SetCooldown(c)
    PROVE  TInv'
<1>1. /\ chk[c] \in Check /\ chk[c].call = "setCooldown" /\ chk[c].viol # <<>>
      /\ chk[c].point \in 1..Len(points) /\ chk[c].todo = {}
    BY DEF SetCooldown, At, TInv, TypeOK, Shapes, CallShape, Answering
<1>2. Moves(c)
    BY DEF Moves, CheckStep
<1>3. chk'[c] = NextViolation(chk[c])
    BY DEF SetCooldown, TInv, TypeOK
<1>4. CallShape(chk[c])'
    BY <1>1, <1>3, PastViolation, IdleCheck
    DEF TInv, CallShape, AtRow, Answering, Same, SetCooldown, data
<1>5. cooldown' \in [Violations -> 0..CooldownTTL]
    <2>1. CooldownTTL \in 0..CooldownTTL
        BY ConstantsAssumption
    <2>. QED  BY <2>1 DEF SetCooldown, TInv, TypeOK
<1>. QED  BY <1>1, <1>2, <1>3, <1>4, <1>5, PastViolation, QuietTypes
           DEF TInv, TypeOK, SetCooldown, data, row, bounds

LEMMA LostTypes == \A k : Lost(k) \subseteq Geofences
BY DEF Lost

LEMMA FailTypes ==
    ASSUME TInv, NEW c \in Checks, CallFails(c)
    PROVE  TInv'
<1>1. Moves(c) /\ faults' \in 0..MaxFaults /\ excused' \subseteq Geofences
    BY ConstantsAssumption, LostTypes DEF Moves, CallFails, TInv, TypeOK
<1>2. CASE At(c, "getCooldown")
    <2>1. chk' = [chk EXCEPT ![c].call = "create"] /\ Answering(chk[c])
        BY <1>2 DEF CallFails, At, Answering, TInv, TypeOK
    <2>2. CallShape(chk[c])'
        BY <1>1, <2>1, MovedTypes DEF CallShape, AtRow, Answering, CallFails, data
    <2>. QED  BY <1>1, <2>1, <2>2, MovedTypes, QuietTypes
               DEF TInv, TypeOK, CallFails, data, outcome
<1>3. CASE ~At(c, "getCooldown")
    <2>1. chk'[c] = Idle
        BY <1>3 DEF CallFails, TInv, TypeOK
    <2>. QED  BY <1>1, <2>1, IdleTypes DEF CallFails
<1>. QED  BY <1>2, <1>3

\* An owner's step.
Edit(g) == Assign(g) \/ Retype(g) \/ Redraw(g)

LEMMA EditTypes ==
    ASSUME TInv, NEW g \in Geofences, Edit(g)
    PROVE  /\ edits' \in 0..MaxEdits /\ assigned' \subseteq Geofences
           /\ zone' \in [Geofences -> ZoneTypes] /\ geom' \in [Geofences -> BOOLEAN]
           /\ excused' \subseteq Geofences
           /\ UNCHANGED <<points, state, since, chk, outcome, faults, restarts>>
<1>1. edits' = edits + 1 /\ edits < MaxEdits /\ edits \in Nat
    BY DEF TInv, TypeOK, Edit, Assign, Retype, Redraw
<1>2. edits' \in 0..MaxEdits
    BY <1>1, ConstantsAssumption
<1>3. CASE Assign(g)
    BY <1>2, <1>3 DEF Assign, TInv, TypeOK, row
<1>4. CASE Retype(g)
    BY <1>2, <1>4 DEF Retype, TInv, TypeOK, ZoneTypes
<1>5. CASE Redraw(g)
    BY <1>2, <1>5 DEF Redraw, TInv, TypeOK, row
<1>. QED  BY <1>3, <1>4, <1>5 DEF Edit

LEMMA OutsideTypes ==
    ASSUME TInv, (\E g \in Geofences : Edit(g)) \/ Tick \/ UNCHANGED vars
    PROVE  TInv'
<1>1. /\ chk' = chk /\ points' = points /\ alerts' = alerts /\ suppressed' = suppressed
      /\ state' = state /\ since' = since /\ faults' = faults /\ restarts' = restarts
    BY EditTypes DEF Tick, vars, data, row, outcome, bounds
<1>2. /\ edits' \in 0..MaxEdits /\ assigned' \subseteq Geofences
      /\ zone' \in [Geofences -> ZoneTypes] /\ geom' \in [Geofences -> BOOLEAN]
      /\ excused' \subseteq Geofences
    BY EditTypes DEF TInv, TypeOK, Tick, vars, data, row, bounds
<1>3. cooldown' \in [Violations -> 0..CooldownTTL]
    <2>1. CASE \E g \in Geofences : Edit(g)
        BY <2>1, EditTypes DEF TInv, TypeOK, outcome
    <2>2. CASE Tick
        BY <2>2, ConstantsAssumption DEF TInv, TypeOK, Tick
    <2>3. CASE UNCHANGED vars
        BY <2>3 DEF TInv, TypeOK, vars
    <2>. QED  BY <2>1, <2>2, <2>3
<1>4. TypeOK'
    BY <1>1, <1>2, <1>3 DEF TInv, TypeOK
<1>5. Shapes'
    BY <1>1 DEF TInv, Shapes, CallShape
<1>. QED  BY <1>4, <1>5 DEF TInv

LEMMA RestartTypes == ASSUME TInv, Restart PROVE TInv'
<1>1. /\ chk' = [c \in Checks |-> Idle] /\ points' = points
      /\ restarts' \in 0..MaxRestarts /\ geom' \in [Geofences -> BOOLEAN]
      /\ excused' \subseteq Geofences
    <2>1. restarts' \in 0..MaxRestarts
        BY ConstantsAssumption DEF Restart, TInv, TypeOK
    <2>2. geom' \in [Geofences -> BOOLEAN]
        BY DEF Restart, TInv, TypeOK
    <2>3. excused' \subseteq Geofences
        BY LostTypes DEF Restart, TInv, TypeOK
    <2>. QED  BY <2>1, <2>2, <2>3 DEF Restart
<1>2. TypeOK'
    BY <1>1, IdleCheck DEF TInv, TypeOK, Restart, outcome
<1>3. Shapes'
    BY <1>1, IdleCheck DEF TInv, Shapes, CallShape, AtRow, Answering
<1>. QED  BY <1>2, <1>3 DEF TInv

LEMMA StepTypes == ASSUME TInv, [Next]_vars PROVE TInv'
<1>1. ASSUME NEW c \in Checks, CheckStep(c) \/ CallFails(c) PROVE TInv'
    <2>1. CASE SaveConflicts(c)
        <3>1. Moves(c) /\ chk'[c] = Idle /\ excused' \subseteq Geofences
            BY <2>1, LostTypes DEF SaveConflicts, TInv, TypeOK, Moves, CheckStep
        <3>. QED  BY <2>1, <3>1, IdleTypes DEF SaveConflicts, bounds, TInv, TypeOK
    <2>. QED  BY <1>1, <2>1, QueryTypes, ReadTypes, FindTypes, SaveTypes, GetTypes,
                 CreateTypes, SetTypes, FailTypes DEF CheckStep
<1>. QED  BY <1>1, StartTypes, OutsideTypes, RestartTypes DEF Next, Edit

(* Every variable keeps its shape, a check its place in its own code: it answers
   only violations it has collected, and is at a row it has not visited yet. *)
THEOREM TypeCorrect == Spec => [](TypeOK /\ Shapes)
<1>. QED  BY InitialTypes, StepTypes, PTL DEF Spec, TInv

-----------------------------------------------------------------------------
(* An alert is true of its point. *)

LEMMA PointsKept ==
    ASSUME TInv, [Next]_vars
    PROVE  /\ Len(points) \in Nat /\ Len(points') \in Nat /\ Len(points) <= Len(points')
           /\ \A i \in 1..Len(points) : points'[i] = points[i]
<1>1. ASSUME NEW c \in Checks, NEW w \in SUBSET Geofences, StartCheck(c, w)
      PROVE  /\ Len(points') = Len(points) + 1
             /\ \A i \in 1..Len(points) : points'[i] = points[i]
    BY <1>1, StartTypes
<1>2. ASSUME NEW c \in Checks, CheckStep(c) \/ CallFails(c) PROVE points' = points
    BY <1>2 DEF CheckStep, Query, ReadPrevious, FindState, SaveState, SaveConflicts,
                GetCooldown, CreateAlert, SetCooldown, CallFails, data
<1>3. CASE (\E g \in Geofences : Edit(g)) \/ Restart \/ Tick \/ UNCHANGED vars
    BY <1>3, EditTypes DEF Restart, Tick, data, vars, TInv, TypeOK
<1>4. Len(points) \in Nat
    BY DEF TInv, TypeOK
<1>. QED  BY <1>1, <1>2, <1>3, <1>4 DEF Next, Edit

LEMMA AlertsOnlyByCreate ==
    ASSUME TInv, [Next]_vars
    PROVE  \/ alerts' = alerts
           \/ \E c \in Checks : CreateAlert(c)
<1>1. ASSUME NEW c \in Checks, CheckStep(c) \/ CallFails(c), ~CreateAlert(c)
      PROVE  alerts' = alerts
    BY <1>1 DEF CheckStep, Query, ReadPrevious, FindState, SaveState, SaveConflicts,
                GetCooldown, SetCooldown, CallFails, outcome
<1>2. ASSUME NEW c \in Checks, NEW w \in SUBSET Geofences, StartCheck(c, w)
      PROVE  alerts' = alerts
    BY <1>2 DEF StartCheck, outcome
<1>3. CASE (\E g \in Geofences : Edit(g)) \/ Restart \/ Tick \/ UNCHANGED vars
    BY <1>3, EditTypes DEF Restart, Tick, outcome, vars
<1>. QED  BY <1>1, <1>2, <1>3 DEF Next, Edit

LEMMA RestartsGrow == ASSUME TInv, [Next]_vars, restarts' = 0 PROVE restarts = 0 /\ ~Restart
<1>1. ~Restart
    BY DEF Restart, TInv, TypeOK
<1>2. (\E g \in Geofences : Edit(g)) => restarts' = restarts
    BY EditTypes
<1>. QED  BY <1>1, <1>2 DEF Next, Edit, CheckStep, StartCheck, Query, ReadPrevious, FindState,
          SaveState, SaveConflicts, GetCooldown, CreateAlert, SetCooldown, CallFails,
          Tick, bounds, vars

LEMMA CreatedAlert ==
    ASSUME TInv, NEW c \in Checks, CreateAlert(c)
    PROVE  /\ Head(chk[c].viol) \in Violations /\ Found(chk[c], Head(chk[c].viol))
           /\ chk[c].point \in 1..Len(points)
           /\ \A a \in Violations : alerts'[a] =
                 IF a = Head(chk[c].viol) THEN alerts[a] \cup {chk[c].point} ELSE alerts[a]
           /\ chk'[c].point = chk[c].point /\ chk'[c].viol = chk[c].viol
           /\ chk'[c].todo = chk[c].todo /\ chk'[c].inside = chk[c].inside
           /\ chk'[c].call = "setCooldown"
<1>1. chk[c].viol # <<>> /\ chk[c].viol \in Seq(Violations) /\ chk[c].point \in 1..Len(points)
    BY CheckFields DEF CreateAlert, At, TInv, Shapes, CallShape, Answering
<1>2. /\ Head(chk[c].viol) \in Violations /\ Found(chk[c], Head(chk[c].viol))
    BY <1>1, InTail DEF Found
<1>3. "setCooldown" \in Calls
    BY DEF Calls
<1>4. /\ Same(chk[c], chk'[c]) /\ chk'[c].viol = chk[c].viol /\ chk'[c].todo = chk[c].todo
      /\ chk'[c].call = "setCooldown"
    BY <1>3, OnlyCall DEF CreateAlert, TInv
<1>. QED  BY <1>1, <1>2, <1>4 DEF CreateAlert, TInv, TypeOK, Same

LEMMA StepPast == ASSUME TInv, PastAlerts, [Next]_vars PROVE PastAlerts'
<1>1. CASE alerts' = alerts
    BY <1>1, PointsKept DEF PastAlerts
<1>2. ASSUME NEW c \in Checks, CreateAlert(c) PROVE PastAlerts'
    <2>1. points' = points
        BY <1>2 DEF CreateAlert, data
    <2>2. ASSUME NEW a \in Violations PROVE alerts'[a] \subseteq 1..Len(points)
        <3>1. /\ alerts'[a] \subseteq alerts[a] \cup {chk[c].point}
              /\ chk[c].point \in 1..Len(points)
            BY <1>2, CreatedAlert
        <3>. QED  BY <3>1 DEF PastAlerts
    <2>. QED  BY <2>1, <2>2 DEF PastAlerts
<1>. QED  BY <1>1, <1>2, AlertsOnlyByCreate

LEMMA ViolatesKept ==
    ASSUME TInv, [Next]_vars, NEW a \in Violations, NEW i \in 1..Len(points)
    PROVE  Violates(a, i)' <=> Violates(a, i)
<1>1. points'[i] = points[i]
    BY PointsKept
<1>. QED  BY <1>1 DEF Violates

LEMMA TrueKept ==
    ASSUME TInv, [Next]_vars, NEW d \in Checks, chk'[d] = chk[d], TrueCheck(chk[d])
    PROVE  TrueCheck(chk[d])'
<1>1. CASE chk[d].call = "idle"
    BY <1>1, IdleCheck DEF TInv, Shapes, CallShape, TrueCheck, Ahead, AtRow
<1>2. CASE chk[d].call # "idle"
    <2>1. chk[d].point \in 1..Len(points)
        BY <1>2 DEF TInv, Shapes, CallShape
    <2>2. points'[chk[d].point] = points[chk[d].point]
        BY <2>1, PointsKept
    <2>. QED  BY <2>2, RestartsGrow DEF TrueCheck, Violates
<1>. QED  BY <1>1, <1>2

LEMMA TrueShrinks ==
    ASSUME TInv, [Next]_vars,
           NEW c \in Checks, TrueCheck(chk[c]), points' = points, Same(chk[c], chk'[c]),
           Ahead(chk'[c]) \subseteq Ahead(chk[c]),
           \A a \in Violations : Found(chk'[c], a) => Found(chk[c], a)
    PROVE  TrueCheck(chk[c])'
BY RestartsGrow DEF TrueCheck, Same, Violates, Ahead, Found, In

LEMMA IdleIsTrue ==
    ASSUME NEW c \in Checks, chk'[c] = Idle PROVE TrueCheck(chk[c])'
BY IdleCheck DEF TrueCheck, Ahead

LEMMA StartIsTrue ==
    ASSUME TInv, NEW c \in Checks, NEW w \in SUBSET Geofences, StartCheck(c, w)
    PROVE  TrueCheck(chk[c])'
<1>1. chk'[c].call = "query" /\ chk'[c].todo = {} /\ chk'[c].viol = <<>>
    BY StartTypes DEF TInv, Shapes, CallShape
<1>. QED  BY <1>1 DEF TrueCheck, Ahead, Found, In

LEMMA QueryIsTrue ==
    ASSUME TInv, NEW c \in Checks, Query(c), TrueCheck(chk[c]),
           restarts = 0 => \A g \in Geofences : geom[g]
    PROVE  TrueCheck(chk[c])'
<1>1. CASE chk'[c] = Idle
    BY <1>1, IdleIsTrue
<1>2. CASE chk'[c] # Idle
    <2>1. /\ chk'[c].call = "previous" /\ chk'[c].point = chk[c].point
          /\ chk'[c].todo = assigned /\ chk'[c].viol = chk[c].viol
          /\ chk'[c].inside = {g \in assigned \cap points[chk[c].point] : geom[g]}
          /\ chk[c].viol = <<>> /\ assigned \subseteq Geofences /\ points' = points
          /\ restarts' = restarts
        BY <1>2, QueryTypes DEF TInv, Shapes, CallShape, TypeOK, Query, data, bounds
    <2>2. Ahead(chk'[c]) = assigned
        BY <2>1 DEF Ahead
    <2>3. \A g \in assigned :
             /\ g \in chk'[c].inside => g \in points'[chk'[c].point]
             /\ restarts' = 0 /\ g \in points'[chk'[c].point] => g \in chk'[c].inside
        BY <2>1
    <2>. QED  BY <2>1, <2>2, <2>3 DEF TrueCheck, Found, In
<1>. QED  BY <1>1, <1>2

\* What the row at hand makes a violation is one.
LEMMA JudgedTrue ==
    ASSUME TInv, NEW c \in Checks, AtRow(chk[c]), TrueCheck(chk[c]),
           NEW a \in Violations, Judges(chk[c], a), a[1] = "GEOFENCE_ENTRY" \/ restarts = 0
    PROVE  Violates(a, chk[c].point)
<1>1. /\ a[2] = chk[c].cur /\ PresenceIn(chk[c].inside, a[2]) = SideOf(a[1])
      /\ a[2] \in Ahead(chk[c])
    BY DEF Judges, Ahead, AtRow
<1>2. CASE restarts = 0
    BY <1>1, <1>2 DEF TrueCheck, PresenceIn, Violates
<1>3. CASE a[1] = "GEOFENCE_ENTRY"
    <2>1. a[2] \in chk[c].inside
        BY <1>1, <1>3 DEF PresenceIn, SideOf
    <2>. QED  BY <1>1, <1>3, <2>1 DEF TrueCheck, PresenceIn, Violates, SideOf
<1>. QED  BY <1>2, <1>3

LEMMA SaveIsTrue ==
    ASSUME TInv, NEW c \in Checks, SaveState(c), TrueCheck(chk[c])
    PROVE  TrueCheck(chk[c])'
<1>1. /\ points' = points /\ restarts' = restarts /\ AtRow(chk[c])
      /\ chk[c].todo \subseteq Ahead(chk[c])
    BY DEF SaveState, data, bounds, Ahead, AtRow, At
<1>2. CASE chk'[c] = Idle
    BY <1>2, IdleIsTrue
<1>3. CASE chk'[c] # Idle
    <2>1. /\ chk'[c].point = chk[c].point /\ chk'[c].call \in {"previous", "getCooldown"}
          /\ chk'[c].inside = chk[c].inside \cap chk[c].todo /\ chk'[c].todo = chk[c].todo
        BY <1>3, PastRow
    <2>2. \A g \in Ahead(chk'[c]) :
             /\ g \in chk'[c].inside => g \in points'[chk'[c].point]
             /\ restarts' = 0 /\ g \in points'[chk'[c].point] => g \in chk'[c].inside
        BY <1>1, <2>1 DEF Ahead, TrueCheck
    <2>3. ASSUME NEW a \in Violations, Found(chk'[c], a),
                 a[1] = "GEOFENCE_ENTRY" \/ restarts = 0
          PROVE  Violates(a, chk[c].point)
        BY <1>1, <2>3, PastRow, JudgedTrue DEF TrueCheck
    <2>. QED  BY <1>1, <2>1, <2>2, <2>3 DEF TrueCheck, Violates
<1>. QED  BY <1>2, <1>3

LEMMA AnswerIsTrue ==
    ASSUME TInv, [Next]_vars, NEW c \in Checks, TrueCheck(chk[c]), points' = points,
           Answering(chk[c]),
           \/ chk'[c] = NextViolation(chk[c])
           \/ \E k \in {"create", "setCooldown"} : chk' = [chk EXCEPT ![c].call = k]
    PROVE  TrueCheck(chk[c])'
<1>1. chk[c].viol # <<>>
    BY DEF TInv, Shapes, CallShape
<1>2. CASE chk'[c] = NextViolation(chk[c])
    <2>1. CASE chk'[c] = Idle
        BY <2>1, IdleIsTrue
    <2>2. CASE chk'[c] # Idle
        <3>1. /\ Same(chk[c], chk'[c]) /\ chk'[c].call = "getCooldown"
              /\ chk'[c].todo = chk[c].todo
              /\ \A a \in Violations : Found(chk'[c], a) => Found(chk[c], a)
            BY <1>1, <1>2, <2>2, PastViolation DEF TInv
        <3>. QED  BY <3>1, TrueShrinks DEF Ahead, AtRow
    <2>. QED  BY <2>1, <2>2
<1>3. ASSUME NEW k \in {"create", "setCooldown"}, chk' = [chk EXCEPT ![c].call = k]
      PROVE  TrueCheck(chk[c])'
    <2>1. k \in Calls
        BY DEF Calls
    <2>2. /\ Same(chk[c], chk'[c]) /\ chk'[c].call = k
          /\ chk'[c].todo = chk[c].todo /\ chk'[c].viol = chk[c].viol
        BY <1>3, <2>1, OnlyCall DEF TInv
    <2>. QED  BY <2>2, TrueShrinks DEF Ahead, AtRow, Found
<1>. QED  BY <1>2, <1>3

LEMMA MoveIsTrue ==
    ASSUME TInv, [Next]_vars, NEW c \in Checks, Moves(c), TrueCheck(chk[c]),
           restarts = 0 => \A g \in Geofences : geom[g]
    PROVE  TrueCheck(chk[c])'
<1>1. CASE \E w \in SUBSET Geofences : StartCheck(c, w)
    BY <1>1, StartIsTrue
<1>2. CASE Query(c)
    BY <1>2, QueryIsTrue
<1>3. ASSUME NEW g \in Geofences, ReadPrevious(c, g) PROVE TrueCheck(chk[c])'
    <2>1. points' = points
        BY <1>3 DEF ReadPrevious, data
    <2>. QED  BY <1>3, <2>1, ToRow, TrueShrinks DEF TInv, Ahead, AtRow, Found
<1>4. CASE FindState(c)
    <2>1. points' = points
        BY <1>4 DEF FindState, data
    <2>. QED  BY <1>4, <2>1, AtTheRow, TrueShrinks DEF TInv, Ahead, AtRow, Found
<1>5. CASE SaveState(c)
    BY <1>5, SaveIsTrue
<1>6. CASE SaveConflicts(c)
    BY <1>6, IdleIsTrue DEF SaveConflicts, TInv, TypeOK
<1>7. CASE GetCooldown(c)
    <2>1. points' = points /\ Answering(chk[c])
        BY <1>7 DEF GetCooldown, data, At, Answering
    <2>2. \/ chk'[c] = NextViolation(chk[c])
          \/ chk' = [chk EXCEPT ![c].call = "create"]
        BY <1>7 DEF GetCooldown, TInv, TypeOK
    <2>. QED  BY <2>1, <2>2, AnswerIsTrue
<1>8. CASE CreateAlert(c)
    BY <1>8, AnswerIsTrue DEF CreateAlert, data, At, Answering
<1>9. CASE SetCooldown(c)
    <2>1. /\ points' = points /\ Answering(chk[c])
          /\ chk'[c] = NextViolation(chk[c])
        BY <1>9 DEF SetCooldown, data, At, Answering, TInv, TypeOK
    <2>. QED  BY <2>1, AnswerIsTrue
<1>10. CASE CallFails(c)
    <2>1. CASE At(c, "getCooldown")
        BY <1>10, <2>1, AnswerIsTrue DEF CallFails, data, At, Answering
    <2>2. CASE ~At(c, "getCooldown")
        BY <1>10, <2>2, IdleIsTrue DEF CallFails, TInv, TypeOK
    <2>. QED  BY <2>1, <2>2
<1>. QED  BY <1>1, <1>2, <1>3, <1>4, <1>5, <1>6, <1>7, <1>8, <1>9, <1>10 DEF Moves, CheckStep

LEMMA StepTruth ==
    ASSUME TInv, PastAlerts, TruthSoFar, [Next]_vars
    PROVE  TruthSoFar'
<1>1. ASSUME restarts' = 0, NEW g \in Geofences PROVE geom'[g]
    <2>1. restarts = 0 /\ ~Restart /\ geom[g]
        BY <1>1, RestartsGrow DEF TruthSoFar
    <2>2. ASSUME NEW h \in Geofences, Edit(h) PROVE geom'[g]
        BY <2>1, <2>2 DEF Edit, Assign, Retype, Redraw, TInv, TypeOK
    <2>3. ASSUME ~\E h \in Geofences : Edit(h) PROVE geom' = geom
        BY <2>1, <2>3 DEF Next, Edit, CheckStep, StartCheck, Query, ReadPrevious, FindState,
           SaveState, SaveConflicts, GetCooldown, CreateAlert, SetCooldown, CallFails, Tick,
           data, vars
    <2>. QED  BY <2>1, <2>2, <2>3
<1>2. FalseAlertsNeedARestart'
    <2>1. ASSUME NEW a \in Violations, NEW i \in alerts[a],
                 a[1] = "GEOFENCE_ENTRY" \/ restarts' = 0
          PROVE  Violates(a, i)'
        BY <2>1, ViolatesKept, RestartsGrow DEF TruthSoFar, FalseAlertsNeedARestart, PastAlerts
    <2>2. CASE alerts' = alerts
        BY <2>1, <2>2 DEF FalseAlertsNeedARestart
    <2>3. ASSUME NEW c \in Checks, CreateAlert(c) PROVE FalseAlertsNeedARestart'
        <3>1. PICK h \in Violations : h = Head(chk[c].viol)
            BY <2>3, CreatedAlert
        <3>2. PICK q \in Nat : q = chk[c].point
            BY CheckFields DEF TInv
        <3>3. points' = points /\ restarts' = restarts
            BY <2>3 DEF CreateAlert, data, bounds
        <3>4. ASSUME h[1] = "GEOFENCE_ENTRY" \/ restarts' = 0 PROVE Violates(h, q)
            BY <2>3, <3>1, <3>2, <3>3, <3>4, CreatedAlert DEF TruthSoFar, TrueCheck
        <3>5. ASSUME NEW a \in Violations, NEW i \in alerts'[a],
                     a[1] = "GEOFENCE_ENTRY" \/ restarts' = 0
              PROVE  Violates(a, i)'
            <4>1. CASE i \in alerts[a]
                BY <2>1, <3>5, <4>1
            <4>2. CASE i \notin alerts[a]
                <5>1. alerts'[a] = IF a = h THEN alerts[a] \cup {q} ELSE alerts[a]
                    BY <2>3, <3>1, <3>2, CreatedAlert
                <5>2. a = h /\ i = q
                    BY <3>5, <4>2, <5>1
                <5>. QED  BY <3>3, <3>4, <3>5, <5>2 DEF Violates
            <4>. QED  BY <4>1, <4>2
        <3>. QED  BY <3>5 DEF FalseAlertsNeedARestart
    <2>. QED  BY <2>2, <2>3, AlertsOnlyByCreate
<1>3. ASSUME NEW d \in Checks PROVE TrueCheck(chk[d])'
    <2>1. ASSUME NEW c \in Checks, Moves(c) PROVE TrueCheck(chk[d])'
        BY <2>1, MoveIsTrue, OthersStay, TrueKept DEF TInv, TruthSoFar
    <2>2. CASE Restart
        BY <2>2, IdleIsTrue DEF Restart
    <2>3. ASSUME ~(\E c \in Checks : Moves(c)), ~Restart PROVE chk' = chk
        BY <2>3, EditTypes DEF Next, Moves, Edit, Tick, vars
    <2>. QED  BY <2>1, <2>2, <2>3, TrueKept DEF TruthSoFar
<1>. QED  BY <1>1, <1>2, <1>3 DEF TruthSoFar

(* However checks, edits and failures interleave, an entry alert is true of the
   point it was raised at, and an exit alert as long as the backend was not
   restarted. *)
THEOREM AlertsNeedNoRestart == Spec => []FalseAlertsNeedARestart
<1>1. ASSUME Init PROVE PastAlerts /\ TruthSoFar
    BY <1>1, IdleCheck
    DEF Init, PastAlerts, TruthSoFar, FalseAlertsNeedARestart, TrueCheck, Ahead
<1>2. ASSUME TruthSoFar PROVE FalseAlertsNeedARestart
    BY <1>2 DEF TruthSoFar
<1>. QED  BY <1>1, <1>2, InitialTypes, StepTypes, StepPast, StepTruth, PTL DEF Spec

-----------------------------------------------------------------------------
(* A stored violation is answered. *)

LEMMA PendingIs ==
    ASSUME NEW a \in Violations
    PROVE  /\ Pending(a) = {chk[c].point : c \in {k \in Checks : Found(chk[k], a)}}
           /\ Pending(a)' = {chk'[c].point : c \in {k \in Checks : Found(chk'[k], a)}}
BY DEF Pending, Found, In

LEMMA AnswersGrow ==
    ASSUME NEW a \in Violations, NEW c \in Checks,
           \A d \in Checks \ {c} : chk'[d] = chk[d],
           alerts[a] \subseteq alerts'[a], suppressed[a] \subseteq suppressed'[a],
           Found(chk[c], a) =>
              \/ Found(chk'[c], a) /\ chk'[c].point = chk[c].point
              \/ chk[c].point \in alerts'[a] \cup suppressed'[a]
    PROVE  Answered(a) \subseteq Answered(a)'
<1>1. ASSUME NEW d \in Checks, Found(chk[d], a)
      PROVE  chk[d].point \in Pending(a)' \cup alerts'[a] \cup suppressed'[a]
    BY <1>1, PendingIs
<1>. QED  BY <1>1, PendingIs DEF Answered

LEMMA AnswersStay ==
    ASSUME NEW a \in Violations, NEW c \in Checks,
           \A d \in Checks \ {c} : chk'[d] = chk[d],
           alerts'[a] \cup suppressed'[a] \subseteq Answered(a),
           Found(chk'[c], a) => Found(chk[c], a) /\ chk'[c].point = chk[c].point
    PROVE  Answered(a)' \subseteq Answered(a)
<1>1. ASSUME NEW d \in Checks, Found(chk'[d], a) PROVE chk'[d].point \in Pending(a)
    BY <1>1, PendingIs
<1>. QED  BY <1>1, PendingIs DEF Answered

\* The check answers nothing and finds nothing.
LEMMA AnswersEqual ==
    ASSUME NEW c \in Checks, \A d \in Checks \ {c} : chk'[d] = chk[d],
           alerts' = alerts, suppressed' = suppressed,
           \A a \in Violations : Found(chk'[c], a) <=> Found(chk[c], a),
           \A a \in Violations : Found(chk[c], a) => chk'[c].point = chk[c].point
    PROVE  \A a \in Violations : Answered(a)' = Answered(a)
<1>1. ASSUME NEW a \in Violations PROVE Answered(a)' = Answered(a)
    <2>1. alerts'[a] \cup suppressed'[a] \subseteq Answered(a)
        BY DEF Answered
    <2>. QED  BY <2>1, AnswersGrow, AnswersStay
<1>. QED  BY <1>1

\* The check answers its first violation.
LEMMA FirstAnswered ==
    ASSUME TypeOK, NEW c \in Checks, \A d \in Checks \ {c} : chk'[d] = chk[d],
           chk[c].viol # <<>>, chk'[c] = NextViolation(chk[c]),
           alerts' = alerts,
           \A a \in Violations : suppressed'[a] \in {suppressed[a], suppressed[a] \cup {chk[c].point}},
           \A a \in Violations : suppressed'[a] # suppressed[a] => a = Head(chk[c].viol),
           chk[c].point \in alerts'[Head(chk[c].viol)] \cup suppressed'[Head(chk[c].viol)]
    PROVE  \A a \in Violations : Answered(a)' = Answered(a)
<1>1. ASSUME NEW a \in Violations PROVE Answered(a)' = Answered(a)
    <2>1. /\ Found(chk[c], a) <=> Found(chk'[c], a) \/ a = Head(chk[c].viol)
          /\ chk'[c] = Idle \/ chk'[c].point = chk[c].point
        BY PastViolation DEF Same
    <2>2. Found(chk'[c], a) => Found(chk[c], a) /\ chk'[c].point = chk[c].point
        BY <2>1, IdleCheck
    <2>3. a = Head(chk[c].viol) => chk[c].point \in Pending(a)
        BY <2>1, PendingIs
    <2>4. alerts'[a] \cup suppressed'[a] \subseteq Answered(a)
        BY <2>3 DEF Answered
    <2>. QED  BY <2>1, <2>2, <2>4, AnswersGrow, AnswersStay
<1>. QED  BY <1>1


LEMMA SavedAnswer ==
    ASSUME TInv, NEW c \in Checks, SaveState(c), NEW a \in Violations
    PROVE  Answered(a)' =
              IF Judges(chk[c], a) THEN Answered(a) \cup {chk[c].point} ELSE Answered(a)
<1>1. /\ Found(chk'[c], a) <=> Found(chk[c], a) \/ Judges(chk[c], a)
      /\ chk'[c] = Idle \/ chk'[c].point = chk[c].point
    BY PastRow
<1>2. Found(chk'[c], a) => chk'[c].point = chk[c].point
    BY <1>1, IdleCheck
<1>3. /\ \A d \in Checks \ {c} : chk'[d] = chk[d]
      /\ alerts' = alerts /\ suppressed' = suppressed
    BY OthersStay DEF Moves, CheckStep, SaveState, outcome, TInv
<1>4. Answered(a) \subseteq Answered(a)'
    BY <1>1, <1>2, <1>3, AnswersGrow
<1>5. CASE Judges(chk[c], a)
    <2>1. chk[c].point \in Answered(a)'
        BY <1>1, <1>2, <1>5, PendingIs DEF Answered
    <2>2. Answered(a)' \subseteq Answered(a) \cup {chk[c].point}
        <3>1. ASSUME NEW d \in Checks, Found(chk'[d], a)
              PROVE  chk'[d].point \in Pending(a) \cup {chk[c].point}
            BY <1>2, <1>3, <3>1, PendingIs
        <3>. QED  BY <1>3, <3>1, PendingIs DEF Answered
    <2>. QED  BY <1>4, <1>5, <2>1, <2>2
<1>6. CASE ~Judges(chk[c], a)
    <2>1. Answered(a)' \subseteq Answered(a)
        BY <1>1, <1>2, <1>3, <1>6, AnswersStay DEF Answered
    <2>. QED  BY <1>4, <1>6, <2>1
<1>. QED  BY <1>5, <1>6

\* The step ends a check that may have something left to say.
CutsShort(c) == SaveConflicts(c) \/ (CallFails(c) /\ ~At(c, "getCooldown"))

\* Unless a check is cut short, only storing a presence changes what is answered.
LEMMA AnsweredOtherwise ==
    ASSUME TInv, [Next]_vars, ~Restart, ~\E c \in Checks : SaveState(c) \/ CutsShort(c)
    PROVE  \A a \in Violations : Answered(a)' = Answered(a)
<1>1. ASSUME NEW c \in Checks, Moves(c) PROVE \A d \in Checks \ {c} : chk'[d] = chk[d]
    BY <1>1, OthersStay DEF TInv
<1>2. ASSUME NEW c \in Checks, NEW w \in SUBSET Geofences, StartCheck(c, w)
      PROVE  \A a \in Violations : Answered(a)' = Answered(a)
    <2>1. Idle = chk[c] /\ \A a \in Violations : ~Found(chk'[c], a)
        BY <1>2, StartTypes DEF Found, In
    <2>. QED  BY <1>1, <1>2, <2>1, IdleCheck, AnswersEqual DEF Moves, StartCheck, outcome
<1>3. ASSUME NEW c \in Checks, Query(c) PROVE \A a \in Violations : Answered(a)' = Answered(a)
    <2>1. chk[c].viol = <<>>
        BY <1>3 DEF Query, At, TInv, Shapes, CallShape
    <2>2. \A a \in Violations : ~Found(chk[c], a) /\ ~Found(chk'[c], a)
        BY <1>3, <2>1, QueryTypes, IdleCheck DEF Found, In
    <2>. QED  BY <1>1, <1>3, <2>2, AnswersEqual DEF Moves, CheckStep, Query, outcome
<1>4. ASSUME NEW c \in Checks, (\E g \in Geofences : ReadPrevious(c, g)) \/ FindState(c)
      PROVE  \A a \in Violations : Answered(a)' = Answered(a)
    <2>1. chk'[c].viol = chk[c].viol /\ chk'[c].point = chk[c].point
        BY <1>4, ToRow, AtTheRow DEF TInv, Same
    <2>. QED  BY <1>1, <1>4, <2>1, AnswersEqual
               DEF Moves, CheckStep, ReadPrevious, FindState, outcome, Found
<1>5. ASSUME NEW c \in Checks, GetCooldown(c)
      PROVE  \A a \in Violations : Answered(a)' = Answered(a)
    <2>1. /\ chk[c].viol # <<>> /\ Head(chk[c].viol) \in Violations /\ alerts' = alerts
          /\ Answering(chk[c])
        BY <1>5, CheckFields, InTail
        DEF GetCooldown, At, TInv, Shapes, CallShape, Answering
    <2>2. CASE cooldown[Head(chk[c].viol)] > 0
        <3>1. /\ suppressed' = [suppressed EXCEPT ![Head(chk[c].viol)] = @ \cup {chk[c].point}]
              /\ chk'[c] = NextViolation(chk[c])
            BY <1>5, <2>2 DEF GetCooldown, TInv, TypeOK
        <3>2. \A a \in Violations : suppressed'[a] =
                 IF a = Head(chk[c].viol) THEN suppressed[a] \cup {chk[c].point} ELSE suppressed[a]
            BY <3>1 DEF TInv, TypeOK
        <3>3. /\ \A a \in Violations :
                    /\ suppressed'[a] \in {suppressed[a], suppressed[a] \cup {chk[c].point}}
                    /\ suppressed'[a] # suppressed[a] => a = Head(chk[c].viol)
              /\ chk[c].point \in suppressed'[Head(chk[c].viol)]
            BY <2>1, <3>2
        <3>4. TypeOK /\ \A d \in Checks \ {c} : chk'[d] = chk[d]
            BY <1>1, <1>5 DEF TInv, Moves, CheckStep
        <3>. QED  BY <2>1, <3>1, <3>3, <3>4, FirstAnswered
    <2>3. CASE ~(cooldown[Head(chk[c].viol)] > 0)
        <3>1. suppressed' = suppressed /\ chk' = [chk EXCEPT ![c].call = "create"]
            BY <1>5, <2>3 DEF GetCooldown
        <3>2. chk'[c].viol = chk[c].viol /\ chk'[c].point = chk[c].point
            BY <1>5, <2>1, <3>1, MovedTypes DEF Moves, CheckStep
        <3>. QED  BY <1>1, <1>5, <2>1, <3>1, <3>2, AnswersEqual DEF Moves, CheckStep, Found
    <2>. QED  BY <2>2, <2>3
<1>6. ASSUME NEW c \in Checks, CreateAlert(c)
      PROVE  \A a \in Violations : Answered(a)' = Answered(a)
    <2>1. ASSUME NEW a \in Violations PROVE Answered(a)' = Answered(a)
        <3>1. Found(chk'[c], a) <=> Found(chk[c], a)
            BY <1>6, CreatedAlert DEF Found
        <3>2. suppressed' = suppressed
            BY <1>6 DEF CreateAlert
        <3>3. a = Head(chk[c].viol) => chk[c].point \in Pending(a)
            BY <1>6, CreatedAlert, PendingIs
        <3>4. alerts'[a] \cup suppressed'[a] \subseteq Answered(a)
            BY <1>6, <3>2, <3>3, CreatedAlert DEF Answered
        <3>5. alerts[a] \subseteq alerts'[a] /\ chk'[c].point = chk[c].point
            BY <1>6, CreatedAlert
        <3>. QED  BY <1>1, <1>6, <3>1, <3>2, <3>4, <3>5, AnswersGrow, AnswersStay
                   DEF Moves, CheckStep
    <2>. QED  BY <2>1
<1>7. ASSUME NEW c \in Checks, SetCooldown(c)
      PROVE  \A a \in Violations : Answered(a)' = Answered(a)
    <2>1. /\ chk[c].viol # <<>> /\ chk[c].point \in alerts[Head(chk[c].viol)]
          /\ chk'[c] = NextViolation(chk[c]) /\ alerts' = alerts /\ suppressed' = suppressed
        BY <1>7 DEF SetCooldown, At, TInv, TypeOK, Shapes, CallShape, Answering
    <2>. QED  BY <1>1, <1>7, <2>1, FirstAnswered DEF TInv, Moves, CheckStep
<1>8. ASSUME NEW c \in Checks, CallFails(c)
      PROVE  \A a \in Violations : Answered(a)' = Answered(a)
    <2>1. /\ chk' = [chk EXCEPT ![c].call = "create"] /\ Answering(chk[c])
          /\ alerts' = alerts /\ suppressed' = suppressed
        BY <1>8 DEF CallFails, CutsShort, At, Answering, TInv, TypeOK, outcome
    <2>2. chk'[c].viol = chk[c].viol /\ chk'[c].point = chk[c].point
        BY <1>8, <2>1, MovedTypes DEF Moves
    <2>. QED  BY <1>1, <1>8, <2>1, <2>2, AnswersEqual DEF Moves, Found
<1>9. CASE (\E g \in Geofences : Edit(g)) \/ Tick \/ UNCHANGED vars
    <2>1. chk' = chk /\ alerts' = alerts /\ suppressed' = suppressed
        BY <1>9, EditTypes DEF Tick, vars, outcome
    <2>. QED  BY <2>1 DEF Answered, Pending
<1>10. ~\E c \in Checks : SaveConflicts(c)
    BY DEF CutsShort
<1>. QED  BY <1>2, <1>3, <1>4, <1>5, <1>6, <1>7, <1>8, <1>9, <1>10 DEF Next, CheckStep, Edit

LEMMA StateOnlyBySave ==
    ASSUME TInv, [Next]_vars, ~\E c \in Checks : SaveState(c)
    PROVE  state' = state /\ since' = since
<1>1. (\E g \in Geofences : Edit(g)) => state' = state /\ since' = since
    BY EditTypes
<1>. QED  BY <1>1 DEF Next, Edit, CheckStep, StartCheck, Query, ReadPrevious, FindState,
          SaveConflicts, GetCooldown, CreateAlert, SetCooldown, CallFails, Restart, Tick,
          row, vars

\* What a check that is cut short would have answered, and is not lost, it has.
LEMMA CutAnswer ==
    ASSUME TInv, NEW c \in Checks, NEW a \in Violations,
           Found(chk[c], a), chk[c].point = since[a[2]], a[2] \notin Lost(chk[c])
    PROVE  since[a[2]] \in alerts[a]
<1>1. PICK n \in 1..Len(chk[c].viol) : chk[c].viol[n] = a
    BY DEF Found, In
<1>2. a[2] \in Geofences
    BY ViolationParts
<1>3. n = 1 /\ chk[c].call = "setCooldown"
    BY <1>1, <1>2 DEF Lost, Owes
<1>4. chk[c].viol \in Seq(Violations)
    BY CheckFields DEF TInv
<1>5. Head(chk[c].viol) = a
    BY <1>1, <1>3, <1>4
<1>. QED  BY <1>3, <1>5 DEF TInv, Shapes, CallShape

LEMMA CutKeeps ==
    ASSUME TInv, NEW a \in Violations, since[a[2]] \in Answered(a),
           alerts' = alerts, suppressed' = suppressed,
           \A d \in Checks : \/ Found(chk'[d], a) = Found(chk[d], a) /\ chk'[d].point = chk[d].point
                             \/ a[2] \notin Lost(chk[d])
    PROVE  since[a[2]] \in Answered(a)'
<1>1. CASE since[a[2]] \in alerts[a] \cup suppressed[a]
    BY <1>1 DEF Answered
<1>2. ASSUME NEW d \in Checks, Found(chk[d], a), chk[d].point = since[a[2]]
      PROVE  since[a[2]] \in Answered(a)'
    <2>1. CASE a[2] \notin Lost(chk[d])
        BY <1>2, <2>1, CutAnswer DEF Answered
    <2>2. CASE Found(chk'[d], a) /\ chk'[d].point = chk[d].point
        BY <1>2, <2>2, PendingIs DEF Answered
    <2>. QED  BY <1>2, <2>1, <2>2
<1>. QED  BY <1>1, <1>2, PendingIs DEF Answered

\* The answer of a row that needs one stays, whoever is cut short.
LEMMA AnswerKept ==
    ASSUME TInv, [Next]_vars, NEW a \in Violations, a[2] \notin excused',
           since[a[2]] \in Answered(a)
    PROVE  since[a[2]] \in Answered(a)'
<1>1. ASSUME NEW c \in Checks, SaveState(c) PROVE since[a[2]] \in Answered(a)'
    BY <1>1, SavedAnswer
<1>2. ASSUME NEW c \in Checks, CutsShort(c) PROVE since[a[2]] \in Answered(a)'
    <2>1. alerts' = alerts /\ suppressed' = suppressed /\ Moves(c) /\ Lost(chk[c]) \subseteq excused'
        BY <1>2 DEF CutsShort, SaveConflicts, CallFails, outcome, Moves, CheckStep
    <2>2. \A d \in Checks \ {c} : chk'[d] = chk[d]
        BY <2>1, OthersStay DEF TInv
    <2>. QED  BY <2>1, <2>2, CutKeeps
<1>3. CASE Restart
    <2>1. alerts' = alerts /\ suppressed' = suppressed
        BY <1>3 DEF Restart, outcome
    <2>2. \A d \in Checks : Lost(chk[d]) \subseteq excused'
        BY <1>3 DEF Restart
    <2>. QED  BY <2>1, <2>2, CutKeeps
<1>. QED  BY <1>1, <1>2, <1>3, AnsweredOtherwise

\* A check that is past its rows has nothing more to say of where the device was.
LEMMA AnsweringSees ==
    ASSUME TInv, NEW c \in Checks, Answering(chk[c]) \/ chk[c].call = "idle"
    PROVE  \A g : ~Sees(chk[c], g)
BY IdleCheck DEF TInv, Shapes, CallShape, Answering, Sees, Ahead

\* A check goes on to see a point, or says what the row says of it already.
LEMMA SeesOn ==
    ASSUME TInv, TruthSoFar, [Next]_vars, restarts' = 0,
           NEW d \in Checks, Moves(d), NEW g \in Geofences, g \notin excused',
           since[g] <= chk[d].point, state'[g] = state[g], Sees(chk[d], g)
    PROVE  \/ Sees(chk'[d], g) /\ chk'[d].point = chk[d].point
           \/ PresenceIn(points[chk[d].point], g) = state[g]
<1>1. ~Differs(g, chk[d].point) => PresenceIn(points[chk[d].point], g) = state[g]
    BY DEF Differs
<1>2. restarts = 0
    BY RestartsGrow
<1>3. ~Answering(chk[d]) /\ chk[d].call # "idle"
    BY AnsweringSees
<1>4. CASE \E w \in SUBSET Geofences : StartCheck(d, w)
    BY <1>3, <1>4 DEF StartCheck, At
<1>5. CASE Query(d)
    <2>1. CASE g \in assigned
        <3>1. chk'[d].todo = assigned /\ chk'[d].point = chk[d].point
            BY <1>5, <2>1, QueryTypes
        <3>. QED  BY <2>1, <3>1 DEF Sees, Ahead
    <2>2. CASE g \notin assigned
        BY <1>1, <1>5, <2>2 DEF Query
    <2>. QED  BY <2>1, <2>2
<1>6. ASSUME NEW h \in Geofences, ReadPrevious(d, h)
      PROVE  Sees(chk'[d], g) /\ chk'[d].point = chk[d].point
    BY <1>6, ToRow DEF TInv, Same, Sees, Ahead
<1>7. CASE FindState(d)
    BY <1>7, AtTheRow DEF TInv, Same, Sees, Ahead
<1>8. CASE SaveState(d)
    <2>1. chk[d].call = "save" /\ g \in Ahead(chk[d])
        BY <1>8 DEF SaveState, At, Sees
    <2>2. CASE g \in chk[d].todo
        <3>1. chk'[d].todo = chk[d].todo /\ chk'[d].point = chk[d].point
            BY <1>8, <2>2, PastRow
        <3>. QED  BY <2>2, <3>1 DEF Sees, Ahead
    <2>3. CASE g \notin chk[d].todo
        <3>1. g = chk[d].cur
            BY <2>1, <2>3 DEF Ahead
        <3>2. state'[g] = PresenceIn(chk[d].inside, g)
            BY <1>8, <3>1 DEF SaveState, TInv, TypeOK
        <3>3. PresenceIn(chk[d].inside, g) = PresenceIn(points[chk[d].point], g)
            BY <1>2, <2>1 DEF TruthSoFar, TrueCheck, PresenceIn
        <3>. QED  BY <3>2, <3>3
    <2>. QED  BY <2>2, <2>3
<1>9. CASE CutsShort(d)
    BY <1>1, <1>9 DEF CutsShort, SaveConflicts, CallFails, Lost
<1>10. ~(GetCooldown(d) \/ CreateAlert(d) \/ SetCooldown(d))
    BY <1>3 DEF GetCooldown, CreateAlert, SetCooldown, At, Answering
<1>11. CASE CallFails(d)
    BY <1>3, <1>9, <1>11 DEF CutsShort, At, Answering
<1>. QED  BY <1>4, <1>5, <1>6, <1>7, <1>8, <1>9, <1>10, <1>11 DEF Moves, CheckStep, CutsShort

LEMMA PointsOnlyByStart ==
    ASSUME TInv, [Next]_vars, points' # points
    PROVE  \E c \in Checks, w \in SUBSET Geofences : StartCheck(c, w)
<1>1. ASSUME NEW c \in Checks, CheckStep(c) \/ CallFails(c) PROVE points' = points
    BY <1>1 DEF CheckStep, Query, ReadPrevious, FindState, SaveState, SaveConflicts,
                GetCooldown, CreateAlert, SetCooldown, CallFails, data
<1>2. ASSUME (\E h \in Geofences : Edit(h)) \/ Restart \/ Tick \/ UNCHANGED vars
      PROVE  points' = points
    BY <1>2, EditTypes DEF Restart, Tick, data, vars
<1>. QED  BY <1>1, <1>2 DEF Next, Edit

\* Where the newest row of a geofence needs its answer and the row did not change.
LEMMA RowStays ==
    ASSUME TInv, TruthSoFar, [Next]_vars, NEW g \in Geofences, AnsweredRow(g), g \notin excused',
           zone'[g] = zone[g], state'[g] = state[g], since'[g] = since[g]
    PROVE  AnsweredRow(g)'
<1>1. /\ Len(points) \in Nat /\ Len(points') \in Nat /\ Len(points) <= Len(points')
      /\ since[g] \in 1..Len(points) /\ since'[g] \in 1..Len(points')
      /\ \A i \in 1..Len(points) : points'[i] = points[i]
    BY PointsKept DEF AnsweredRow
<1>2. ASSUME NEW a \in Violations, a = <<AlertOf(zone'[g]), g>>, state'[g] = SideOf(a[1])
      PROVE  since'[g] \in Answered(a)'
    <2>1. a[2] = g /\ a = Stored(g)
        BY <1>2 DEF Stored
    <2>2. since[a[2]] \in Answered(a)
        BY <1>2, <2>1 DEF AnsweredRow
    <2>. QED  BY <2>1, <2>2, AnswerKept
<1>3. ASSUME restarts' = 0, NEW n \in since[g]..Len(points)
      PROVE  StillToSee(g, n)' \/ PresenceIn(points'[n], g) = state[g]
    <2>1. points'[n] = points[n] /\ since[g] <= n
        BY <1>1
    <2>2. CASE PresenceIn(points[n], g) = state[g]
        BY <2>1, <2>2
    <2>3. CASE PresenceIn(points[n], g) # state[g]
        <3>1. PICK d \in Checks : chk[d].point = n /\ Sees(chk[d], g)
            BY <1>3, <2>3, RestartsGrow DEF AnsweredRow, StillToSee
        <3>2. CASE chk'[d] = chk[d]
            BY <3>1, <3>2 DEF StillToSee, Sees, Ahead
        <3>3. CASE Moves(d)
            BY <1>3, <2>1, <2>3, <3>1, <3>3, SeesOn DEF StillToSee, Sees, Ahead
        <3>4. ASSUME NEW c \in Checks, Moves(c), c # d PROVE chk'[d] = chk[d]
            BY <3>4, OthersStay DEF TInv
        <3>5. ASSUME ~\E c \in Checks : Moves(c) PROVE chk' = chk
            BY <1>3, <3>5, RestartsGrow, EditTypes DEF Next, Moves, Edit, Tick, vars
        <3>. QED  BY <3>2, <3>3, <3>4, <3>5
    <2>. QED  BY <2>2, <2>3
<1>4. ASSUME NEW n \in since'[g]..Len(points'), n \notin since[g]..Len(points)
      PROVE  StillToSee(g, n)'
    <2>1. PICK c \in Checks, w \in SUBSET Geofences : StartCheck(c, w)
        BY <1>1, <1>4, PointsOnlyByStart
    <2>2. /\ Len(points') = Len(points) + 1 /\ chk'[c].call = "query"
          /\ chk'[c].point = Len(points')
        BY <2>1, StartTypes
    <2>3. n = Len(points')
        BY <1>1, <1>4, <2>2
    <2>. QED  BY <2>2, <2>3 DEF StillToSee, Sees
<1>. QED  BY <1>1, <1>2, <1>3, <1>4 DEF AnsweredRow, Stored

\* The check that changes the row brings its answer, unless it was overtaken.
LEMMA RowChanges ==
    ASSUME TInv, TruthSoFar, [Next]_vars, NEW c \in Checks, SaveState(c),
           NEW g \in Geofences, g = chk[c].cur, g \notin excused',
           state[g] # PresenceIn(chk[c].inside, g)
    PROVE  AnsweredRow(g)'
<1> DEFINE presence == PresenceIn(chk[c].inside, g)
<1>1. PICK q \in 1..Len(points) : q = chk[c].point
    BY DEF SaveState, At, TInv, Shapes, CallShape
<1>2. /\ state'[g] = presence /\ since'[g] = q /\ ~Overtaken(chk[c], g)
      /\ points' = points /\ zone' = zone /\ restarts' = restarts
    BY <1>1 DEF SaveState, TInv, TypeOK, data, bounds
<1>3. ASSUME NEW a \in Violations, a = <<AlertOf(zone'[g]), g>>, state'[g] = SideOf(a[1])
      PROVE  q \in Answered(a)'
    <2>1. Judges(chk[c], a)
        BY <1>2, <1>3 DEF Judges, Overtaken
    <2>. QED  BY <1>1, <2>1, SavedAnswer
<1>4. ASSUME restarts' = 0, NEW n \in q..Len(points)
      PROVE  StillToSee(g, n)' \/ PresenceIn(points[n], g) = presence
    <2>1. CASE n = q
        <3>1. g \in Ahead(chk[c])
            BY DEF SaveState, At, Ahead
        <3>. QED  BY <1>1, <1>2, <1>4, <2>1, <3>1 DEF TruthSoFar, TrueCheck, PresenceIn
    <2>2. CASE n # q /\ PresenceIn(points[n], g) # presence
        <3>1. n \in chk[c].point + 1 .. Len(points)
            BY <1>1, <2>2
        <3>2. StillToSee(g, n)
            BY <1>2, <2>2, <3>1 DEF Overtaken
        <3>3. PICK d \in Checks : chk[d].point = n /\ Sees(chk[d], g)
            BY <3>2 DEF StillToSee
        <3>4. chk'[d] = chk[d]
            BY <1>1, <2>2, <3>3, OthersStay DEF TInv, Moves, CheckStep
        <3>. QED  BY <3>3, <3>4 DEF StillToSee, Sees, Ahead
    <2>. QED  BY <2>1, <2>2
<1>. QED  BY <1>1, <1>2, <1>3, <1>4 DEF AnsweredRow, Stored

LEMMA StepAnswers ==
    ASSUME TInv, TruthSoFar, AnswersSoFar, [Next]_vars
    PROVE  AnswersSoFar'
<1> SUFFICES ASSUME NEW g \in Geofences, state'[g] # "none", g \notin excused'
             PROVE  AnsweredRow(g)'
    BY DEF AnswersSoFar
<1>1. ASSUME NEW c \in Checks, SaveState(c), chk[c].cur = g,
             state[g] # PresenceIn(chk[c].inside, g)
      PROVE  AnsweredRow(g)'
    BY <1>1, RowChanges
<1>2. ASSUME NEW c \in Checks, SaveState(c),
             chk[c].cur # g \/ state[g] = PresenceIn(chk[c].inside, g)
      PROVE  state'[g] = state[g] /\ since'[g] = since[g] /\ zone' = zone /\ g \notin excused
    BY <1>2 DEF SaveState, TInv, TypeOK, data
<1>3. ASSUME ~\E c \in Checks : SaveState(c)
      PROVE  state' = state /\ since' = since /\ zone'[g] = zone[g] /\ g \notin excused
    <2>1. excused \subseteq excused'
        BY <1>3 DEF Next, CheckStep, StartCheck, Query, ReadPrevious, FindState, SaveConflicts,
           GetCooldown, CreateAlert, SetCooldown, CallFails, Assign, Retype, Redraw, Restart,
           Tick, row, vars
    <2>2. zone'[g] = zone[g]
        <3>1. ASSUME NEW h \in Geofences, Edit(h) PROVE zone'[g] = zone[g]
            BY <3>1 DEF Edit, Assign, Retype, Redraw, TInv, TypeOK
        <3>. QED  BY <3>1 DEF Next, Edit, CheckStep, StartCheck, Query, ReadPrevious, FindState,
           SaveState, SaveConflicts, GetCooldown, CreateAlert, SetCooldown, CallFails, Restart,
           Tick, data, vars
    <2>. QED  BY <1>3, <2>1, <2>2, StateOnlyBySave
<1>4. ASSUME state'[g] = state[g], since'[g] = since[g], zone'[g] = zone[g], g \notin excused
      PROVE  AnsweredRow(g)'
    BY <1>4, RowStays DEF AnswersSoFar
<1>. QED  BY <1>1, <1>2, <1>3, <1>4

(* However checks, edits and failures interleave, a stored violation has been
   answered at the point that brought it, and no later point contradicts it
   unseen, unless one of the named causes excused the row. *)
THEOREM StoredViolationIsAnswered == Spec => []ViolationIsAnswered
<1>1. ASSUME Init PROVE PastAlerts /\ TruthSoFar /\ AnswersSoFar
    BY <1>1, IdleCheck
    DEF Init, PastAlerts, TruthSoFar, FalseAlertsNeedARestart, TrueCheck, Ahead, AnswersSoFar
<1>2. ASSUME TypeOK, AnswersSoFar PROVE ViolationIsAnswered
    <2>1. ASSUME NEW g \in Geofences, state[g] = SideOf(Stored(g)[1]), g \notin excused
          PROVE  /\ since[g] \in Answered(Stored(g))
                 /\ restarts = 0 =>
                       \A n \in since[g]..Len(points) :
                           StillToSee(g, n) \/ PresenceIn(points[n], g) = state[g]
        <3>1. Stored(g) \in Violations /\ state[g] \in Presence
            BY <2>1, Sides, ViolationParts DEF Stored
        <3>2. AnsweredRow(g)
            BY <1>2, <2>1, <3>1 DEF AnswersSoFar, Presence
        <3>. QED  BY <2>1, <3>1, <3>2 DEF AnsweredRow
    <2>. QED  BY <2>1 DEF ViolationIsAnswered
<1>. QED  BY <1>1, <1>2, InitialTypes, StepTypes, StepPast, StepTruth, StepAnswers, PTL
          DEF Spec, TInv

LEMMA StepKeys ==
    ASSUME TInv, SuppressionHasAnAlert, [Next]_vars
    PROVE  SuppressionHasAnAlert'
<1>1. \A a \in Violations : alerts[a] \subseteq alerts'[a]
    BY AlertsOnlyByCreate, CreatedAlert
<1>2. ASSUME NEW c \in Checks, GetCooldown(c), NEW a \in Violations
      PROVE  cooldown' = cooldown /\ (suppressed'[a] = suppressed[a] \/ cooldown[a] > 0)
    BY <1>2 DEF GetCooldown, TInv, TypeOK
<1>3. ASSUME NEW c \in Checks, SetCooldown(c), NEW a \in Violations
      PROVE  suppressed' = suppressed /\ (cooldown'[a] = cooldown[a] \/ alerts[a] # {})
    <2>1. chk[c].point \in alerts[Head(chk[c].viol)]
        BY <1>3 DEF SetCooldown, At, TInv, Shapes, CallShape
    <2>. QED  BY <1>3, <2>1 DEF SetCooldown, TInv, TypeOK
<1>4. ASSUME Tick, NEW a \in Violations
      PROVE  suppressed' = suppressed /\ (cooldown'[a] > 0 => cooldown[a] > 0)
    BY <1>4 DEF Tick, TInv, TypeOK
<1>5. ASSUME ~(\E c \in Checks : GetCooldown(c) \/ SetCooldown(c)), ~Tick
      PROVE  cooldown' = cooldown /\ suppressed' = suppressed
    <2>1. (\E g \in Geofences : Edit(g)) => cooldown' = cooldown /\ suppressed' = suppressed
        BY EditTypes DEF outcome
    <2>. QED  BY <1>5, <2>1 DEF Next, Edit, CheckStep, StartCheck, Query, ReadPrevious,
                FindState, SaveState, SaveConflicts, CreateAlert, CallFails, Restart, outcome, vars
<1>6. ASSUME NEW a \in Violations, cooldown'[a] > 0 \/ suppressed'[a] # {} PROVE alerts[a] # {}
    <2>1. \/ cooldown[a] > 0 \/ suppressed[a] # {}
          \/ alerts[a] # {}
        BY <1>2, <1>3, <1>4, <1>5, <1>6
    <2>. QED  BY <2>1 DEF SuppressionHasAnAlert
<1>. QED  BY <1>1, <1>6 DEF SuppressionHasAnAlert

(* Nothing is held back before a first alert. *)
THEOREM KeysHaveAlerts == Spec => []SuppressionHasAnAlert
<1>1. ASSUME Init PROVE SuppressionHasAnAlert
    BY <1>1 DEF Init, SuppressionHasAnAlert
<1>. QED  BY <1>1, InitialTypes, StepTypes, StepKeys, PTL DEF Spec

-----------------------------------------------------------------------------
(* One check at a time. *)

OneSlot == Cardinality(Checks) = 1

LEMMA Alone == ASSUME OneSlot, NEW c \in Checks, NEW d \in Checks PROVE d = c
<1>1. \E x : Checks = {x}
    BY ConstantsAssumption, FS_Singleton DEF OneSlot
<1>. QED  BY <1>1

\* The steps that answer a violation, or end the check.
LEMMA AnswerMoves ==
    ASSUME TInv, NEW c \in Checks,
           \/ GetCooldown(c) \/ CreateAlert(c) \/ SetCooldown(c)
           \/ SaveConflicts(c) \/ CallFails(c)
    PROVE  \/ chk'[c] = Idle
           \/ /\ Same(chk[c], chk'[c]) /\ Answering(chk[c]) /\ Answering(chk'[c])
              /\ chk'[c].todo = chk[c].todo
              /\ \A a \in Violations : Found(chk'[c], a) => Found(chk[c], a)
<1>1. \/ chk'[c] = Idle
      \/ /\ Answering(chk[c])
         /\ \/ chk'[c] = NextViolation(chk[c])
            \/ \E k \in {"create", "setCooldown"} : chk' = [chk EXCEPT ![c].call = k]
    BY DEF GetCooldown, CreateAlert, SetCooldown, SaveConflicts, CallFails, At, Answering,
           TInv, TypeOK
<1>2. ASSUME chk'[c] = NextViolation(chk[c]), Answering(chk[c]), chk'[c] # Idle
      PROVE  /\ Same(chk[c], chk'[c]) /\ Answering(chk'[c]) /\ chk'[c].todo = chk[c].todo
             /\ \A a \in Violations : Found(chk'[c], a) => Found(chk[c], a)
    BY <1>2, PastViolation DEF Answering, TInv, Shapes, CallShape
<1>3. ASSUME NEW k \in {"create", "setCooldown"}, chk' = [chk EXCEPT ![c].call = k]
      PROVE  /\ Same(chk[c], chk'[c]) /\ Answering(chk'[c]) /\ chk'[c].todo = chk[c].todo
             /\ chk'[c].viol = chk[c].viol
    <2>1. k \in Calls
        BY DEF Calls
    <2>. QED  BY <1>3, <2>1, OnlyCall DEF Answering, TInv
<1>. QED  BY <1>1, <1>2, <1>3 DEF Found

LEMMA IdleIsAlone == ASSUME NEW c \in Checks, chk'[c] = Idle PROVE AloneCheck(chk[c])'
BY IdleCheck DEF AloneCheck, Ahead, AtRow

LEMMA StartInOrder ==
    ASSUME TInv, InOrder, NEW c \in Checks, NEW w \in SUBSET Geofences, StartCheck(c, w)
    PROVE  AloneCheck(chk[c])' /\ \A g \in Geofences : since'[g] <= Len(points')
<1>1. /\ chk'[c].call = "query" /\ chk'[c].todo = {} /\ chk'[c].viol = <<>>
      /\ chk'[c].point = Len(points') /\ Len(points') = Len(points) + 1 /\ since' = since
      /\ Len(points) \in Nat /\ \A g \in Geofences : since[g] \in Nat
    <2>1. TInv' /\ chk'[c].call = "query" /\ chk'[c].point = Len(points')
          /\ Len(points') = Len(points) + 1 /\ chk'[c].viol = <<>>
        BY StartTypes
    <2>2. CallShape(chk[c])'
        BY <2>1 DEF TInv, Shapes
    <2>. QED  BY <2>1, <2>2 DEF CallShape, TInv, TypeOK, StartCheck, row
<1>2. \A g \in Geofences : since[g] < Len(points) + 1
    BY <1>1 DEF InOrder
<1>. QED  BY <1>1, <1>2 DEF AloneCheck, Ahead, AtRow, Found, In

LEMMA QueryInOrder ==
    ASSUME TInv, NEW c \in Checks, Query(c), AloneCheck(chk[c])
    PROVE  AloneCheck(chk[c])'
<1>1. /\ points' = points /\ since' = since /\ state' = state
      /\ chk[c].call = "query" /\ chk[c].viol = <<>> /\ assigned \subseteq Geofences
    BY DEF Query, data, At, TInv, TypeOK, Shapes, CallShape
<1>2. CASE chk'[c] = Idle
    BY <1>2, IdleIsAlone
<1>3. CASE chk'[c] # Idle
    <2>1. /\ chk'[c].call = "previous" /\ chk'[c].point = chk[c].point
          /\ chk'[c].todo = assigned /\ chk'[c].viol = <<>>
        BY <1>1, <1>3, QueryTypes
    <2>. QED  BY <1>1, <2>1 DEF AloneCheck, Ahead, AtRow, Found, In
<1>. QED  BY <1>2, <1>3

LEMMA ReadInOrder ==
    ASSUME TInv, NEW c \in Checks, NEW g \in Geofences, ReadPrevious(c, g), AloneCheck(chk[c])
    PROVE  AloneCheck(chk[c])'
<1>1. points' = points /\ since' = since /\ state' = state
    BY DEF ReadPrevious, data, row
<1>2. Ahead(chk'[c]) = Ahead(chk[c])
    BY ToRow DEF TInv, Ahead, AtRow
<1>. QED  BY <1>1, <1>2, ToRow DEF TInv, AloneCheck, Same, AtRow, Found

LEMMA FindInOrder ==
    ASSUME TInv, NEW c \in Checks, FindState(c), AloneCheck(chk[c])
    PROVE  AloneCheck(chk[c])'
<1>1. points' = points /\ since' = since /\ state' = state
    BY DEF FindState, data, row
<1>2. Ahead(chk'[c]) = Ahead(chk[c])
    BY AtTheRow DEF TInv, Ahead, AtRow
<1>. QED  BY <1>1, <1>2, AtTheRow DEF TInv, AloneCheck, Same, AtRow, Found

LEMMA SaveInOrder ==
    ASSUME TInv, InOrder, NEW c \in Checks, SaveState(c)
    PROVE  AloneCheck(chk[c])' /\ \A g \in Geofences : since'[g] <= Len(points')
<1> DEFINE p == PresenceIn(chk[c].inside, chk[c].cur)
<1>1. /\ points' = points /\ chk[c].cur \in Geofences \ chk[c].todo /\ chk[c].call = "save"
      /\ \A g \in Geofences : since'[g] =
            IF g = chk[c].cur /\ state[g] # p THEN chk[c].point ELSE since[g]
      /\ \A g \in Geofences : state'[g] = IF g = chk[c].cur THEN p ELSE state[g]
    BY PastRow DEF SaveState, data, TInv, TypeOK
<1>2. /\ AloneCheck(chk[c]) /\ chk[c].point = Len(points)
      /\ chk[c].cur \in Ahead(chk[c]) /\ chk[c].todo \subseteq Ahead(chk[c])
      /\ Len(points) \in Nat /\ chk[c].todo \subseteq Geofences
      /\ \A g \in Geofences : since[g] \in Nat
    BY <1>1, CheckFields DEF InOrder, AloneCheck, Ahead, AtRow, TInv, TypeOK
<1>3. ASSUME NEW a \in Violations, Found(chk[c], a) PROVE a[2] # chk[c].cur
    <2>1. since[chk[c].cur] < chk[c].point
        BY <1>2 DEF AloneCheck
    <2>2. since[a[2]] = chk[c].point
        BY <1>2, <1>3 DEF AloneCheck
    <2>. QED  BY <1>1, <1>2, <2>1, <2>2
<1>4. \A g \in Geofences : since'[g] <= Len(points')
    BY <1>1, <1>2 DEF InOrder
<1>5. CASE chk'[c] = Idle
    BY <1>4, <1>5, IdleIsAlone
<1>6. CASE chk'[c] # Idle
    <2>1. /\ chk'[c].point = chk[c].point /\ chk'[c].call \in {"previous", "getCooldown"}
          /\ Ahead(chk'[c]) = chk[c].todo
        BY <1>6, PastRow DEF Ahead
    <2>2. \A g \in Ahead(chk'[c]) : since'[g] < chk'[c].point
        BY <1>1, <1>2, <2>1 DEF AloneCheck
    <2>3. ASSUME NEW a \in Violations, Found(chk'[c], a)
          PROVE  since'[a[2]] = chk'[c].point /\ state'[a[2]] = SideOf(a[1])
        <3>0. a[2] \in Geofences
            BY ViolationParts
        <3>1. CASE Judges(chk[c], a)
            <4>1. a[2] = chk[c].cur /\ p = SideOf(a[1]) /\ chk[c].prev # p
                BY <3>1 DEF Judges
            <4>2. state[a[2]] # p
                BY <1>1, <1>2, <4>1 DEF AloneCheck, AtRow
            <4>. QED  BY <1>1, <2>1, <3>0, <4>1, <4>2
        <3>2. CASE Found(chk[c], a)
            BY <1>1, <1>2, <1>3, <2>1, <3>0, <3>2 DEF AloneCheck
        <3>. QED  BY <2>3, <3>1, <3>2, PastRow
    <2>. QED  BY <1>1, <1>2, <1>4, <2>1, <2>2, <2>3 DEF AloneCheck, AtRow
<1>. QED  BY <1>5, <1>6

LEMMA AnswerInOrder ==
    ASSUME TInv, NEW c \in Checks, AloneCheck(chk[c]),
           \/ GetCooldown(c) \/ CreateAlert(c) \/ SetCooldown(c)
           \/ SaveConflicts(c) \/ CallFails(c)
    PROVE  AloneCheck(chk[c])'
<1>1. points' = points /\ since' = since /\ state' = state
    BY DEF GetCooldown, CreateAlert, SetCooldown, SaveConflicts, CallFails, data, row
<1>2. CASE chk'[c] = Idle
    BY <1>2, IdleIsAlone
<1>3. CASE chk'[c] # Idle
    BY <1>1, <1>3, AnswerMoves DEF AloneCheck, Same, Ahead, AtRow, Answering
<1>. QED  BY <1>2, <1>3

LEMMA StepInOrder ==
    ASSUME OneSlot, TInv, InOrder, [Next]_vars
    PROVE  InOrder'
<1>1. ASSUME NEW c \in Checks, AloneCheck(chk[c])',
             \A g \in Geofences : since'[g] <= Len(points')
      PROVE  InOrder'
    BY <1>1, Alone DEF InOrder
<1>2. ASSUME NEW c \in Checks, NEW w \in SUBSET Geofences, StartCheck(c, w) PROVE InOrder'
    BY <1>1, <1>2, StartInOrder
<1>3. ASSUME NEW c \in Checks, CheckStep(c) \/ CallFails(c) PROVE InOrder'
    <2>1. ASSUME ~SaveState(c) PROVE since' = since /\ points' = points
        BY <1>3, <2>1 DEF CheckStep, Query, ReadPrevious, FindState, SaveConflicts,
           GetCooldown, CreateAlert, SetCooldown, CallFails, data, row
    <2>2. AloneCheck(chk[c]) /\ \A g \in Geofences : since[g] <= Len(points)
        BY DEF InOrder
    <2>. QED  BY <1>1, <1>3, <2>1, <2>2, QueryInOrder, ReadInOrder, FindInOrder, SaveInOrder,
                 AnswerInOrder DEF CheckStep
<1>4. CASE Restart
    <2>1. /\ points' = points /\ since' = since
          /\ \A c \in Checks : chk'[c] = Idle
        BY <1>4 DEF Restart
    <2>. QED  BY <2>1, IdleIsAlone DEF InOrder
<1>5. CASE (\E g \in Geofences : Edit(g)) \/ Tick \/ UNCHANGED vars
    <2>1. points' = points /\ since' = since /\ state' = state /\ chk' = chk
        BY <1>5, EditTypes DEF Tick, vars, data, row
    <2>. QED  BY <2>1 DEF InOrder, AloneCheck, Ahead, AtRow, Found, In
<1>. QED  BY <1>2, <1>3, <1>4, <1>5 DEF Next, Edit

LEMMA InitialOrder == ASSUME Init PROVE InOrder
<1>1. \A g \in Geofences : since[g] <= Len(points)
    BY DEF Init
<1>2. \A c \in Checks : AloneCheck(chk[c])
    BY IdleCheck DEF Init, AloneCheck, Ahead, AtRow
<1>. QED  BY <1>1, <1>2 DEF InOrder

LEMMA FindsOnlyBySave ==
    ASSUME TInv, [Next]_vars, NEW d \in Checks, ~SaveState(d), NEW a \in Violations,
           Found(chk'[d], a)
    PROVE  Found(chk[d], a) /\ chk'[d].point = chk[d].point
<1>1. CASE chk'[d] = chk[d]
    BY <1>1
<1>2. CASE chk'[d] = Idle
    BY <1>2, IdleCheck
<1>3. ASSUME NEW w \in SUBSET Geofences, StartCheck(d, w) PROVE FALSE
    BY <1>3, StartTypes DEF Found, In
<1>4. ASSUME Query(d) PROVE Found(chk[d], a) /\ chk'[d].point = chk[d].point
    BY <1>4, QueryTypes, IdleCheck DEF Found
<1>5. ASSUME (\E h \in Geofences : ReadPrevious(d, h)) \/ FindState(d)
      PROVE  Found(chk[d], a) /\ chk'[d].point = chk[d].point
    BY <1>5, ToRow, AtTheRow DEF Found, TInv, Same
<1>6. ASSUME \/ GetCooldown(d) \/ CreateAlert(d) \/ SetCooldown(d)
             \/ SaveConflicts(d) \/ CallFails(d), chk'[d] # Idle
      PROVE  Found(chk[d], a) /\ chk'[d].point = chk[d].point
    BY <1>6, AnswerMoves DEF Same
<1>7. ASSUME NEW c \in Checks, Moves(c), c # d PROVE chk'[d] = chk[d]
    BY <1>7, OthersStay DEF TInv
<1>8. ASSUME ~\E c \in Checks : Moves(c) PROVE chk'[d] \in {chk[d], Idle}
    BY <1>8, EditTypes DEF Next, Moves, Edit, Restart, Tick, vars
<1>9. ASSUME Moves(d), chk'[d] # Idle PROVE Found(chk[d], a) /\ chk'[d].point = chk[d].point
    BY <1>9, <1>3, <1>4, <1>5, <1>6 DEF Moves, CheckStep
<1>. QED  BY <1>1, <1>2, <1>7, <1>8, <1>9

LEMMA LeftKept ==
    ASSUME TInv, [Next]_vars, NEW a \in Violations, NEW i \in 1..Len(points),
           NEW j \in Nat, j <= Len(points), LeftBetween(a, i, j)
    PROVE  LeftBetween(a, i, j)'
<1>1. PICK n \in i..j : ~Violates(a, n)
    BY DEF LeftBetween
<1>2. n \in 1..Len(points)
    BY <1>1, PointsKept
<1>3. ~Violates(a, n)'
    BY <1>1, <1>2, ViolatesKept
<1>. QED  BY <1>1, <1>3 DEF LeftBetween

LEMMA StepStays ==
    ASSUME OneSlot, TInv, PastAlerts, TruthSoFar, InOrder, StaysSoFar, [Next]_vars, restarts' = 0,
           restarts = 0
    PROVE  StaysSoFar'
<1>a. /\ Len(points) \in Nat /\ Len(points') \in Nat /\ Len(points) <= Len(points')
      /\ \A g \in Geofences : since[g] \in Nat /\ since[g] <= Len(points)
      /\ \A a \in Violations : a[2] \in Geofences
    BY PointsKept, ViolationParts DEF TInv, TypeOK, InOrder
<1>b. /\ OneAlertPerStay
      /\ \A a \in Violations : \A i \in alerts[a] :
            /\ i \in 1..Len(points)
            /\ state[a[2]] = SideOf(a[1]) \/ LeftBetween(a, i, since[a[2]])
            /\ \A c \in Checks :
                  Found(chk[c], a) /\ i < chk[c].point => LeftBetween(a, i, chk[c].point)
    BY DEF StaysSoFar, PastAlerts
<1>c. \A c \in Checks : chk[c].call # "idle" => chk[c].point = Len(points)
    BY DEF InOrder, AloneCheck
<1>d. \A c \in Checks, a \in Violations : Found(chk[c], a) => chk[c].point = Len(points)
    <2>1. \A c \in Checks, a \in Violations : Found(chk[c], a) => chk[c].call # "idle"
        BY IdleCheck DEF TInv, Shapes, CallShape
    <2>. QED  BY <1>c, <2>1
<1>1. ASSUME NEW a \in Violations, NEW i \in alerts[a]
      PROVE  state'[a[2]] = SideOf(a[1]) \/ LeftBetween(a, i, since[a[2]])'
    <2>g. PICK g \in Geofences : g = a[2]
        BY <1>a
    <2>1. CASE state'[g] = state[g] /\ since'[g] = since[g]
        BY <1>a, <1>b, <2>1, <2>g, LeftKept DEF LeftBetween
    <2>2. ASSUME NEW c \in Checks, SaveState(c), chk[c].cur = g, state'[g] # SideOf(a[1]),
                 state[g] # state'[g]
          PROVE  LeftBetween(a, i, since[a[2]])'
        <3>1. /\ state'[g] = PresenceIn(chk[c].inside, g) /\ since'[g] = chk[c].point
              /\ points' = points /\ g \in Ahead(chk[c]) /\ chk[c].point = Len(points)
            BY <1>c, <2>2 DEF SaveState, data, At, Ahead, TInv, TypeOK
        <3>2. PresenceIn(chk[c].inside, g) = PresenceIn(points[chk[c].point], g)
            BY <3>1 DEF TruthSoFar, TrueCheck, PresenceIn
        <3>3. ~Violates(a, Len(points))'
            BY <2>2, <2>g, <3>1, <3>2 DEF Violates
        <3>4. i \in 1..Len(points) /\ Len(points) \in i..Len(points)
            BY <1>a, <1>b
        <3>. QED  BY <2>g, <3>1, <3>3, <3>4 DEF LeftBetween
    <2>3. ASSUME NEW c \in Checks, SaveState(c), chk[c].cur # g \/ state[g] = state'[g]
          PROVE  state'[g] = state[g] /\ since'[g] = since[g]
        BY <2>3 DEF SaveState, TInv, TypeOK
    <2>. QED  BY <2>1, <2>2, <2>3, <2>g, StateOnlyBySave
<1>2. ASSUME NEW a \in Violations, NEW i \in alerts[a], NEW c \in Checks,
             Found(chk'[c], a), i < chk'[c].point
      PROVE  LeftBetween(a, i, chk[c].point)'
    <2>1. CASE Found(chk[c], a) /\ chk'[c].point = chk[c].point
        <3>1. LeftBetween(a, i, Len(points)) /\ chk'[c].point = Len(points)
            BY <1>b, <1>d, <1>2, <2>1
        <3>2. PICK n \in i..Len(points) : ~Violates(a, n)
            BY <3>1 DEF LeftBetween
        <3>3. ~Violates(a, n)'
            BY <1>a, <1>b, <3>2, ViolatesKept
        <3>. QED  BY <3>1, <3>2, <3>3 DEF LeftBetween
    <2>2. ASSUME SaveState(c), ~Found(chk[c], a) PROVE LeftBetween(a, i, chk[c].point)'
        <3>1. /\ Judges(chk[c], a) /\ chk[c].call = "save" /\ chk'[c].point = chk[c].point
            BY <1>2, <2>2, PastRow, IdleCheck
        <3>2. state[a[2]] # SideOf(a[1])
            BY <1>a, <3>1 DEF InOrder, AloneCheck, AtRow, Judges
        <3>3. LeftBetween(a, i, since[a[2]])
            BY <1>b, <3>2
        <3>4. PICK n \in i..since[a[2]] : ~Violates(a, n)
            BY <3>3 DEF LeftBetween
        <3>5. /\ points' = points /\ chk'[c].point = Len(points)
              /\ n \in i..Len(points)
            BY <1>a, <1>b, <1>c, <2>2, <3>1, <3>4 DEF SaveState, data
        <3>6. ~Violates(a, n)'
            BY <3>4, <3>5 DEF Violates
        <3>. QED  BY <3>5, <3>6 DEF LeftBetween
    <2>. QED  BY <1>2, <2>1, <2>2, FindsOnlyBySave, PastRow, IdleCheck
<1>3. ASSUME NEW a \in Violations, NEW i \in alerts[a], NEW j \in alerts[a], i < j
      PROVE  \E n \in i..j : ~Violates(a, n)'
    <2>1. PICK n \in i..j : ~Violates(a, n)
        BY <1>3, <1>b DEF OneAlertPerStay
    <2>2. n \in 1..Len(points)
        BY <1>a, <1>b
    <2>. QED  BY <2>1, <2>2, ViolatesKept
<1>4. CASE alerts' = alerts
    BY <1>1, <1>2, <1>3, <1>4 DEF StaysSoFar, OneAlertPerStay
<1>5. ASSUME NEW c \in Checks, CreateAlert(c) PROVE StaysSoFar'
    <2>h. PICK h \in Violations : h = Head(chk[c].viol)
        BY <1>5, CreatedAlert
    <2>q. PICK q \in Nat : q = chk[c].point
        BY CheckFields DEF TInv
    <2>1. /\ Found(chk[c], h) /\ q = Len(points) /\ q \in 1..Len(points)
          /\ \A a \in Violations : \A i \in alerts'[a] : i \in alerts[a] \/ (a = h /\ i = q)
          /\ chk[c].point = q /\ chk'[c].point = q
        <3>1. /\ Found(chk[c], h) /\ q = Len(points) /\ q \in 1..Len(points)
              /\ chk[c].point = q /\ chk'[c].point = q
            BY <1>5, <1>d, <2>h, <2>q, CreatedAlert
        <3>2. ASSUME NEW a \in Violations, NEW i \in alerts'[a], i \notin alerts[a]
              PROVE  a = h /\ i = q
            <4>1. alerts'[a] = IF a = h THEN alerts[a] \cup {q} ELSE alerts[a]
                BY <1>5, <2>h, <2>q, CreatedAlert
            <4>. QED  BY <3>2, <4>1
        <3>. QED  BY <3>1, <3>2
    <2>2. state'[h[2]] = SideOf(h[1])
        BY <1>5, <2>1 DEF InOrder, AloneCheck, CreateAlert, row
    <2>3. ASSUME NEW i \in alerts[h], i < q PROVE \E n \in i..q : ~Violates(h, n)'
        <3>1. PICK n \in i..q : ~Violates(h, n)
            BY <1>b, <2>1, <2>3 DEF LeftBetween
        <3>2. n \in 1..Len(points)
            BY <1>a, <1>b, <2>1
        <3>. QED  BY <3>1, <3>2, ViolatesKept
    <2>4. ASSUME NEW a \in Violations, NEW i \in alerts'[a], NEW j \in alerts'[a], i < j
          PROVE  \E n \in i..j : ~Violates(a, n)'
        <3>1. CASE i \in alerts[a] /\ j \in alerts[a]
            BY <1>3, <2>4, <3>1
        <3>2. CASE i \in alerts[a] /\ j \notin alerts[a]
            <4>1. a = h /\ j = q
                BY <2>1, <2>4, <3>2
            <4>. QED  BY <2>3, <2>4, <3>2, <4>1
        <3>3. CASE i \notin alerts[a]
            <4>1. a = h /\ i = q /\ i = Len(points) /\ j \in 1..Len(points)
                BY <1>b, <2>1, <2>4, <3>3
            <4>. QED  BY <1>a, <2>4, <4>1
        <3>. QED  BY <3>1, <3>2, <3>3
    <2>5. ASSUME NEW a \in Violations, NEW i \in alerts'[a]
          PROVE  /\ state'[a[2]] = SideOf(a[1]) \/ LeftBetween(a, i, since[a[2]])'
                 /\ \A d \in Checks :
                       Found(chk'[d], a) /\ i < chk'[d].point => LeftBetween(a, i, chk[d].point)'
        <3>1. CASE i \in alerts[a]
            BY <1>1, <1>2, <3>1
        <3>2. CASE i \notin alerts[a]
            <4>1. a = h /\ i = q
                BY <2>1, <2>5, <3>2
            <4>2. \A d \in Checks : chk'[d].point = q
                BY <2>1, Alone
            <4>. QED  BY <1>a, <2>1, <2>2, <4>1, <4>2
        <3>. QED  BY <3>1, <3>2
    <2>. QED  BY <2>4, <2>5 DEF StaysSoFar, OneAlertPerStay
<1>. QED  BY <1>4, <1>5, AlertsOnlyByCreate

(* Served one check at a time and never restarted, a device that stays in a
   violating state is told so once, whatever calls fail and whoever edits the
   geofences meanwhile. *)
THEOREM OneAlertWhenSerial ==
    ASSUME Cardinality(Checks) = 1, MaxRestarts = 0
    PROVE  Spec => []OneAlertPerStay
<1> DEFINE Inv == TInv /\ PastAlerts /\ TruthSoFar /\ InOrder /\ StaysSoFar
<1>1. ASSUME Init PROVE Inv
    BY <1>1, InitialTypes, InitialOrder, IdleCheck
    DEF Init, PastAlerts, TruthSoFar, FalseAlertsNeedARestart, TrueCheck, Ahead, StaysSoFar,
        OneAlertPerStay
<1>2. ASSUME Inv, [Next]_vars PROVE Inv'
    <2>1. TInv' /\ restarts = 0 /\ restarts' = 0
        BY <1>2, StepTypes DEF TInv, TypeOK
    <2>. QED  BY <1>2, <2>1, StepPast, StepTruth, StepInOrder, StepStays DEF OneSlot
<1>3. ASSUME Inv PROVE OneAlertPerStay
    BY <1>3 DEF TInv, TypeOK, StaysSoFar
<1>. QED  BY <1>1, <1>2, <1>3, PTL DEF Spec

-----------------------------------------------------------------------------
(* One check at a time is the edge-triggered monitor. *)

types == [g \in Geofences |-> TypeInUse(g)]
answers == [a \in Violations |-> Answered(a)]

LEMMA TypesInUse == ASSUME TInv PROVE types \in [Geofences -> ZoneTypes]
<1>1. \A g \in Geofences : TypeInUse(g) \in ZoneTypes
    BY DEF TypeInUse, ZoneTypes, TInv, TypeOK
<1>. QED  BY <1>1 DEF types

LEMMA EdgeViolations == Edge!Violations = Violations
BY DEF Edge!Violations, Violations, AlertTypes

\* Storing another presence is the observation of the newest point.
LEMMA SaveObserves ==
    ASSUME OneSlot, TInv, InOrder, NEW c \in Checks, SaveState(c)
    PROVE  \/ \E g \in Geofences, i \in 1..MaxPoints, presence \in Edge!Presence :
                 Edge!Observe(g, i, presence)
           \/ UNCHANGED <<state, since, answers>>
<1>1. PICK g \in Geofences : g = chk[c].cur
    BY PastRow
<1>2. PICK p \in Presence : p = PresenceIn(chk[c].inside, g)
    BY Sides
<1>3. PICK i \in 1..MaxPoints : i = chk[c].point
    <2>1. /\ chk[c].point \in 1..Len(points) /\ Len(points) \in Nat /\ Len(points) <= MaxPoints
        BY DEF SaveState, At, TInv, TypeOK, Shapes, CallShape
    <2>. QED  BY <2>1, ConstantsAssumption
<1>4. g \in Ahead(chk[c]) /\ chk[c].prev = state[g] /\ since[g] < i
    BY <1>1, <1>3, PastRow DEF Ahead, AtRow, InOrder, AloneCheck
<1>5. types[g] = TypeRead(chk[c], g)
    BY <1>4, Alone DEF types, TypeInUse, TypeRead
<1>6. ASSUME NEW a \in Violations
      PROVE  Judges(chk[c], a) <=> Edge!IsViolated(a, g, p) /\ state[g] # p
    <2>1. Judges(chk[c], a) <=>
             /\ a = <<AlertOf(types[g]), g>> /\ p = SideOf(AlertOf(types[g])) /\ state[g] # p
        BY <1>1, <1>2, <1>4, <1>5 DEF Judges
    <2>2. types[g] \in ZoneTypes
        BY TypesInUse
    <2>. QED  BY <2>1, <2>2 DEF Edge!IsViolated, types, AlertOf, SideOf, ZoneTypes
<1>7. \A a \in Violations : Answered(a)' =
         IF Edge!IsViolated(a, g, p) /\ state[g] # p THEN Answered(a) \cup {i} ELSE Answered(a)
    BY <1>3, <1>6, SavedAnswer
<1>8. CASE state[g] = p
    <2>1. state' = state /\ since' = since
        BY <1>1, <1>2, <1>8 DEF SaveState, TInv, TypeOK
    <2>2. answers' = answers
        BY <1>7, <1>8 DEF answers
    <2>. QED  BY <2>1, <2>2
<1>9. CASE state[g] # p
    <2>1. state' = [state EXCEPT ![g] = p] /\ since' = [since EXCEPT ![g] = i]
        BY <1>1, <1>2, <1>3, <1>9 DEF SaveState
    <2>2. answers' = [a \in Violations |->
                         IF Edge!IsViolated(a, g, p) THEN answers[a] \cup {i} ELSE answers[a]]
        BY <1>7, <1>9 DEF answers
    <2>3. p \in Edge!Presence
        BY DEF Edge!Presence, Presence
    <2>4. Edge!Observe(g, i, p)
        BY <1>4, <1>9, <2>1, <2>2, EdgeViolations, ConstantsAssumption
        DEF Edge!Observe, answers, TInv, TypeOK
    <2>. QED  BY <2>3, <2>4
<1>. QED  BY <1>8, <1>9

(* Every step of a lone check that cuts nothing short is a step of GeofenceEdge or
   leaves what it sees alone, edits included. *)
LEMMA EdgeStep ==
    ASSUME OneSlot, TInv, TInv', InOrder, [Next]_vars,
           ~Restart, ~\E c \in Checks : CutsShort(c)
    PROVE  Edge!Next
<1>1. types' \in [Geofences -> ZoneTypes]
    <2>1. \A g \in Geofences : TypeInUse(g)' \in ZoneTypes
        BY DEF TypeInUse, ZoneTypes, TInv, TypeOK
    <2>. QED  BY <2>1 DEF types
<1>2. \/ \E g \in Geofences, i \in 1..MaxPoints, presence \in Edge!Presence :
            Edge!Observe(g, i, presence)
      \/ UNCHANGED <<state, since, answers>>
    <2>1. CASE \E c \in Checks : SaveState(c)
        BY <2>1, SaveObserves
    <2>2. CASE ~\E c \in Checks : SaveState(c)
        <3>1. \A a \in Violations : Answered(a)' = Answered(a)
            BY <2>2, AnsweredOtherwise
        <3>2. answers' = answers
            BY <3>1 DEF answers
        <3>. QED  BY <2>2, <3>2, StateOnlyBySave
    <2>. QED  BY <2>1, <2>2
<1>. QED  BY <1>1, <1>2 DEF Edge!Next, Edge!ZoneTypes, ZoneTypes, types, answers

\* Without faults and restarts a lone check is never cut short: the row it
\* looked up is still there, or still missing, when it writes it.
LEMMA NothingCutShort ==
    ASSUME OneSlot, MaxFaults = 0, MaxRestarts = 0, TInv, InOrder
    PROVE  ~Restart /\ ~\E c \in Checks : CutsShort(c)
<1>1. ~Restart /\ \A c \in Checks : ~CallFails(c)
    BY DEF Restart, CallFails, TInv, TypeOK
<1>2. ASSUME NEW c \in Checks PROVE ~SaveConflicts(c)
    BY DEF SaveConflicts, At, InOrder, AloneCheck
<1>. QED  BY <1>1, <1>2 DEF CutsShort

(* Served one check at a time, and with no failing call or restart, the program
   is the edge-triggered monitor of GeofenceEdge: points in order, an answer at
   exactly the edges, whoever edits the geofences meanwhile. *)
THEOREM EdgeWhenSerial ==
    ASSUME Cardinality(Checks) = 1, MaxFaults = 0, MaxRestarts = 0
    PROVE  Spec => ImplementsEdge
<1> DEFINE Inv == TInv /\ InOrder
<1>1. ASSUME Init PROVE Inv /\ Edge!Init
    <2>1. \A a \in Violations : Answered(a) = {}
        BY <1>1, IdleCheck, PendingIs DEF Init, Answered
    <2>2. Inv
        BY <1>1, InitialTypes, InitialOrder
    <2>3. types \in [Geofences -> ZoneTypes] /\ answers = [a \in Violations |-> {}]
        BY <2>1, <2>2, TypesInUse DEF answers
    <2>. QED  BY <1>1, <2>2, <2>3, EdgeViolations
              DEF Edge!Init, Init, Edge!ZoneTypes, ZoneTypes, types, answers
<1>2. ASSUME Inv, [Next]_vars PROVE Inv' /\ Edge!Next
    BY <1>2, StepTypes, StepInOrder, NothingCutShort, EdgeStep DEF OneSlot
<1>. QED  BY <1>1, <1>2, PTL DEF Spec, ImplementsEdge, Edge!Spec, answers, types
=============================================================================
