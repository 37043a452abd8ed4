------------------------- MODULE AlertPipelineProofs -------------------------
(* Proofs about AlertPipeline, for topics of any length, any payloads, and any
   number of uploads, failing calls and crashes. *)
EXTENDS AlertPipeline, FiniteSetTheorems, WellFoundedInduction, TLAPS

\* What the lookup of a snapshot and the copy of a resolve request still say of
\* the rows: the rows only grow in number, until they all go with the device.
Shapes ==
    /\ device = "deleted" => alerts = <<>> /\ media = <<>>
    /\ device # "deleted" => resolver.link <= Len(media)
    /\ device # "deleted" /\ handler["alert"].pc = "found" =>
          /\ handler["alert"].row <= Len(media) /\ handler["alert"].seen <= Len(media)
          /\ log["alert"][Current("alert")].snap /\ handler["alert"].row = None =>
                \A r \in Images : r > handler["alert"].seen

\* A message the consumer is done with, and one it has stored, has a fate.
Settled ==
    \A t \in Topics :
        /\ \A i \in 1..position[t] : fate[t][i] # {}
        /\ handler[t].pc = "stored" => fate[t][Current(t)] # {}

Outcomes(i) == fate["alert"][i] \ {"unannounced", "unread"}
RowsOf(i) == {a \in DOMAIN alerts : alerts[a].msg = i}
Ahead(i) == /\ i > position["alert"]
            /\ i = Current("alert") => handler["alert"].pc # "stored"

\* An alert that no restart delivered again has one outcome and one row at most,
\* and none before the consumer has stored it.
Once ==
    \A i \in Offsets("alert") : <<"alert", i>> \notin redelivered =>
        /\ \A x, y \in Outcomes(i) : x = y
        /\ \A a, b \in RowsOf(i) : a = b
        /\ Ahead(i) => Outcomes(i) = {} /\ RowsOf(i) = {}

\* OwnerIsTold of every alert the consumer is done with, committed or not.
ToldSoFar ==
    \A i \in 1..position["alert"] :
        fate["alert"][i] = {"stored"} /\ device = "owned"
        => {i} \X Channels(log["alert"][i]) \subseteq told

-----------------------------------------------------------------------------
(* The types, in parts. *)
Payload == Message("alert") \cup Message("media")

QueueTypes ==
    /\ log \in [Topics -> Seq(Payload)]
    /\ position \in [Topics -> Nat] /\ committed \in [Topics -> Nat \cup {NoOffset}]
    /\ handler \in [Topics -> Call]
    /\ \A t \in Topics :
          /\ log[t] \in Seq(Message(t)) /\ Len(log[t]) <= MaxLog[t]
          /\ position[t] <= Len(log[t]) /\ committed[t] <= position[t]
          /\ handler[t].pc /= "idle" => position[t] < Len(log[t])

FateTypes == /\ fate = [t \in Topics |-> fate[t]]
             /\ \A t \in Topics : fate[t] \in [Offsets(t) -> SUBSET Fates]

RowTypes == /\ alerts \in Seq(AlertRow) /\ media \in Seq(MediaRow)
            /\ \A a \in DOMAIN alerts : alerts[a].link <= Len(media)

OtherTypes ==
    /\ device \in {"owned", "unowned", "deleted"}
    /\ confirm \in Nat /\ resolver \in Reader
    /\ told \subseteq Offsets("alert") \X {"socket", "mail"}
    /\ redelivered \subseteq {p \in Topics \X Nat : p[2] \in Offsets(p[1])}
    /\ confirms \in 0..MaxConfirms /\ faults \in 0..MaxFaults
    /\ crashes \in 0..MaxCrashes

LEMMA TypesAre == TypeOK <=> QueueTypes /\ FateTypes /\ RowTypes /\ OtherTypes
BY DEF TypeOK, QueueTypes, FateTypes, RowTypes, OtherTypes, Payload

LEMMA LogIs ==
    ASSUME QueueTypes, NEW t \in Topics
    PROVE  /\ Len(log[t]) \in Nat /\ MaxLog[t] \in Nat /\ Current(t) \in Nat
           /\ position[t] \in Nat /\ position[t] <= Len(log[t]) /\ Len(log[t]) <= MaxLog[t]
           /\ position[t] < Len(log[t]) => Current(t) \in 1..Len(log[t]) /\ Current(t) \in Offsets(t)
<1>1. log[t] \in Seq(Message(t)) /\ position[t] \in Nat
    BY DEF QueueTypes
<1>2. Len(log[t]) \in Nat
    BY <1>1
<1>3. MaxLog[t] \in Nat
    BY ConstantsAssumption
<1>4. position[t] <= Len(log[t]) /\ Len(log[t]) <= MaxLog[t]
    BY DEF QueueTypes
<1>. QED  BY <1>1, <1>2, <1>3, <1>4 DEF Current, Offsets

LEMMA GotoIs ==
    ASSUME QueueTypes, NEW t \in Topics, NEW pc \in {"idle", "found", "stored", "failed"},
           NEW r \in Nat, NEW n \in Nat, Goto(t, pc, r, n)
    PROVE  /\ position' = position /\ handler' \in [Topics -> Call]
           /\ handler'[t].pc = pc /\ handler'[t].row = r /\ handler'[t].seen = n
           /\ \A u \in Topics \ {t} : handler'[u] = handler[u]
<1> DEFINE k == [pc |-> pc, row |-> r, seen |-> n]
<1>1. k \in Call /\ k.pc = pc /\ k.row = r /\ k.seen = n
    BY DEF Call
<1>2. handler' = [handler EXCEPT ![t] = k] /\ position' = position
    BY DEF Goto
<1>3. handler \in [Topics -> Call]
    BY DEF QueueTypes
<1> HIDE DEF k
<1>. QED  BY <1>1, <1>2, <1>3

LEMMA ReturnIs ==
    ASSUME QueueTypes, NEW t \in Topics, Return(t)
    PROVE  /\ position' \in [Topics -> Nat] /\ handler' \in [Topics -> Call]
           /\ handler'[t].pc = "idle" /\ position'[t] = position[t] + 1
           /\ \A u \in Topics \ {t} : handler'[u] = handler[u] /\ position'[u] = position[u]
<1>1. handler \in [Topics -> Call] /\ position \in [Topics -> Nat]
    BY DEF QueueTypes
<1>2. Idle \in Call /\ Idle.pc = "idle"
    BY DEF Idle, Call, None
<1>3. position' \in [Topics -> Nat] /\ position'[t] = position[t] + 1
      /\ \A u \in Topics \ {t} : position'[u] = position[u]
    BY <1>1 DEF Return
<1>4. handler' \in [Topics -> Call] /\ handler'[t] = Idle
      /\ \A u \in Topics \ {t} : handler'[u] = handler[u]
    BY <1>1, <1>2 DEF Return
<1>. QED  BY <1>2, <1>3, <1>4

\* A step of the handler of t.
Moves(t) ==
    \/ Return(t)
    \/ \E pc \in {"idle", "found", "stored", "failed"}, r, n \in Nat : Goto(t, pc, r, n)

LEMMA QueueMoves ==
    ASSUME QueueTypes, NEW t \in Topics, position[t] < Len(log[t]), Moves(t),
           UNCHANGED <<log, committed>>
    PROVE  QueueTypes'
<1>1. \A u \in Topics : /\ log[u] \in Seq(Message(u)) /\ Len(log[u]) <= MaxLog[u]
                        /\ position[u] <= Len(log[u]) /\ committed[u] <= position[u]
                        /\ handler[u].pc /= "idle" => position[u] < Len(log[u])
                        /\ committed[u] \in Nat \cup {NoOffset} /\ position[u] \in Nat
                        /\ Len(log[u]) \in Nat
    BY LogIs DEF QueueTypes
<1>2. CASE Return(t)
    <2>1. \A u \in Topics : /\ position'[u] <= Len(log[u]) /\ committed[u] <= position'[u]
                            /\ handler'[u].pc /= "idle" => position'[u] < Len(log[u])
        BY <1>1, <1>2, ReturnIs DEF NoOffset
    <2>. QED  BY <1>1, <1>2, <2>1, ReturnIs DEF QueueTypes
<1>3. CASE ~Return(t)
    <2>1. PICK pc \in {"idle", "found", "stored", "failed"}, r \in Nat, n \in Nat : Goto(t, pc, r, n)
        BY <1>3 DEF Moves
    <2>2. /\ position' = position /\ handler' \in [Topics -> Call]
          /\ \A u \in Topics \ {t} : handler'[u] = handler[u]
        BY <2>1, GotoIs
    <2>3. \A u \in Topics : handler'[u].pc /= "idle" => position[u] < Len(log[u])
        BY <1>1, <2>2
    <2>. QED  BY <1>1, <2>2, <2>3 DEF QueueTypes
<1>. QED  BY <1>2, <1>3

LEMMA BecomesIs ==
    ASSUME QueueTypes, FateTypes, NEW t \in Topics, position[t] < Len(log[t]),
           NEW o \in Fates, Becomes(t, o)
    PROVE  /\ FateTypes'
           /\ fate'[t][Current(t)] = fate[t][Current(t)] \cup {o}
           /\ \A i \in Offsets(t) \ {Current(t)} : fate'[t][i] = fate[t][i]
           /\ \A u \in Topics \ {t} : fate'[u] = fate[u]
<1> DEFINE c == Current(t)
           g == [fate[t] EXCEPT ![c] = fate[t][c] \cup {o}]
<1>1. c \in Offsets(t)
    BY LogIs
<1>2. fate = [u \in Topics |-> fate[u]] /\ fate[t] \in [Offsets(t) -> SUBSET Fates]
    BY DEF FateTypes
<1>3. fate' = [fate EXCEPT ![t] = g]
    BY <1>1, <1>2 DEF Becomes
<1> HIDE DEF c
<1>4. fate[t][c] \cup {o} \in SUBSET Fates
    BY <1>1, <1>2
<1>5. /\ g \in [Offsets(t) -> SUBSET Fates] /\ g[c] = fate[t][c] \cup {o}
      /\ \A i \in Offsets(t) \ {c} : g[i] = fate[t][i]
    BY <1>1, <1>2, <1>4
<1> HIDE DEF g
<1>6. /\ fate'[t] = g /\ \A u \in Topics \ {t} : fate'[u] = fate[u]
      /\ fate' = [u \in Topics |-> fate'[u]]
    BY <1>2, <1>3
<1>7. FateTypes'
    BY <1>5, <1>6 DEF FateTypes, Offsets
<1>. QED  BY <1>5, <1>6, <1>7 DEF c

\* Every row of a table is written anew.
LEMMA MapIs ==
    ASSUME NEW S, NEW s \in Seq(S), NEW f, f = [a \in DOMAIN s |-> f[a]],
           \A a \in DOMAIN s : f[a] \in S
    PROVE  f \in Seq(S) /\ Len(f) = Len(s) /\ DOMAIN f = DOMAIN s
<1>1. PICK n \in Nat : n = Len(s)
    OBVIOUS
<1>2. DOMAIN s = 1..n
    BY <1>1
<1>3. f \in [1..n -> S]
    BY <1>2
<1>. QED  BY <1>1, <1>2, <1>3

LEMMA AppendIs ==
    ASSUME NEW S, NEW s \in Seq(S), NEW x \in S
    PROVE  /\ Append(s, x) \in Seq(S) /\ Len(Append(s, x)) = Len(s) + 1 /\ Len(s) \in Nat
           /\ Append(s, x)[Len(s) + 1] = x /\ \A i \in 1..Len(s) : Append(s, x)[i] = s[i]
           /\ DOMAIN s = 1..Len(s) /\ DOMAIN Append(s, x) = 1..(Len(s) + 1)
OBVIOUS

LEMMA RowsAre ==
    ASSUME RowTypes
    PROVE  /\ DOMAIN alerts = 1..Len(alerts) /\ Len(alerts) \in Nat
           /\ DOMAIN media = 1..Len(media) /\ Len(media) \in Nat
           /\ \A a \in DOMAIN alerts :
                 /\ alerts[a] \in AlertRow /\ alerts[a].link \in Nat /\ alerts[a].link <= Len(media)
           /\ \A r \in DOMAIN media : media[r] \in MediaRow
<1>1. alerts \in Seq(AlertRow) /\ media \in Seq(MediaRow)
    BY DEF RowTypes
<1>2. /\ DOMAIN alerts = 1..Len(alerts) /\ Len(alerts) \in Nat
      /\ DOMAIN media = 1..Len(media) /\ Len(media) \in Nat
    BY <1>1
<1>3. \A a \in DOMAIN alerts : alerts[a] \in AlertRow
    BY <1>1
<1>4. \A r \in DOMAIN media : media[r] \in MediaRow
    BY <1>1
<1>5. \A a \in DOMAIN alerts : alerts[a].link \in Nat
    BY <1>3 DEF AlertRow
<1>. QED  BY <1>2, <1>3, <1>4, <1>5 DEF RowTypes

-----------------------------------------------------------------------------
(* What the statements do to the rows. *)

\* The media rows keep what they are; only the note on their link changes.
SameMedia == /\ media' \in Seq(MediaRow) /\ Len(media') = Len(media)
             /\ DOMAIN media' = DOMAIN media
             /\ \A r \in DOMAIN media : /\ media'[r].image = media[r].image
                                        /\ media'[r].snap = media[r].snap

LEMMA MarkIs ==
    ASSUME RowTypes, NEW Q, NEW x \in {"pending", "done", "lost"},
           media' = [r \in DOMAIN media |->
                        IF r \in Q THEN [media[r] EXCEPT !.linked = x] ELSE media[r]]
    PROVE  /\ SameMedia
           /\ \A r \in DOMAIN media : /\ r \in Q => media'[r].linked = x
                                      /\ r \notin Q => media'[r] = media[r]
<1>1. ASSUME NEW r \in DOMAIN media
      PROVE  /\ media'[r] \in MediaRow /\ media'[r].image = media[r].image
             /\ media'[r].snap = media[r].snap
             /\ r \in Q => media'[r].linked = x
             /\ r \notin Q => media'[r] = media[r]
    <2>1. media[r] \in MediaRow
        BY RowsAre
    <2>2. CASE r \in Q
        <3>1. media'[r] = [media[r] EXCEPT !.linked = x]
            BY <2>2
        <3>. QED  BY <2>1, <2>2, <3>1 DEF MediaRow
    <2>3. CASE r \notin Q
        <3>1. media'[r] = media[r]
            BY <2>3
        <3>. QED  BY <2>1, <2>3, <3>1
    <2>. QED  BY <2>2, <2>3
<1>2. media' = [r \in DOMAIN media |-> media'[r]]
    OBVIOUS
<1>3. media \in Seq(MediaRow)
    BY DEF RowTypes
<1>4. media' \in Seq(MediaRow) /\ Len(media') = Len(media) /\ DOMAIN media' = DOMAIN media
    BY <1>1, <1>2, <1>3, MapIs
<1>. QED  BY <1>1, <1>4 DEF SameMedia

\* The alert rows keep their message and their snapshot.
SameAlerts == /\ alerts' \in Seq(AlertRow) /\ Len(alerts') = Len(alerts)
              /\ DOMAIN alerts' = DOMAIN alerts
              /\ \A a \in DOMAIN alerts : /\ alerts'[a].msg = alerts[a].msg
                                          /\ alerts'[a].snap = alerts[a].snap

LEMMA LinkIs ==
    ASSUME RowTypes, NEW row \in Nat, Link(row)
    PROVE  /\ SameAlerts /\ SameMedia /\ RowTypes'
           /\ \A r \in DOMAIN media : /\ r = row => media'[r].linked = "done"
                                      /\ r # row => media'[r] = media[r]
           /\ \A a \in DOMAIN alerts :
                 /\ alerts'[a].excuse = alerts[a].excuse
                 /\ a \in Unlinked /\ row \in DOMAIN media => alerts'[a].link = row
                 /\ a \notin Unlinked \/ row \notin DOMAIN media => alerts'[a] = alerts[a]
<1>1. /\ SameMedia
      /\ \A r \in DOMAIN media : /\ r \in {row} => media'[r].linked = "done"
                                 /\ r \notin {row} => media'[r] = media[r]
    <2>1. media' = [r \in DOMAIN media |->
                       IF r \in {row} THEN [media[r] EXCEPT !.linked = "done"] ELSE media[r]]
        BY DEF Link
    <2>. QED  BY <2>1, MarkIs
<1>2. ASSUME NEW a \in DOMAIN alerts
      PROVE  /\ alerts'[a] \in AlertRow /\ alerts'[a].msg = alerts[a].msg
             /\ alerts'[a].snap = alerts[a].snap /\ alerts'[a].excuse = alerts[a].excuse
             /\ a \in Unlinked /\ row \in DOMAIN media => alerts'[a].link = row
             /\ a \notin Unlinked \/ row \notin DOMAIN media => alerts'[a] = alerts[a]
             /\ alerts'[a].link <= Len(media)
    <2>1. alerts[a] \in AlertRow /\ alerts[a].link <= Len(media)
        BY RowsAre
    <2>2. CASE a \in Unlinked /\ row \in DOMAIN media
        <3>1. alerts'[a] = [alerts[a] EXCEPT !.link = row]
            BY <2>2 DEF Link
        <3>2. row <= Len(media)
            BY <2>2, RowsAre
        <3>. QED  BY <2>1, <2>2, <3>1, <3>2 DEF AlertRow
    <2>3. CASE ~(a \in Unlinked /\ row \in DOMAIN media)
        <3>1. alerts'[a] = alerts[a]
            BY <2>3 DEF Link
        <3>. QED  BY <2>1, <2>3, <3>1
    <2>. QED  BY <2>2, <2>3
<1>3. alerts' = [a \in DOMAIN alerts |-> alerts'[a]] /\ alerts \in Seq(AlertRow)
    BY DEF Link, RowTypes
<1>4. alerts' \in Seq(AlertRow) /\ Len(alerts') = Len(alerts) /\ DOMAIN alerts' = DOMAIN alerts
    BY <1>2, <1>3, MapIs
<1>5. RowTypes'
    BY <1>1, <1>2, <1>4 DEF RowTypes, SameMedia
<1>. QED  BY <1>1, <1>2, <1>4, <1>5 DEF SameAlerts

LEMMA LinkFailsIs ==
    ASSUME RowTypes, NEW row \in Nat, LinkFails(row)
    PROVE  /\ SameMedia /\ RowTypes' /\ alerts' = alerts
           /\ \A r \in DOMAIN media : media'[r].linked = "done" => media[r].linked = "done"
<1>1. /\ SameMedia
      /\ \A r \in DOMAIN media : /\ r \in {row} => media'[r].linked = "lost"
                                 /\ r \notin {row} => media'[r] = media[r]
    <2>1. media' = [r \in DOMAIN media |->
                       IF r \in {row} THEN [media[r] EXCEPT !.linked = "lost"] ELSE media[r]]
        BY DEF LinkFails
    <2>. QED  BY <2>1, MarkIs
<1>2. alerts' = alerts
    BY DEF LinkFails
<1>3. RowTypes'
    BY <1>1, <1>2 DEF RowTypes, SameMedia
<1>. QED  BY <1>1, <1>2, <1>3

\* The rows after an INSERT of a media row.
LEMMA NewMediaIs ==
    ASSUME RowTypes, NEW image \in BOOLEAN, NEW snap \in BOOLEAN,
           media' = Append(media, NewMedia(image, snap)), alerts' = alerts
    PROVE  /\ RowTypes' /\ Len(media') = Len(media) + 1
           /\ \A r \in DOMAIN media : media'[r] = media[r]
           /\ \A r \in DOMAIN media' : r \in DOMAIN media \/ r = Len(media) + 1
           /\ media'[Len(media) + 1].image = image /\ media'[Len(media) + 1].snap = snap
           /\ image /\ snap => media'[Len(media) + 1].linked = "pending"
<1> DEFINE x == NewMedia(image, snap)
<1>1. /\ x \in MediaRow /\ x.image = image /\ x.snap = snap
      /\ image /\ snap => x.linked = "pending"
    BY DEF NewMedia, MediaRow
<1>2. media \in Seq(MediaRow) /\ media' = Append(media, x)
    BY DEF RowTypes
<1> HIDE DEF x
<1>3. /\ media' \in Seq(MediaRow) /\ Len(media') = Len(media) + 1 /\ Len(media) \in Nat
      /\ media'[Len(media) + 1] = x /\ \A i \in 1..Len(media) : media'[i] = media[i]
      /\ DOMAIN media = 1..Len(media) /\ DOMAIN media' = 1..(Len(media) + 1)
    BY <1>1, <1>2, AppendIs
<1>4. \A a \in DOMAIN alerts : alerts[a].link <= Len(media')
    BY <1>3, RowsAre
<1>5. RowTypes'
    BY <1>3, <1>4 DEF RowTypes
<1>6. \A r \in DOMAIN media' : r \in DOMAIN media \/ r = Len(media) + 1
    BY <1>3
<1>. QED  BY <1>1, <1>3, <1>5, <1>6

\* A resolve request saves its copy.
LEMMA SaveIs ==
    ASSUME RowTypes, OtherTypes, ResolveSave, alerts # <<>> => resolver.link <= Len(media)
    PROVE  /\ SameAlerts /\ RowTypes' /\ media' = media
           /\ \A a \in DOMAIN alerts :
                 \/ alerts'[a].link = alerts[a].link /\ alerts'[a].excuse = alerts[a].excuse
                 \/ alerts'[a].excuse = "resolved"
<1>1. ASSUME NEW a \in DOMAIN alerts
      PROVE  /\ alerts'[a] \in AlertRow /\ alerts'[a].msg = alerts[a].msg
             /\ alerts'[a].snap = alerts[a].snap /\ alerts'[a].link <= Len(media)
             /\ \/ alerts'[a].link = alerts[a].link /\ alerts'[a].excuse = alerts[a].excuse
                \/ alerts'[a].excuse = "resolved"
    <2>1. alerts[a] \in AlertRow /\ alerts[a].link <= Len(media)
        BY RowsAre
    <2>2. resolver.link \in Nat /\ resolver.link <= Len(media)
        BY DEF OtherTypes, Reader
    <2>3. CASE a # resolver.row
        <3>1. alerts'[a] = alerts[a]
            BY <2>3 DEF ResolveSave
        <3>. QED  BY <2>1, <3>1
    <2>4. CASE a = resolver.row /\ alerts[a].link # resolver.link
        <3>1. alerts'[a] = [alerts[a] EXCEPT !.resolved = TRUE, !.link = resolver.link,
                                             !.excuse = "resolved"]
            BY <2>4 DEF ResolveSave
        <3>. QED  BY <2>1, <2>2, <3>1 DEF AlertRow
    <2>5. CASE a = resolver.row /\ alerts[a].link = resolver.link
        <3>1. alerts'[a] = [alerts[a] EXCEPT !.resolved = TRUE, !.link = resolver.link,
                                             !.excuse = alerts[a].excuse]
            BY <2>5 DEF ResolveSave
        <3>. QED  BY <2>1, <2>2, <2>5, <3>1 DEF AlertRow
    <2>. QED  BY <2>3, <2>4, <2>5
<1>2. alerts' = [a \in DOMAIN alerts |-> alerts'[a]] /\ alerts \in Seq(AlertRow) /\ media' = media
    BY DEF ResolveSave, RowTypes
<1>3. alerts' \in Seq(AlertRow) /\ Len(alerts') = Len(alerts) /\ DOMAIN alerts' = DOMAIN alerts
    BY <1>1, <1>2, MapIs
<1>4. RowTypes'
    BY <1>1, <1>2, <1>3 DEF RowTypes
<1>. QED  BY <1>1, <1>2, <1>3, <1>4 DEF SameAlerts

\* A crash gives up the links that were still to be made.
LEMMA CrashRows ==
    ASSUME RowTypes, Crash
    PROVE  /\ SameMedia /\ RowTypes' /\ alerts' = alerts
           /\ \A r \in DOMAIN media : media'[r].linked = "done" => media[r].linked = "done"
<1> DEFINE Q == {r \in DOMAIN media : media[r].linked = "pending"}
<1>1. media' = [r \in DOMAIN media |->
                   IF r \in Q THEN [media[r] EXCEPT !.linked = "lost"] ELSE media[r]]
    BY DEF Crash
<1> HIDE DEF Q
<1>2. /\ SameMedia
      /\ \A r \in DOMAIN media : /\ r \in Q => media'[r].linked = "lost"
                                 /\ r \notin Q => media'[r] = media[r]
    BY <1>1, MarkIs
<1>3. alerts' = alerts
    BY DEF Crash
<1>4. RowTypes'
    BY <1>2, <1>3 DEF RowTypes, SameMedia
<1>. QED  BY <1>2, <1>3, <1>4

LEMMA LeastNumber ==
    ASSUME NEW S \in SUBSET Nat, S # {}
    PROVE  \E n \in S : \A m \in S : n <= m
<1> DEFINE R == {ss \in Nat \X Nat : ss[1] < ss[2]}
<1>1. IsWellFoundedOn(R, Nat)
    BY NatLessThanWellFounded DEF OpToRel
<1> HIDE DEF R
<1>2. PICK n \in S : \A m \in S : ~(<<m, n>> \in R)
    BY <1>1, WFMin
<1>3. ASSUME NEW m \in S PROVE n <= m
    <2>1. m \in Nat /\ n \in Nat
        OBVIOUS
    <2>2. m < n => <<m, n>> \in R
        BY <2>1 DEF R
    <2>. QED  BY <1>2, <2>1, <2>2
<1>. QED  BY <1>3

\* The newest image of the snapshot is a row; there is none only without images.
LEMMA SnapshotIs ==
    ASSUME RowTypes
    PROVE  /\ Snapshot \in Nat /\ Snapshot <= Len(media)
           /\ Snapshot = None => Images = {}
<1>1. /\ DOMAIN media = 1..Len(media) /\ Len(media) \in Nat
    BY RowsAre
<1>2. CASE Images = {}
    BY <1>1, <1>2 DEF Snapshot, None
<1>3. CASE Images # {}
    <2> DEFINE S == {n \in Nat : \E r \in Images : n = Len(media) - r}
    <2>1. \A r \in Images : r \in 1..Len(media)
        BY <1>1 DEF Images
    <2>2. S # {} /\ S \in SUBSET Nat
        <3>1. PICK r \in Images : TRUE
            BY <1>3
        <3>2. Len(media) - r \in Nat
            BY <1>1, <2>1
        <3>3. Len(media) - r \in S
            BY <3>1, <3>2
        <3>. QED  BY <3>3
    <2>3. PICK n \in S : \A m \in S : n <= m
        <3> HIDE DEF S
        <3>. QED  BY <2>2, LeastNumber
    <2>4. PICK r \in Images : n = Len(media) - r
        BY <2>3
    <2>5. ASSUME NEW s \in Images PROVE r >= s
        <3>1. PICK m \in Nat : m = Len(media) - s
            BY <1>1, <2>1
        <3>2. m \in S
            BY <3>1
        <3>. QED  BY <1>1, <2>1, <2>3, <2>4, <3>1, <3>2
    <2>6. Max(Images) \in Images
        BY <2>4, <2>5 DEF Max
    <2>. QED  BY <1>1, <1>3, <2>1, <2>6 DEF Snapshot, None
<1>. QED  BY <1>2, <1>3

-----------------------------------------------------------------------------
(* Steps of the handlers. *)

LEMMA StartIs ==
    ASSUME TypeOK, StartAlert
    PROVE  /\ position["alert"] < Len(log["alert"]) /\ handler["alert"].pc = "idle"
           /\ \/ Return("alert") /\ Becomes("alert", "skipped")
              \/ /\ Goto("alert", "found", IF log["alert"][Current("alert")].snap THEN Snapshot ELSE None,
                         Len(media))
                 /\ UNCHANGED fate
              \/ Goto("alert", "failed", None, 0) /\ UNCHANGED fate
BY DEF StartAlert, Read, Fail

\* Every step of a handler takes its own message on.
LEMMA ConsumerQueue ==
    ASSUME TypeOK, ConsumerStep
    PROVE  /\ UNCHANGED <<log, committed>>
           /\ \E t \in Topics :
                 /\ position[t] < Len(log[t]) /\ Moves(t)
                 /\ fate' = fate \/ \E o \in Fates : Becomes(t, o)
<1>1. QueueTypes /\ RowTypes
    BY TypesAre
<1>2. "alert" \in Topics /\ "media" \in Topics
    BY DEF Topics
<1>3. \A t \in Topics : handler[t].pc # "idle" => position[t] < Len(log[t])
    BY <1>1 DEF QueueTypes
<1>4. /\ 0 \in Nat /\ None \in Nat /\ Len(media) \in Nat /\ Snapshot \in Nat
      /\ Len(media) + 1 \in Nat
    BY <1>1, RowsAre, SnapshotIs DEF None
<1>5. \A t \in Topics : Fail(t) => Moves(t)
    BY <1>4 DEF Fail, Moves
<1>6. CASE StartAlert
    <2>1. PICK r \in {Snapshot, None} :
             r = IF log["alert"][Current("alert")].snap THEN Snapshot ELSE None
        OBVIOUS
    <2>2. Goto("alert", "found", r, Len(media)) => Moves("alert")
        BY <1>4 DEF Moves
    <2>3. Moves("alert")
        BY <1>5, <1>6, <2>1, <2>2, <1>2, StartIs DEF Moves, Fail
    <2>. QED  BY <1>2, <1>6, <2>3, StartIs DEF StartAlert, Fates
<1>7. CASE StoreAlert
    <2>1. Moves("alert")
        BY <1>2, <1>4, <1>5, <1>7 DEF StoreAlert, Moves
    <2>. QED  BY <1>2, <1>3, <1>7, <2>1 DEF StoreAlert, Fates
<1>8. CASE NotifyOwner
    BY <1>2, <1>3, <1>8 DEF NotifyOwner, Moves, Fates
<1>9. ASSUME NEW t \in Topics, DeadLetter(t)
      PROVE  /\ UNCHANGED <<log, committed>>
             /\ position[t] < Len(log[t]) /\ Moves(t)
             /\ fate' = fate \/ \E o \in Fates : Becomes(t, o)
    BY <1>3, <1>9 DEF DeadLetter, Moves, Fates
<1>10. CASE UploadMedia
    <2>1. Moves("media")
        BY <1>2, <1>4, <1>5, <1>10 DEF UploadMedia, Moves
    <2>. QED  BY <1>2, <1>10, <2>1 DEF UploadMedia, Read
<1>11. CASE StoreMedia
    <2>1. \/ Fail("media") \/ Return("media")
          \/ /\ Goto("media", "stored", Len(media'), 0)
             /\ media' = Append(media, NewMedia(log["media"][Current("media")].kind = "image",
                                                log["media"][Current("media")].snap))
        BY <1>11 DEF StoreMedia
    <2>2. \A x : Len(Append(media, x)) \in Nat
        BY <1>1 DEF RowTypes
    <2>3. Moves("media")
        BY <1>2, <1>4, <1>5, <2>1, <2>2 DEF Moves
    <2>4. fate' = fate \/ Becomes("media", "stored")
        BY <1>11 DEF StoreMedia
    <2>. QED  BY <1>2, <1>3, <1>11, <2>3, <2>4 DEF StoreMedia, Fates
<1>12. CASE LinkMedia
    <2>1. Moves("media")
        BY <1>2, <1>5, <1>12 DEF LinkMedia, Moves
    <2>. QED  BY <1>2, <1>3, <1>12, <2>1 DEF LinkMedia
<1>. QED  BY <1>2, <1>6, <1>7, <1>8, <1>9, <1>10, <1>11, <1>12
          DEF ConsumerStep, AlertDeadLetter, MediaDeadLetter

-----------------------------------------------------------------------------
(* Types and shapes. *)

\* What every step that is not of a handler does to the queues.
OutsideIs == UNCHANGED <<position, committed, handler, fate>>

LEMMA ForwardIs ==
    ASSUME QueueTypes, NEW t \in Topics, NEW m \in Inputs[t], Forward(t, m)
    PROVE  /\ QueueTypes'
           /\ \A u \in Topics : /\ Len(log[u]) <= Len(log'[u])
                                /\ \A i \in 1..Len(log[u]) : log'[u][i] = log[u][i]
<1>1. m \in Message(t) /\ m \in Payload /\ t \in {"alert", "media"}
    BY ConstantsAssumption DEF Payload, Topics
<1>2. /\ log \in [Topics -> Seq(Payload)] /\ log[t] \in Seq(Message(t))
      /\ Len(log[t]) < MaxLog[t] /\ MaxLog[t] \in Nat
    BY ConstantsAssumption DEF QueueTypes, Forward
<1> DEFINE s == Append(log[t], m)
<1>3. /\ s \in Seq(Message(t)) /\ Len(s) = Len(log[t]) + 1 /\ Len(log[t]) \in Nat
      /\ \A i \in 1..Len(log[t]) : s[i] = log[t][i]
    BY <1>1, <1>2, AppendIs
<1>4. s \in Seq(Payload)
    BY <1>1, <1>2, AppendIs
<1>5. log' = [log EXCEPT ![t] = s]
    BY DEF Forward
<1> HIDE DEF s
<1>6. /\ log' \in [Topics -> Seq(Payload)] /\ log'[t] = s
      /\ \A u \in Topics \ {t} : log'[u] = log[u]
    BY <1>2, <1>4, <1>5
<1>7. UNCHANGED <<position, committed, handler>>
    BY DEF Forward
<1>8. \A u \in Topics : /\ Len(log[u]) <= Len(log'[u])
                        /\ \A i \in 1..Len(log[u]) : log'[u][i] = log[u][i]
    <2>1. \A u \in Topics : Len(log[u]) \in Nat
        BY LogIs
    <2>. QED  BY <1>3, <1>6, <2>1
<1>9. ASSUME NEW u \in Topics
      PROVE  /\ log'[u] \in Seq(Message(u)) /\ Len(log'[u]) <= MaxLog[u]
             /\ position[u] <= Len(log'[u]) /\ committed[u] <= position[u]
             /\ handler[u].pc /= "idle" => position[u] < Len(log'[u])
    <2>1. /\ log[u] \in Seq(Message(u)) /\ Len(log[u]) <= MaxLog[u]
          /\ position[u] <= Len(log[u]) /\ committed[u] <= position[u]
          /\ handler[u].pc /= "idle" => position[u] < Len(log[u])
          /\ position[u] \in Nat
        BY DEF QueueTypes
    <2>2. CASE u = t
        BY <1>2, <1>3, <1>6, <2>1, <2>2
    <2>3. CASE u # t
        BY <1>6, <2>1, <2>3
    <2>. QED  BY <2>2, <2>3
<1>10. QueueTypes'
    BY <1>6, <1>7, <1>9 DEF QueueTypes
<1>. QED  BY <1>8, <1>10

LEMMA CommitIs ==
    ASSUME QueueTypes, NEW t \in Topics, Commit(t)
    PROVE  /\ QueueTypes' /\ UNCHANGED <<log, position, handler, fate>>
           /\ committed'[t] = position[t] /\ \A u \in Topics \ {t} : committed'[u] = committed[u]
<1>1. /\ committed \in [Topics -> Nat \cup {NoOffset}] /\ position[t] \in Nat
      /\ committed' = [committed EXCEPT ![t] = position[t]]
    BY DEF QueueTypes, Commit
<1>2. /\ committed' \in [Topics -> Nat \cup {NoOffset}] /\ committed'[t] = position[t]
      /\ \A u \in Topics \ {t} : committed'[u] = committed[u]
    BY <1>1
<1>3. UNCHANGED <<log, position, handler, fate>>
    BY DEF Commit
<1>4. \A u \in Topics : committed'[u] <= position[u]
    BY <1>1, <1>2 DEF QueueTypes
<1>. QED  BY <1>2, <1>3, <1>4 DEF QueueTypes

LEMMA CrashIs ==
    ASSUME QueueTypes, FateTypes, Crash
    PROVE  /\ QueueTypes' /\ FateTypes' /\ UNCHANGED <<log, committed>>
           /\ \A t \in Topics :
                 /\ handler'[t] = Idle /\ position'[t] = ResumeAt(t) /\ ResumeAt(t) \in Nat
                 /\ \A i \in Offsets(t) :
                       /\ position[t] < i /\ i <= ResumeAt(t) => fate'[t][i] = fate[t][i] \cup {"unread"}
                       /\ ~(position[t] < i /\ i <= ResumeAt(t)) => fate'[t][i] = fate[t][i]
<1>1. UNCHANGED <<log, committed>>
    BY DEF Crash
<1>2. \A t \in Topics : /\ ResumeAt(t) \in Nat /\ ResumeAt(t) <= Len(log[t])
                        /\ committed[t] <= ResumeAt(t)
    <2>1. ASSUME NEW t \in Topics
          PROVE  /\ ResumeAt(t) \in Nat /\ ResumeAt(t) <= Len(log[t]) /\ committed[t] <= ResumeAt(t)
        <3>1. Len(log[t]) \in Nat /\ position[t] \in Nat /\ position[t] <= Len(log[t])
            BY LogIs
        <3>2. committed[t] \in Nat \cup {NoOffset} /\ committed[t] <= position[t]
            BY DEF QueueTypes
        <3>. QED  BY <3>1, <3>2 DEF ResumeAt, NoOffset
    <2>. QED  BY <2>1
<1>3. Idle \in Call /\ Idle.pc = "idle"
    BY DEF Idle, Call, None
<1>4. /\ position' \in [Topics -> Nat] /\ handler' \in [Topics -> Call]
      /\ \A t \in Topics : position'[t] = ResumeAt(t) /\ handler'[t] = Idle
    BY <1>2, <1>3 DEF Crash
<1>5. QueueTypes'
    BY <1>1, <1>2, <1>3, <1>4 DEF QueueTypes
<1>6. ASSUME NEW t \in Topics
      PROVE  /\ fate'[t] \in [Offsets(t) -> SUBSET Fates]
             /\ \A i \in Offsets(t) :
                   /\ position[t] < i /\ i <= ResumeAt(t) => fate'[t][i] = fate[t][i] \cup {"unread"}
                   /\ ~(position[t] < i /\ i <= ResumeAt(t)) => fate'[t][i] = fate[t][i]
    <2>1. fate'[t] = [i \in Offsets(t) |->
                         IF position[t] < i /\ i <= ResumeAt(t) THEN fate[t][i] \cup {"unread"}
                         ELSE fate[t][i]]
        BY DEF Crash
    <2>2. fate[t] \in [Offsets(t) -> SUBSET Fates] /\ "unread" \in Fates
        BY DEF FateTypes, Fates
    <2>. QED  BY <2>1, <2>2
<1>7. fate' = [t \in Topics |-> fate'[t]]
    BY DEF Crash
<1>8. FateTypes'
    BY <1>6, <1>7 DEF FateTypes, Offsets
<1>. QED  BY <1>1, <1>2, <1>4, <1>5, <1>6, <1>8

\* The other steps leave the consumers alone.
Aside == \/ ConfirmInsert \/ ConfirmLink \/ (\E a \in DOMAIN alerts : ResolveRead(a))
         \/ ResolveSave \/ RemoveDevice

LEMMA AsideIs ==
    ASSUME Aside
    PROVE  UNCHANGED <<log, position, committed, handler, fate, told, redelivered, crashes>>
BY DEF Aside, ConfirmInsert, ConfirmLink, ResolveRead, ResolveSave, RemoveDevice

Forwards == \E t \in Topics : \E m \in Inputs[t] : Forward(t, m)

LEMMA NextIs ==
    Next => Forwards \/ ConsumerStep \/ Aside \/ (\E t \in Topics : Commit(t)) \/ Crash
BY DEF Next, Forwards, Aside, ForwardAlert, ForwardMedia, Topics

LEMMA StepQueues ==
    ASSUME TypeOK, [Next]_vars
    PROVE  QueueTypes' /\ FateTypes'
<1>1. QueueTypes /\ FateTypes
    BY TypesAre
<1>2. CASE Forwards
    <2>1. fate' = fate /\ QueueTypes'
        BY <1>1, <1>2, ForwardIs DEF Forwards, Forward
    <2>. QED  BY <1>1, <2>1 DEF FateTypes, Offsets
<1>3. CASE ConsumerStep
    <2>1. PICK t \in Topics : /\ position[t] < Len(log[t]) /\ Moves(t)
                              /\ fate' = fate \/ \E o \in Fates : Becomes(t, o)
        BY <1>3, ConsumerQueue
    <2>2. QueueTypes'
        BY <1>1, <1>3, <2>1, ConsumerQueue, QueueMoves
    <2>3. FateTypes'
        <3>1. CASE fate' = fate
            BY <1>1, <3>1 DEF FateTypes, Offsets
        <3>2. CASE fate' # fate
            BY <1>1, <2>1, <3>2, BecomesIs
        <3>. QED  BY <3>1, <3>2
    <2>. QED  BY <2>2, <2>3
<1>4. CASE Aside \/ UNCHANGED vars
    <2>1. UNCHANGED <<log, position, committed, handler, fate>>
        BY <1>4, AsideIs DEF vars
    <2>. QED  BY <1>1, <2>1 DEF QueueTypes, FateTypes, Offsets
<1>5. ASSUME NEW t \in Topics, Commit(t) PROVE QueueTypes' /\ FateTypes'
    BY <1>1, <1>5, CommitIs DEF FateTypes, Offsets
<1>6. CASE Crash
    BY <1>1, <1>6, CrashIs
<1>. QED  BY <1>2, <1>3, <1>4, <1>5, <1>6, NextIs

\* The row an alert gets, and who had it stored.
LEMMA StoreIs ==
    ASSUME TypeOK, Shapes, StoreAlert
    PROVE  /\ RowTypes' /\ media' = media
           /\ \/ alerts' = alerts /\ fate' = fate /\ Goto("alert", "failed", None, 0)
              \/ /\ device # "deleted" /\ Becomes("alert", "stored")
                 /\ Goto("alert", "stored", None, 0)
                 /\ Len(alerts') = Len(alerts) + 1 /\ DOMAIN alerts' = 1..(Len(alerts) + 1)
                 /\ \A a \in DOMAIN alerts : alerts'[a] = alerts[a]
                 /\ alerts'[Len(alerts) + 1].msg = Current("alert")
                 /\ alerts'[Len(alerts) + 1].snap = log["alert"][Current("alert")].snap
                 /\ alerts'[Len(alerts) + 1].link = handler["alert"].row
                 /\ (\E r \in Images : r > handler["alert"].seen /\ media[r].linked = "done")
                       => alerts'[Len(alerts) + 1].excuse # "none"
<1>1. RowTypes /\ QueueTypes /\ media' = media /\ "alert" \in Topics
    BY TypesAre DEF StoreAlert, Topics
<1>2. CASE alerts' = alerts
    BY <1>1, <1>2 DEF StoreAlert, RowTypes, Fail, Refused, NewAlert
<1>3. CASE alerts' # alerts
    <2> DEFINE c == handler["alert"]
               m == log["alert"][Current("alert")]
               x == NewAlert(c, m)
    <2>1. /\ ~Refused("alert") /\ alerts' = Append(alerts, x)
          /\ Goto("alert", "stored", None, 0) /\ Becomes("alert", "stored")
          /\ c.pc = "found"
        BY <1>3 DEF StoreAlert
    <2>2. device # "deleted"
        BY <2>1 DEF Refused
    <2>3. c \in Call /\ c.row <= Len(media)
        BY <1>1, <2>1, <2>2 DEF QueueTypes, Shapes
    <2>4. m \in Message("alert")
        <3>1. Current("alert") \in 1..Len(log["alert"])
            BY <1>1, <2>1, LogIs DEF QueueTypes
        <3>2. log["alert"] \in Seq(Message("alert"))
            BY <1>1 DEF QueueTypes
        <3>. QED  BY <3>1, <3>2
    <2>5. m.snap \in BOOLEAN /\ c.row \in Nat /\ Current("alert") \in Nat
        BY <1>1, <2>3, <2>4, LogIs DEF Message, Call
    <2> HIDE DEF c, m
    <2>6. /\ x \in AlertRow /\ x.msg = Current("alert") /\ x.snap = m.snap /\ x.link = c.row
          /\ (\E r \in Images : r > c.seen /\ media[r].linked = "done") => x.excuse # "none"
        BY <2>5 DEF NewAlert, AlertRow
    <2> HIDE DEF x
    <2>7. /\ alerts' \in Seq(AlertRow) /\ Len(alerts') = Len(alerts) + 1 /\ Len(alerts) \in Nat
          /\ alerts'[Len(alerts) + 1] = x /\ \A i \in 1..Len(alerts) : alerts'[i] = alerts[i]
          /\ DOMAIN alerts = 1..Len(alerts) /\ DOMAIN alerts' = 1..(Len(alerts) + 1)
        BY <1>1, <2>1, <2>6, AppendIs DEF RowTypes
    <2>8. \A a \in DOMAIN alerts' : alerts'[a].link <= Len(media)
        BY <1>1, <2>3, <2>6, <2>7, RowsAre
    <2>9. RowTypes'
        BY <1>1, <2>7, <2>8 DEF RowTypes
    <2>10. \A a \in DOMAIN alerts : alerts'[a] = alerts[a]
        BY <2>7
    <2>. QED  BY <1>1, <2>1, <2>2, <2>6, <2>7, <2>9, <2>10 DEF c, m
<1>. QED  BY <1>2, <1>3

\* The INSERT of a media row: a message or a confirmed upload; one that is to be
\* linked is an image of the snapshot.
LEMMA InsertIs ==
    ASSUME TypeOK, Shapes, StoreMedia \/ ConfirmInsert
    PROVE  /\ alerts' = alerts /\ RowTypes'
           /\ \/ media' = media
              \/ /\ device # "deleted" /\ Len(media') = Len(media) + 1
                 /\ \A r \in DOMAIN media : media'[r] = media[r]
                 /\ \A r \in DOMAIN media' : r \in DOMAIN media \/ r = Len(media) + 1
                 /\ media'[Len(media) + 1].image /\ media'[Len(media) + 1].snap
                       => media'[Len(media) + 1].linked = "pending"
<1>1. RowTypes /\ QueueTypes /\ "media" \in Topics /\ alerts' = alerts
    BY TypesAre DEF StoreMedia, ConfirmInsert, Topics
<1>2. CASE media' = media
    BY <1>1, <1>2 DEF RowTypes
<1>3. CASE media' # media
    <2>1. PICK image \in BOOLEAN, snap \in BOOLEAN :
             media' = Append(media, NewMedia(image, snap)) /\ device # "deleted"
        <3>1. CASE ConfirmInsert
            BY <3>1 DEF ConfirmInsert
        <3>2. CASE StoreMedia
            <4> DEFINE m == log["media"][Current("media")]
            <4>1. /\ media' = Append(media, NewMedia(m.kind = "image", m.snap))
                  /\ device # "deleted" /\ handler["media"].pc = "found"
                BY <1>3, <3>2 DEF StoreMedia, Refused
            <4>2. Current("media") \in 1..Len(log["media"]) /\ log["media"] \in Seq(Message("media"))
                BY <1>1, <4>1, LogIs DEF QueueTypes
            <4>3. m \in Message("media")
                BY <4>2
            <4>4. m.snap \in BOOLEAN /\ (m.kind = "image") \in BOOLEAN
                BY <4>3 DEF Message
            <4>5. PICK b \in BOOLEAN : b = (m.kind = "image")
                BY <4>4
            <4>6. PICK s \in BOOLEAN : s = m.snap
                BY <4>4
            <4> HIDE DEF m
            <4>7. media' = Append(media, NewMedia(b, s))
                BY <4>1, <4>5, <4>6
            <4>. QED  BY <4>1, <4>7
        <3>. QED  BY <3>1, <3>2
    <2>. QED  BY <1>1, <2>1, NewMediaIs
<1>. QED  BY <1>2, <1>3

\* No row is new, no alert changes, and no link is newly noted as made.
QuietRows == /\ alerts' = alerts /\ SameMedia
             /\ \A r \in DOMAIN media : media'[r].linked = "done" => media[r].linked = "done"

Inserted == /\ alerts' = alerts /\ device # "deleted" /\ Len(media') = Len(media) + 1
            /\ \A r \in DOMAIN media : media'[r] = media[r]
            /\ \A r \in DOMAIN media' : r \in DOMAIN media \/ r = Len(media) + 1
            /\ media'[Len(media) + 1].image /\ media'[Len(media) + 1].snap
                  => media'[Len(media) + 1].linked = "pending"

LEMMA RowSteps ==
    ASSUME TypeOK, Shapes, [Next]_vars
    PROVE  /\ RowTypes'
           /\ \/ QuietRows
              \/ StoreAlert
              \/ Inserted
              \/ (\E row \in Nat : Link(row)) /\ UNCHANGED resolver
              \/ ResolveSave
              \/ RemoveDevice
<1>1. RowTypes /\ QueueTypes /\ OtherTypes
    BY TypesAre
<1>2. CASE UNCHANGED <<alerts, media>>
    <2>1. RowTypes'
        BY <1>1, <1>2 DEF RowTypes
    <2>2. SameMedia
        BY <1>1, <1>2 DEF SameMedia, RowTypes
    <2>. QED  BY <1>2, <2>1, <2>2 DEF QuietRows
<1>3. CASE StoreAlert
    BY <1>3, StoreIs
<1>4. CASE StoreMedia \/ ConfirmInsert
    BY <1>2, <1>4, InsertIs DEF Inserted
<1>5. CASE LinkMedia \/ ConfirmLink
    <2>1. PICK row \in Nat : (Link(row) /\ UNCHANGED resolver) \/ LinkFails(row)
        <3>1. handler["media"].row \in Nat /\ confirm \in Nat
            BY <1>1 DEF QueueTypes, Call, Topics, OtherTypes
        <3>. QED  BY <1>5, <3>1 DEF LinkMedia, ConfirmLink
    <2>. QED  BY <1>1, <2>1, LinkIs, LinkFailsIs DEF QuietRows
<1>6. CASE ResolveSave
    <2>1. alerts # <<>> => resolver.link <= Len(media)
        BY DEF Shapes
    <2>. QED  BY <1>1, <1>6, <2>1, SaveIs
<1>7. CASE RemoveDevice
    <2>1. RowTypes'
        BY <1>7 DEF RemoveDevice, RowTypes
    <2>. QED  BY <1>7, <2>1
<1>8. CASE Crash
    BY <1>1, <1>8, CrashRows DEF QuietRows
<1>9. UNCHANGED vars => UNCHANGED <<alerts, media>>
    BY DEF vars
<1>10. Forwards \/ (\E t \in Topics : Commit(t)) => UNCHANGED <<alerts, media>>
    BY DEF Forwards, Forward, Commit
<1>11. StartAlert \/ NotifyOwner \/ AlertDeadLetter \/ MediaDeadLetter \/ UploadMedia
          \/ (\E a \in DOMAIN alerts : ResolveRead(a)) => UNCHANGED <<alerts, media>>
    BY DEF StartAlert, NotifyOwner, AlertDeadLetter, MediaDeadLetter, DeadLetter, UploadMedia,
           ResolveRead
<1>. QED  BY <1>2, <1>3, <1>4, <1>5, <1>6, <1>7, <1>8, <1>9, <1>10, <1>11, NextIs
          DEF ConsumerStep, Aside

LEMMA ToldTypes ==
    ASSUME TypeOK, NotifyOwner
    PROVE  told' \subseteq Offsets("alert") \X {"socket", "mail"}
<1>1. QueueTypes /\ "alert" \in Topics /\ told \subseteq Offsets("alert") \X {"socket", "mail"}
    BY TypesAre DEF Topics, OtherTypes
<1>2. Current("alert") \in Offsets("alert")
    BY <1>1, LogIs DEF NotifyOwner, QueueTypes
<1>3. \A m : Reached(m) \subseteq {"socket", "mail"}
    BY DEF Reached, Channels
<1>. QED  BY <1>1, <1>2, <1>3 DEF NotifyOwner

LEMMA RedeliveredTypes ==
    ASSUME TypeOK, Crash
    PROVE  redelivered' \subseteq {p \in Topics \X Nat : p[2] \in Offsets(p[1])}
<1>1. QueueTypes /\ redelivered \subseteq {p \in Topics \X Nat : p[2] \in Offsets(p[1])}
    BY TypesAre DEF OtherTypes
<1>2. ASSUME NEW t \in Topics, NEW i \in ResumeAt(t) + 1..Taken(t)
      PROVE  i \in Nat /\ i \in Offsets(t)
    <2>1. /\ Len(log[t]) \in Nat /\ MaxLog[t] \in Nat /\ position[t] \in Nat
          /\ position[t] <= Len(log[t]) /\ Len(log[t]) <= MaxLog[t]
          /\ handler[t].pc /= "idle" => position[t] < Len(log[t])
        BY <1>1, LogIs DEF QueueTypes
    <2>2. ResumeAt(t) \in Nat /\ FateTypes
        BY <1>1, TypesAre, CrashIs
    <2>3. Taken(t) \in Nat /\ Taken(t) <= MaxLog[t]
        BY <2>1 DEF Taken, Current
    <2>. QED  BY <2>1, <2>2, <2>3 DEF Offsets
<1>3. \A p \in redelivered' \ redelivered : \E t \in Topics : p \in {t} \X (ResumeAt(t) + 1..Taken(t))
    BY DEF Crash
<1>4. ASSUME NEW t \in Topics, NEW p \in {t} \X (ResumeAt(t) + 1..Taken(t))
      PROVE  p \in {q \in Topics \X Nat : q[2] \in Offsets(q[1])}
    <2>1. PICK i \in ResumeAt(t) + 1..Taken(t) : p = <<t, i>>
        OBVIOUS
    <2>2. i \in Nat /\ i \in Offsets(t)
        BY <1>2
    <2>. QED  BY <2>1, <2>2
<1>. QED  BY <1>1, <1>3, <1>4

LEMMA StepOthers ==
    ASSUME TypeOK, Shapes, [Next]_vars
    PROVE  OtherTypes'
<1>1. RowTypes /\ QueueTypes /\ OtherTypes /\ RowTypes'
    BY TypesAre, RowSteps
<1>2. MaxConfirms \in Nat /\ MaxFaults \in Nat /\ MaxCrashes \in Nat
    BY ConstantsAssumption
<1>3. confirms \in 0..MaxConfirms /\ faults \in 0..MaxFaults /\ crashes \in 0..MaxCrashes
    BY <1>1 DEF OtherTypes
<1>4. CASE UNCHANGED vars
    BY <1>1, <1>4 DEF OtherTypes, vars, Offsets
<1>5. CASE Forwards \/ \E t \in Topics : Commit(t)
    BY <1>1, <1>5 DEF OtherTypes, Forwards, Forward, Commit, Offsets
<1>6. CASE ConsumerStep
    <2>1. UNCHANGED <<device, confirm, resolver, redelivered, confirms, crashes>>
        BY <1>6 DEF ConsumerStep, StartAlert, StoreAlert, NotifyOwner, AlertDeadLetter,
                    MediaDeadLetter, DeadLetter, UploadMedia, StoreMedia, LinkMedia
    <2>2. faults' \in 0..MaxFaults
        <3>1. faults' = faults \/ (faults < MaxFaults /\ faults' = faults + 1)
            BY <1>6 DEF ConsumerStep, StartAlert, StoreAlert, NotifyOwner, AlertDeadLetter,
                    MediaDeadLetter, DeadLetter, UploadMedia, StoreMedia, LinkMedia, Fault, NoFault
        <3>. QED  BY <1>2, <1>3, <3>1
    <2>3. told' \subseteq Offsets("alert") \X {"socket", "mail"}
        <3>1. NotifyOwner \/ told' = told
            BY <1>6 DEF ConsumerStep, StartAlert, StoreAlert, AlertDeadLetter,
                    MediaDeadLetter, DeadLetter, UploadMedia, StoreMedia, LinkMedia
        <3>. QED  BY <1>1, <3>1, ToldTypes DEF OtherTypes
    <2>. QED  BY <1>1, <2>1, <2>2, <2>3 DEF OtherTypes, Offsets
<1>7. CASE ConfirmInsert
    <2>1. confirms' \in 0..MaxConfirms
        BY <1>2, <1>3, <1>7 DEF ConfirmInsert
    <2>2. confirm' \in Nat
        BY <1>1, <1>7, RowsAre DEF ConfirmInsert, RowTypes
    <2>3. UNCHANGED <<device, resolver, told, redelivered, faults, crashes>>
        BY <1>7 DEF ConfirmInsert
    <2>. QED  BY <1>1, <2>1, <2>2, <2>3 DEF OtherTypes, Offsets
<1>8. CASE ConfirmLink
    <2>1. faults' \in 0..MaxFaults
        BY <1>2, <1>3, <1>8 DEF ConfirmLink, Fault, NoFault
    <2>2. confirm' = 0 /\ UNCHANGED <<device, resolver, told, redelivered, confirms, crashes>>
        BY <1>8 DEF ConfirmLink, None
    <2>. QED  BY <1>1, <2>1, <2>2 DEF OtherTypes, Offsets
<1>9. ASSUME NEW a \in DOMAIN alerts, ResolveRead(a) PROVE OtherTypes'
    <2>1. a \in Nat /\ alerts[a].link \in Nat
        BY <1>1, RowsAre
    <2>2. resolver' \in Reader
        BY <1>9, <2>1 DEF ResolveRead, Reader
    <2>3. UNCHANGED <<device, confirm, told, redelivered, confirms, faults, crashes>>
        BY <1>9 DEF ResolveRead
    <2>. QED  BY <1>1, <2>2, <2>3 DEF OtherTypes, Offsets
<1>10. CASE ResolveSave \/ RemoveDevice
    <2>1. resolver' \in Reader
        <3>1. CASE ResolveSave
            BY <3>1 DEF ResolveSave, Reader, None
        <3>2. CASE RemoveDevice
            BY <1>1, <3>2 DEF RemoveDevice, OtherTypes
        <3>. QED  BY <1>10, <3>1, <3>2
    <2>2. device' \in {device, "deleted"} /\ UNCHANGED <<confirm, told, redelivered, confirms, faults, crashes>>
        BY <1>10 DEF ResolveSave, RemoveDevice
    <2>. QED  BY <1>1, <2>1, <2>2 DEF OtherTypes, Offsets
<1>11. CASE Crash
    <2>1. crashes' \in 0..MaxCrashes
        BY <1>2, <1>3, <1>11 DEF Crash
    <2>2. resolver' \in Reader /\ confirm' \in Nat /\ UNCHANGED <<device, told, confirms, faults>>
        BY <1>11 DEF Crash, Reader, None
    <2>3. redelivered' \subseteq {p \in Topics \X Nat : p[2] \in Offsets(p[1])}
        BY <1>11, RedeliveredTypes
    <2>. QED  BY <1>1, <2>1, <2>2, <2>3 DEF OtherTypes, Offsets
<1>. QED  BY <1>4, <1>5, <1>6, <1>7, <1>8, <1>9, <1>10, <1>11, NextIs DEF Aside

\* While the device is there its media rows stay; without it there are no rows.
LEMMA RowsStay ==
    ASSUME TypeOK, Shapes, [Next]_vars
    PROVE  /\ device = "deleted" => alerts' = <<>> /\ media' = <<>> /\ device' = "deleted"
           /\ device # "deleted" /\ device' = "deleted" => RemoveDevice
           /\ device' # "deleted" =>
                 /\ device' = device /\ Len(media) <= Len(media')
                 /\ \A r \in DOMAIN media : /\ r \in DOMAIN media' /\ media'[r].image = media[r].image
                                            /\ media'[r].snap = media[r].snap
<1>1. RowTypes /\ RowTypes' /\ OtherTypes
    BY TypesAre, RowSteps
<1>2. /\ DOMAIN media = 1..Len(media) /\ Len(media) \in Nat
      /\ DOMAIN media' = 1..Len(media') /\ Len(media') \in Nat
    BY <1>1 DEF RowTypes
<1>3. device' = device \/ RemoveDevice
    BY NextIs DEF Forwards, Forward, ConsumerStep, StartAlert, StoreAlert, NotifyOwner,
          AlertDeadLetter, MediaDeadLetter, DeadLetter, UploadMedia, StoreMedia, LinkMedia, Aside,
          ConfirmInsert, ConfirmLink, ResolveRead, ResolveSave, Commit, Crash, vars
<1>4. RemoveDevice => device # "deleted" /\ device' = "deleted"
    BY DEF RemoveDevice
<1>5. alerts # <<>> => resolver.link <= Len(media)
    BY DEF Shapes
<1>6. CASE device = "deleted"
    <2>1. alerts = <<>> /\ media = <<>> /\ Len(alerts) = 0 /\ Len(media) = 0
        BY <1>6 DEF Shapes
    <2>2. CASE SameMedia
        <3>1. Len(media') = 0 /\ media' \in Seq(MediaRow)
            BY <2>1, <2>2 DEF SameMedia
        <3>2. media' = <<>>
            BY <3>1
        <3>3. alerts' = alerts \/ Len(alerts') = 0
            BY <2>1, <2>2, <1>1, <1>4, <1>6, RowSteps, StoreIs, LinkIs, SaveIs, <1>5
               DEF QuietRows, Inserted, SameAlerts
        <3>4. alerts' \in Seq(AlertRow)
            BY <1>1 DEF RowTypes
        <3>5. Len(alerts') = 0
            BY <2>1, <3>3
        <3>6. alerts' = <<>>
            BY <3>4, <3>5
        <3>. QED  BY <1>3, <1>4, <1>6, <3>2, <3>6
    <2>3. SameMedia
        <3>1. media' = media => SameMedia
            BY <1>1 DEF SameMedia, RowTypes
        <3>. QED  BY <1>1, <1>4, <1>5, <1>6, <3>1, RowSteps, StoreIs, LinkIs, SaveIs DEF QuietRows, Inserted
    <2>. QED  BY <1>6, <2>2, <2>3
<1>7. CASE device' # "deleted"
    <2>1. SameMedia \/ (Len(media') = Len(media) + 1 /\ \A r \in DOMAIN media : media'[r] = media[r])
        <3>1. media' = media => SameMedia
            BY <1>1 DEF SameMedia, RowTypes
        <3>2. QuietRows => SameMedia
            BY DEF QuietRows
        <3>3. StoreAlert \/ ResolveSave => media' = media
            BY DEF StoreAlert, ResolveSave
        <3>4. (\E row \in Nat : Link(row)) => SameMedia
            BY <1>1, LinkIs
        <3>5. ~RemoveDevice
            BY <1>4, <1>7
        <3>6. Inserted => Len(media') = Len(media) + 1 /\ \A r \in DOMAIN media : media'[r] = media[r]
            BY DEF Inserted
        <3>. QED  BY <3>1, <3>2, <3>3, <3>4, <3>5, <3>6, RowSteps
    <2>2. CASE SameMedia
        BY <1>2, <1>3, <1>4, <1>7, <2>2 DEF SameMedia
    <2>3. CASE Len(media') = Len(media) + 1 /\ \A r \in DOMAIN media : media'[r] = media[r]
        <3>1. Len(media) <= Len(media') /\ \A r \in DOMAIN media : r \in DOMAIN media'
            BY <1>2, <2>3
        <3>. QED  BY <1>3, <1>4, <1>7, <2>3, <3>1
    <2>. QED  BY <2>1, <2>2, <2>3
<1>. QED  BY <1>3, <1>6, <1>7

\* The log of a topic keeps the messages it has.
LEMMA LogGrows ==
    ASSUME TypeOK, [Next]_vars, NEW t \in Topics
    PROVE  /\ Len(log[t]) <= Len(log'[t]) /\ \A i \in 1..Len(log[t]) : log'[t][i] = log[t][i]
<1>1. QueueTypes /\ FateTypes /\ Len(log[t]) \in Nat
    BY TypesAre, LogIs
<1>2. CASE Forwards
    BY <1>1, <1>2, ForwardIs DEF Forwards
<1>3. CASE log' = log
    BY <1>1, <1>3
<1>4. Forwards \/ log' = log
    BY <1>1, NextIs, ConsumerQueue, AsideIs, CommitIs, CrashIs DEF vars
<1>. QED  BY <1>2, <1>3, <1>4

\* What a step of a handler does with the message it is called for.
Stores(t) == \E o \in Fates : Becomes(t, o)
Handles(t) ==
    \/ Return(t) /\ (Stores(t) \/ (handler[t].pc = "stored" /\ fate' = fate))
    \/ \E pc \in {"found", "failed"}, r, n \in Nat : Goto(t, pc, r, n) /\ fate' = fate
    \/ \E r, n \in Nat : Goto(t, "stored", r, n) /\ Stores(t)

LEMMA ConsumerHandles ==
    ASSUME TypeOK, ConsumerStep
    PROVE  \E t \in Topics : /\ position[t] < Len(log[t]) /\ Handles(t)
                             /\ t = "alert" => StartAlert \/ StoreAlert \/ NotifyOwner \/ AlertDeadLetter
                             /\ t = "media" => told' = told
<1>1. QueueTypes /\ RowTypes
    BY TypesAre
<1>2. "alert" \in Topics /\ "media" \in Topics
    BY DEF Topics
<1>3. \A t \in Topics : handler[t].pc # "idle" => position[t] < Len(log[t])
    BY <1>1 DEF QueueTypes
<1>4. /\ 0 \in Nat /\ None \in Nat /\ Len(media) \in Nat /\ Snapshot \in Nat
      /\ Len(media) + 1 \in Nat
    BY <1>1, RowsAre, SnapshotIs DEF None
<1>5. \A t \in Topics : Fail(t) /\ fate' = fate => Handles(t)
    BY <1>4 DEF Fail, Handles
<1>6. CASE StartAlert
    <2>1. PICK r \in {Snapshot, None} :
             r = IF log["alert"][Current("alert")].snap THEN Snapshot ELSE None
        OBVIOUS
    <2>2. Goto("alert", "found", r, Len(media)) /\ fate' = fate => Handles("alert")
        BY <1>4 DEF Handles
    <2>3. Return("alert") /\ Becomes("alert", "skipped") => Handles("alert")
        BY DEF Handles, Stores, Fates
    <2>. QED  BY <1>2, <1>5, <1>6, <2>1, <2>2, <2>3, StartIs DEF Fail
<1>7. CASE StoreAlert
    <2>1. Goto("alert", "stored", None, 0) /\ Becomes("alert", "stored") => Handles("alert")
        BY <1>4 DEF Handles, Stores, Fates
    <2>. QED  BY <1>2, <1>3, <1>5, <1>7, <2>1 DEF StoreAlert
<1>8. CASE NotifyOwner
    BY <1>2, <1>3, <1>8 DEF NotifyOwner, Handles, Stores, Fates
<1>9. ASSUME NEW t \in Topics, DeadLetter(t)
      PROVE  position[t] < Len(log[t]) /\ Handles(t) /\ told' = told
    BY <1>3, <1>9 DEF DeadLetter, Handles, Stores, Fates
<1>10. CASE UploadMedia
    <2>1. Goto("media", "found", None, 0) /\ fate' = fate => Handles("media")
        BY <1>4 DEF Handles
    <2>. QED  BY <1>2, <1>5, <1>10, <2>1 DEF UploadMedia, Read
<1>11. CASE StoreMedia
    <2>1. \/ Fail("media") /\ fate' = fate
          \/ Return("media") /\ Becomes("media", "stored")
          \/ /\ Goto("media", "stored", Len(media'), 0) /\ Becomes("media", "stored")
             /\ media' = Append(media, NewMedia(log["media"][Current("media")].kind = "image",
                                                log["media"][Current("media")].snap))
        BY <1>11 DEF StoreMedia
    <2>2. \A x : Len(Append(media, x)) \in Nat
        BY <1>1 DEF RowTypes
    <2>3. Handles("media")
        BY <1>4, <1>5, <1>2, <2>1, <2>2 DEF Handles, Stores, Fates
    <2>4. handler["media"].pc # "idle" /\ told' = told
        BY <1>11 DEF StoreMedia
    <2>. QED  BY <1>2, <1>3, <2>3, <2>4
<1>12. CASE LinkMedia
    BY <1>2, <1>3, <1>5, <1>12 DEF LinkMedia, Handles
<1>. QED  BY <1>2, <1>6, <1>7, <1>8, <1>9, <1>10, <1>11, <1>12
          DEF ConsumerStep, AlertDeadLetter, MediaDeadLetter

\* A call that has looked for its snapshot has just done so, or is where it was.
LEMMA FoundCall ==
    ASSUME TypeOK, [Next]_vars, handler'["alert"].pc = "found"
    PROVE  \/ StartAlert
           \/ handler'["alert"] = handler["alert"] /\ position'["alert"] = position["alert"]
<1>1. QueueTypes /\ FateTypes /\ "alert" \in Topics
    BY TypesAre DEF Topics
<1>2. CASE ConsumerStep
    <2>1. PICK t \in Topics :
             /\ Handles(t)
             /\ t = "alert" => StartAlert \/ StoreAlert \/ NotifyOwner \/ AlertDeadLetter
        BY <1>2, ConsumerHandles
    <2>2. Return(t) \/ \E pc \in {"found", "failed", "stored"}, r, n \in Nat : Goto(t, pc, r, n)
        BY <2>1 DEF Handles
    <2>3. CASE t # "alert"
        BY <1>1, <2>2, <2>3, ReturnIs, GotoIs
    <2>4. CASE t = "alert"
        <3>1. /\ Return("alert") => handler'["alert"].pc = "idle"
              /\ Goto("alert", "failed", None, 0) => handler'["alert"].pc = "failed"
              /\ Goto("alert", "stored", None, 0) => handler'["alert"].pc = "stored"
            BY <1>1, ReturnIs, GotoIs DEF None
        <3>2. StoreAlert => Goto("alert", "failed", None, 0) \/ Goto("alert", "stored", None, 0)
            BY DEF StoreAlert, Fail
        <3>3. NotifyOwner \/ AlertDeadLetter => Return("alert")
            BY DEF NotifyOwner, AlertDeadLetter, DeadLetter
        <3>. QED  BY <2>1, <2>4, <3>1, <3>2, <3>3
    <2>. QED  BY <2>3, <2>4
<1>3. CASE Crash
    BY <1>1, <1>3, CrashIs DEF Idle
<1>. QED  BY <1>1, <1>2, <1>3, NextIs, AsideIs, CommitIs DEF Forwards, Forward, vars

LEMMA StepShapes ==
    ASSUME TypeOK, Shapes, [Next]_vars
    PROVE  Shapes'
<1>1. RowTypes /\ RowTypes' /\ OtherTypes /\ QueueTypes /\ "alert" \in Topics
    BY TypesAre, RowSteps DEF Topics
<1>2. /\ DOMAIN media = 1..Len(media) /\ Len(media) \in Nat
      /\ DOMAIN media' = 1..Len(media') /\ Len(media') \in Nat
    BY <1>1 DEF RowTypes
<1>3. device' = "deleted" => alerts' = <<>> /\ media' = <<>>
    BY RowsStay DEF RemoveDevice
<1>4. ASSUME device' # "deleted"
      PROVE  resolver'.link <= Len(media')
    <2>1. resolver.link <= Len(media) /\ Len(media) <= Len(media') /\ resolver.link \in Nat
        <3>1. device # "deleted" /\ Len(media) <= Len(media')
            BY <1>4, RowsStay
        <3>2. resolver.link \in Nat
            BY <1>1 DEF OtherTypes, Reader
        <3>. QED  BY <3>1, <3>2 DEF Shapes
    <2>2. \/ resolver' = resolver \/ resolver'.link = None
          \/ \E a \in DOMAIN alerts : resolver'.link = alerts[a].link
        <3>1. CASE \E a \in DOMAIN alerts : ResolveRead(a)
            <4>1. PICK a \in DOMAIN alerts : resolver' = [row |-> a, link |-> alerts[a].link]
                BY <3>1 DEF ResolveRead
            <4>. QED  BY <4>1
        <3>2. CASE ResolveSave \/ Crash
            <4>1. ResolveSave => resolver' = [row |-> None, link |-> None]
                BY DEF ResolveSave
            <4>2. Crash => resolver' = [row |-> None, link |-> None]
                BY DEF Crash
            <4>. QED  BY <3>2, <4>1, <4>2
        <3>3. ConsumerStep => resolver' = resolver
            BY DEF ConsumerStep, StartAlert, StoreAlert, NotifyOwner, AlertDeadLetter, MediaDeadLetter,
                   DeadLetter, UploadMedia, StoreMedia, LinkMedia
        <3>4. Forwards \/ ConfirmInsert \/ ConfirmLink \/ RemoveDevice \/ (\E t \in Topics : Commit(t))
                 \/ UNCHANGED vars => resolver' = resolver
            BY DEF Forwards, Forward, ConfirmInsert, ConfirmLink, RemoveDevice, Commit, vars
        <3>. QED  BY <3>1, <3>2, <3>3, <3>4, NextIs DEF Aside
    <2>3. \A a \in DOMAIN alerts : alerts[a].link \in Nat /\ alerts[a].link <= Len(media)
        BY <1>1, RowsAre
    <2>. QED  BY <1>2, <2>1, <2>2, <2>3 DEF None
<1>5. ASSUME device' # "deleted", handler'["alert"].pc = "found"
      PROVE  /\ handler'["alert"].row <= Len(media') /\ handler'["alert"].seen <= Len(media')
             /\ log'["alert"][Current("alert")'].snap /\ handler'["alert"].row = None =>
                   \A r \in Images' : r > handler'["alert"].seen
    <2>1. /\ device # "deleted" /\ Len(media) <= Len(media')
          /\ \A r \in DOMAIN media : /\ r \in DOMAIN media' /\ media'[r].image = media[r].image
                                     /\ media'[r].snap = media[r].snap
        BY <1>5, RowsStay
    <2>2. \A r \in Images' : r \in Images \/ (r \in Nat /\ r > Len(media))
        BY <1>2, <2>1 DEF Images
    <2>3. CASE StartAlert
        <3> DEFINE m == log["alert"][Current("alert")]
        <3>1. PICK r \in {Snapshot, None} : r = IF m.snap THEN Snapshot ELSE None
            OBVIOUS
        <3>2. r \in Nat /\ r <= Len(media) /\ (m.snap /\ r = None => Images = {})
            BY <1>1, <1>2, <3>1, SnapshotIs DEF None
        <3>3. Goto("alert", "found", r, Len(media))
            <4>1. /\ Return("alert") => handler'["alert"].pc = "idle"
                  /\ Goto("alert", "failed", None, 0) => handler'["alert"].pc = "failed"
                BY <1>1, ReturnIs, GotoIs DEF None
            <4>. QED  BY <1>5, <2>3, <3>1, <4>1, StartIs
        <3>4. handler'["alert"].row = r /\ handler'["alert"].seen = Len(media) /\ position' = position
            BY <1>1, <1>2, <3>2, <3>3, GotoIs
        <3>5. log' = log
            BY <2>3 DEF StartAlert
        <3>6. Current("alert")' = Current("alert")
            BY <3>4 DEF Current
        <3>. QED  BY <1>2, <2>1, <2>2, <3>2, <3>4, <3>5, <3>6
    <2>4. CASE ~StartAlert
        <3>1. handler'["alert"] = handler["alert"] /\ position'["alert"] = position["alert"]
            BY <1>5, <2>4, FoundCall
        <3>2. Current("alert")' = Current("alert")
            BY <3>1 DEF Current
        <3>3. position["alert"] < Len(log["alert"])
            BY <1>1, <1>5, <3>1 DEF QueueTypes
        <3>4. Current("alert") \in 1..Len(log["alert"])
            BY <1>1, <3>3, LogIs
        <3>5. log'["alert"][Current("alert")] = log["alert"][Current("alert")]
            BY <1>1, <3>4, LogGrows
        <3>6. handler["alert"].row \in Nat /\ handler["alert"].seen \in Nat
            BY <1>1 DEF QueueTypes, Call
        <3>7. /\ handler["alert"].row <= Len(media) /\ handler["alert"].seen <= Len(media)
              /\ log["alert"][Current("alert")].snap /\ handler["alert"].row = None =>
                    \A r \in Images : r > handler["alert"].seen
            BY <1>5, <2>1, <3>1 DEF Shapes
        <3>. QED  BY <1>2, <2>1, <2>2, <3>1, <3>2, <3>5, <3>6, <3>7
    <2>. QED  BY <2>3, <2>4
<1>. QED  BY <1>3, <1>4, <1>5 DEF Shapes

LEMMA InitShapes == Init => TypeOK /\ Shapes
<1> SUFFICES ASSUME Init PROVE TypeOK /\ Shapes
    OBVIOUS
<1>1. MaxConfirms \in Nat /\ MaxFaults \in Nat /\ MaxCrashes \in Nat /\ \A t \in Topics : MaxLog[t] \in Nat
    BY ConstantsAssumption
<1>2. Idle \in Call /\ Idle.pc = "idle"
    BY DEF Idle, Call, None
<1>3. QueueTypes
    <2>1. \A t \in Topics : log[t] = <<>> /\ position[t] = 0 /\ committed[t] = -1 /\ handler[t] = Idle
        BY DEF Init, NoOffset
    <2>2. \A S : <<>> \in Seq(S)
        OBVIOUS
    <2>3. /\ log \in [Topics -> Seq(Payload)] /\ position \in [Topics -> Nat]
          /\ committed \in [Topics -> Nat \cup {NoOffset}] /\ handler \in [Topics -> Call]
        BY <1>2, <2>2 DEF Init
    <2>4. Len(<<>>) = 0
        OBVIOUS
    <2>. QED  BY <1>1, <1>2, <2>1, <2>2, <2>3, <2>4 DEF QueueTypes
<1>4. FateTypes
    BY DEF Init, FateTypes
<1>5. RowTypes
    BY DEF Init, RowTypes
<1>6. OtherTypes
    BY <1>1 DEF Init, OtherTypes, None, Reader
<1>7. resolver.link = 0 /\ Len(media) = 0 /\ handler["alert"].pc = "idle" /\ device # "deleted"
    BY <1>2 DEF Init, None, Topics
<1>8. Shapes
    BY <1>7 DEF Shapes
<1>. QED  BY <1>3, <1>4, <1>5, <1>6, <1>8, TypesAre

LEMMA StepTyped ==
    ASSUME TypeOK, Shapes, [Next]_vars
    PROVE  TypeOK' /\ Shapes'
BY TypesAre, StepQueues, RowSteps, StepOthers, StepShapes
   DEF TypeOK, QueueTypes, FateTypes, RowTypes, OtherTypes, Payload

LEMMA StepUnlinked ==
    ASSUME TypeOK, Shapes, UnlinkedHasACause, [Next]_vars
    PROVE  UnlinkedHasACause'
<1>1. RowTypes /\ RowTypes' /\ OtherTypes /\ QueueTypes
    BY TypesAre, RowSteps
<1>2. /\ DOMAIN media = 1..Len(media) /\ Len(media) \in Nat
      /\ DOMAIN alerts = 1..Len(alerts) /\ Len(alerts) \in Nat
    BY <1>1, RowsAre
<1>3. SUFFICES ASSUME NEW a \in DOMAIN alerts', alerts'[a].snap, alerts'[a].link = None,
                      NEW r \in DOMAIN media', media'[r].image, media'[r].snap,
                      media'[r].linked = "done"
               PROVE  alerts'[a].excuse /= "none"
    BY DEF UnlinkedHasACause, Images
<1>4. ASSUME a \in DOMAIN alerts, alerts[a].snap, alerts[a].link = None,
             alerts'[a].excuse = alerts[a].excuse,
             r \in DOMAIN media, media[r].image, media[r].snap, media[r].linked = "done"
      PROVE  alerts'[a].excuse /= "none"
    BY <1>4 DEF UnlinkedHasACause, Images
<1>5. CASE QuietRows
    BY <1>3, <1>4, <1>5 DEF QuietRows, SameMedia
<1>6. CASE StoreAlert
    <2>1. media' = media
        BY <1>6, StoreIs
    <2>2. CASE a \in DOMAIN alerts /\ alerts'[a] = alerts[a]
        BY <1>3, <1>4, <2>1, <2>2
    <2>3. CASE ~(a \in DOMAIN alerts /\ alerts'[a] = alerts[a])
        <3>1. /\ device # "deleted" /\ DOMAIN alerts' = 1..(Len(alerts) + 1)
              /\ \A b \in DOMAIN alerts : alerts'[b] = alerts[b]
              /\ alerts'[Len(alerts) + 1].snap = log["alert"][Current("alert")].snap
              /\ alerts'[Len(alerts) + 1].link = handler["alert"].row
              /\ (\E q \in Images : q > handler["alert"].seen /\ media[q].linked = "done")
                    => alerts'[Len(alerts) + 1].excuse # "none"
            BY <1>3, <1>6, <2>3, StoreIs
        <3>2. a = Len(alerts) + 1
            BY <1>2, <1>3, <2>3, <3>1
        <3>3. r \in Images
            BY <1>3, <2>1 DEF Images
        <3>4. handler["alert"].pc = "found"
            BY <1>6 DEF StoreAlert
        <3>5. r > handler["alert"].seen
            BY <1>3, <3>1, <3>2, <3>3, <3>4 DEF Shapes
        <3>. QED  BY <1>3, <2>1, <3>1, <3>2, <3>3, <3>5
    <2>. QED  BY <2>2, <2>3
<1>7. CASE Inserted
    <2>1. r # Len(media) + 1
        BY <1>3, <1>7 DEF Inserted
    <2>. QED  BY <1>3, <1>4, <1>7, <2>1 DEF Inserted
<1>8. ASSUME NEW row \in Nat, Link(row) PROVE alerts'[a].excuse /= "none"
    <2>1. /\ a \in DOMAIN alerts /\ alerts[a].snap /\ alerts'[a].excuse = alerts[a].excuse
          /\ r \in DOMAIN media /\ media[r].image /\ media[r].snap
        BY <1>1, <1>3, <1>8, LinkIs DEF SameAlerts, SameMedia
    <2>2. CASE row \in DOMAIN media
        <3>1. row # None
            BY <1>2, <2>2 DEF None
        <3>2. a \in Unlinked => alerts'[a].link = row
            BY <1>1, <1>8, <2>1, <2>2, LinkIs
        <3>3. a \notin Unlinked => alerts'[a] = alerts[a]
            BY <1>1, <1>8, <2>1, LinkIs
        <3>. QED  BY <1>3, <2>1, <3>1, <3>2, <3>3 DEF Unlinked
    <2>3. CASE row \notin DOMAIN media
        <3>1. alerts'[a] = alerts[a] /\ media'[r] = media[r]
            BY <1>1, <1>8, <2>1, <2>3, LinkIs
        <3>. QED  BY <1>3, <1>4, <2>1, <3>1
    <2>. QED  BY <2>2, <2>3
<1>9. CASE ResolveSave
    <2>1. alerts # <<>> => resolver.link <= Len(media)
        BY DEF Shapes
    <2>2. /\ a \in DOMAIN alerts /\ alerts[a].snap /\ media' = media
          /\ \/ alerts'[a].link = alerts[a].link /\ alerts'[a].excuse = alerts[a].excuse
             \/ alerts'[a].excuse = "resolved"
        BY <1>1, <1>3, <1>9, <2>1, SaveIs DEF SameAlerts
    <2>. QED  BY <1>3, <1>4, <2>2
<1>10. CASE RemoveDevice
    <2>1. media' = <<>>
        BY <1>10 DEF RemoveDevice
    <2>. QED  BY <1>3, <2>1
<1>. QED  BY <1>5, <1>6, <1>7, <1>8, <1>9, <1>10, RowSteps

-----------------------------------------------------------------------------
(* The state has its types, and an id that a query returned is the id of a row
   as long as the device is there. *)
THEOREM TypeCorrect == Spec => [](TypeOK /\ Shapes)
<1>1. Init => TypeOK /\ Shapes
    BY InitShapes
<1>2. TypeOK /\ Shapes /\ [Next]_vars => (TypeOK /\ Shapes)'
    BY StepTyped
<1>. QED  BY <1>1, <1>2, PTL DEF Spec

\* For any number of alerts, images, confirmed uploads and resolve requests: an
\* alert whose image is stored and has linked its alerts has that link, or the
\* image came between the lookup and the INSERT of AlertsConsumer, or a resolve
\* request wrote its older copy back.
THEOREM LinksAreMade == Spec => []UnlinkedHasACause
<1>1. Init => TypeOK /\ Shapes /\ UnlinkedHasACause
    <2>1. Init => UnlinkedHasACause
        BY DEF Init, UnlinkedHasACause
    <2>. QED  BY <2>1, InitShapes
<1>2. TypeOK /\ Shapes /\ UnlinkedHasACause /\ [Next]_vars => (TypeOK /\ Shapes /\ UnlinkedHasACause)'
    BY StepTyped, StepUnlinked
<1>. QED  BY <1>1, <1>2, PTL DEF Spec

-----------------------------------------------------------------------------
(* The account of the messages. *)

\* A step of a handler: the position of its topic and the fate of its message.
LEMMA HandlesIs ==
    ASSUME QueueTypes, FateTypes, NEW t \in Topics, position[t] < Len(log[t]), Handles(t)
    PROVE  /\ \A u \in Topics \ {t} : /\ handler'[u] = handler[u] /\ position'[u] = position[u]
                                      /\ fate'[u] = fate[u]
           /\ \A i \in Offsets(t) : /\ fate[t][i] \subseteq fate'[t][i]
                                    /\ i # Current(t) => fate'[t][i] = fate[t][i]
           /\ \/ /\ position'[t] = position[t] + 1 /\ handler'[t].pc = "idle"
                 /\ fate'[t][Current(t)] # {} \/ (handler[t].pc = "stored" /\ fate' = fate)
              \/ /\ position'[t] = position[t] /\ handler'[t].pc \in {"found", "failed"}
                 /\ fate' = fate
              \/ /\ position'[t] = position[t] /\ handler'[t].pc = "stored"
                 /\ fate'[t][Current(t)] # {}
<1>1. ASSUME Stores(t)
      PROVE  /\ \A u \in Topics \ {t} : fate'[u] = fate[u]
             /\ \A i \in Offsets(t) : /\ fate[t][i] \subseteq fate'[t][i]
                                      /\ i # Current(t) => fate'[t][i] = fate[t][i]
             /\ fate'[t][Current(t)] # {}
    <2>1. PICK o \in Fates : Becomes(t, o)
        BY <1>1 DEF Stores
    <2>. QED  BY <2>1, BecomesIs
<1>2. CASE Return(t)
    BY <1>1, <1>2, ReturnIs, GotoIs DEF Handles
<1>3. CASE ~Return(t) /\ fate' = fate
    <2>1. PICK pc \in {"found", "failed", "stored"}, r \in Nat, n \in Nat :
             Goto(t, pc, r, n) /\ (pc = "stored" => Stores(t))
        BY <1>3 DEF Handles
    <2>2. handler'[t].pc = pc /\ position' = position /\ \A u \in Topics \ {t} : handler'[u] = handler[u]
        BY <2>1, GotoIs
    <2>. QED  BY <1>1, <1>3, <2>1, <2>2
<1>4. CASE ~Return(t) /\ fate' # fate
    <2>1. PICK r \in Nat, n \in Nat : Goto(t, "stored", r, n) /\ Stores(t)
        BY <1>4 DEF Handles
    <2>2. handler'[t].pc = "stored" /\ position' = position /\ \A u \in Topics \ {t} : handler'[u] = handler[u]
        BY <2>1, GotoIs
    <2>. QED  BY <1>1, <2>1, <2>2
<1>. QED  BY <1>2, <1>3, <1>4

LEMMA StepSettled ==
    ASSUME TypeOK, Settled, [Next]_vars
    PROVE  Settled'
<1>1. QueueTypes /\ FateTypes
    BY TypesAre
<1>2. \A t \in Topics : /\ position[t] \in Nat /\ Current(t) = position[t] + 1
                        /\ Len(log[t]) \in Nat /\ MaxLog[t] \in Nat
                        /\ position[t] <= Len(log[t]) /\ Len(log[t]) <= MaxLog[t]
                        /\ \A i \in 1..position[t] : i \in Offsets(t)
    BY <1>1, LogIs DEF Current, Offsets
<1>3. CASE ConsumerStep
    <2>1. PICK t \in Topics : position[t] < Len(log[t]) /\ Handles(t)
        BY <1>3, ConsumerHandles
    <2>2. ASSUME NEW u \in Topics \ {t}
          PROVE  /\ \A i \in 1..position'[u] : fate'[u][i] # {}
                 /\ handler'[u].pc = "stored" => fate'[u][Current(u)'] # {}
        BY <1>1, <2>1, HandlesIs DEF Settled, Current
    <2>3. ASSUME NEW i \in 1..position'[t] PROVE fate'[t][i] # {}
        <3>1. CASE i \in 1..position[t]
            BY <1>1, <1>2, <2>1, <3>1, HandlesIs DEF Settled
        <3>2. CASE i \notin 1..position[t]
            <4>1. position'[t] = position[t] + 1 /\ i = Current(t)
                BY <1>1, <1>2, <2>1, <3>2, HandlesIs
            <4>. QED  BY <1>1, <1>2, <2>1, <4>1, HandlesIs DEF Settled
        <3>. QED  BY <3>1, <3>2
    <2>4. handler'[t].pc = "stored" => fate'[t][Current(t)'] # {}
        BY <1>1, <1>2, <2>1, HandlesIs DEF Current
    <2>. QED  BY <2>2, <2>3, <2>4 DEF Settled
<1>4. CASE Crash
    <2>1. ASSUME NEW t \in Topics, NEW i \in 1..position'[t] PROVE fate'[t][i] # {}
        <3>1. position'[t] = ResumeAt(t) /\ ResumeAt(t) \in Nat
            BY <1>1, <1>4, CrashIs
        <3>2. ResumeAt(t) <= Len(log[t])
            <4>1. committed[t] <= position[t] /\ committed[t] \in Nat \cup {NoOffset}
                BY <1>1 DEF QueueTypes
            <4>. QED  BY <1>2, <4>1 DEF ResumeAt, NoOffset
        <3>3. i \in Offsets(t)
            BY <1>2, <3>1, <3>2 DEF Offsets
        <3>4. i \in 1..position[t] \/ (position[t] < i /\ i <= ResumeAt(t))
            BY <1>2, <3>1
        <3>. QED  BY <1>1, <1>4, <3>3, <3>4, CrashIs DEF Settled
    <2>2. \A t \in Topics : handler'[t].pc = "idle"
        BY <1>1, <1>4, CrashIs DEF Idle
    <2>. QED  BY <2>1, <2>2 DEF Settled
<1>5. CASE UNCHANGED <<position, handler, fate>>
    BY <1>5 DEF Settled, Current
<1>. QED  BY <1>1, <1>3, <1>4, <1>5, NextIs, AsideIs, CommitIs DEF Forwards, Forward, vars

\* Only StoreAlert adds a row of an alert.
LEMMA RowsOfIs ==
    ASSUME TypeOK, Shapes, [Next]_vars, NEW i \in Nat
    PROVE  /\ alerts' = alerts \/ ~StoreAlert => RowsOf(i)' \subseteq RowsOf(i)
           /\ StoreAlert => RowsOf(i)' \subseteq RowsOf(i) \cup
                               (IF i = Current("alert") THEN {Len(alerts) + 1} ELSE {})
<1>1. RowTypes /\ OtherTypes /\ (alerts # <<>> => resolver.link <= Len(media))
    BY TypesAre DEF Shapes
<1>2. CASE alerts' = alerts
    BY <1>2 DEF RowsOf
<1>3. CASE alerts' # alerts /\ StoreAlert
    <2>1. /\ DOMAIN alerts' = 1..(Len(alerts) + 1)
          /\ \A a \in DOMAIN alerts : alerts'[a] = alerts[a]
          /\ alerts'[Len(alerts) + 1].msg = Current("alert")
        BY <1>3, StoreIs
    <2>2. \A a \in DOMAIN alerts' : a \in DOMAIN alerts \/ a = Len(alerts) + 1
        BY <1>1, <2>1, RowsAre
    <2>. QED  BY <1>3, <2>1, <2>2 DEF RowsOf
<1>4. CASE SameAlerts /\ ~StoreAlert
    BY <1>4 DEF RowsOf, SameAlerts
<1>5. CASE RemoveDevice
    <2>1. RowsOf(i)' = {}
        BY <1>5 DEF RemoveDevice, RowsOf
    <2>. QED  BY <2>1
<1>6. alerts' = alerts \/ SameAlerts \/ StoreAlert \/ RemoveDevice
    BY <1>1, RowSteps, LinkIs, SaveIs DEF QuietRows, Inserted
<1>. QED  BY <1>2, <1>3, <1>4, <1>5, <1>6

\* The account of one alert.
OnceFor(i) == /\ \A x, y \in Outcomes(i) : x = y
              /\ \A a, b \in RowsOf(i) : a = b
              /\ Ahead(i) => Outcomes(i) = {} /\ RowsOf(i) = {}

LEMMA OnceKept ==
    ASSUME NEW i \in Nat, OnceFor(i), Outcomes(i)' \subseteq Outcomes(i), RowsOf(i)' \subseteq RowsOf(i),
           Ahead(i)' => Ahead(i)
    PROVE  OnceFor(i)'
BY DEF OnceFor

LEMMA CrashOnce ==
    ASSUME TypeOK, Shapes, Crash, NEW i \in Offsets("alert"), OnceFor(i),
           <<"alert", i>> \notin redelivered'
    PROVE  OnceFor(i)'
<1>1. QueueTypes /\ FateTypes /\ "alert" \in Topics
    BY TypesAre DEF Topics
<1>2. /\ position["alert"] \in Nat /\ Current("alert") = position["alert"] + 1 /\ i \in Nat
    BY <1>1, LogIs DEF Current, Offsets
<1>3. ResumeAt("alert") \in Nat /\ position'["alert"] = ResumeAt("alert")
    BY <1>1, CrashIs
<1>4. i \notin ResumeAt("alert") + 1..Taken("alert")
    <2>1. {"alert"} \X (ResumeAt("alert") + 1..Taken("alert")) \subseteq redelivered'
        BY <1>1 DEF Crash
    <2>2. i \in ResumeAt("alert") + 1..Taken("alert") =>
             <<"alert", i>> \in {"alert"} \X (ResumeAt("alert") + 1..Taken("alert"))
        OBVIOUS
    <2>. QED  BY <2>1, <2>2
<1>5. Ahead(i)' => Ahead(i)
    <2>1. Ahead(i)' => i > ResumeAt("alert")
        BY <1>3 DEF Ahead
    <2>2. Taken("alert") \in Nat
        BY <1>2 DEF Taken
    <2>3. Ahead(i)' => i > Taken("alert")
        BY <1>2, <1>3, <1>4, <2>1, <2>2
    <2>. QED  BY <1>2, <2>3 DEF Taken, Ahead
<1>6. Outcomes(i)' \subseteq Outcomes(i)
    <2>1. fate'["alert"][i] \in {fate["alert"][i], fate["alert"][i] \cup {"unread"}}
        BY <1>1, CrashIs
    <2>. QED  BY <2>1 DEF Outcomes
<1>7. RowsOf(i)' \subseteq RowsOf(i)
    BY DEF Crash, RowsOf
<1>. QED  BY <1>2, <1>5, <1>6, <1>7, OnceKept

LEMMA AlertOnce ==
    ASSUME TypeOK, Shapes, StartAlert \/ StoreAlert \/ NotifyOwner \/ AlertDeadLetter,
           NEW i \in Offsets("alert"), OnceFor(i)
    PROVE  OnceFor(i)'
<1>1. QueueTypes /\ FateTypes /\ "alert" \in Topics /\ i \in Nat
    BY TypesAre DEF Topics, Offsets
<1> DEFINE c == Current("alert")
<1>2. position["alert"] \in Nat /\ c = position["alert"] + 1
    BY <1>1, LogIs DEF Current
<1>3. position["alert"] < Len(log["alert"])
    BY <1>1, StartIs DEF StoreAlert, NotifyOwner, AlertDeadLetter, DeadLetter, QueueTypes
<1>4. ASSUME NEW o \in Fates, Becomes("alert", o)
      PROVE  /\ i # c => fate'["alert"][i] = fate["alert"][i]
             /\ i = c => fate'["alert"][i] = fate["alert"][i] \cup {o}
    BY <1>1, <1>3, <1>4, BecomesIs
<1>5. Return("alert") => position'["alert"] = position["alert"] + 1 /\ handler'["alert"].pc = "idle"
    BY <1>1, ReturnIs
<1> HIDE DEF c
<1>6. ASSUME Return("alert"), handler["alert"].pc # "stored", alerts' = alerts,
             NEW o \in Fates, Becomes("alert", o)
      PROVE  OnceFor(i)'
    <2>1. RowsOf(i)' = RowsOf(i)
        BY <1>6 DEF RowsOf
    <2>2. CASE i = c
        <3>1. Ahead(i)
            BY <1>2, <1>6, <2>2 DEF Ahead
        <3>2. Outcomes(i)' \subseteq {o} /\ RowsOf(i)' = {}
            BY <1>4, <1>6, <2>1, <2>2, <3>1 DEF OnceFor, Outcomes
        <3>3. ~Ahead(i)'
            BY <1>2, <1>5, <1>6, <2>2 DEF Ahead
        <3>. QED  BY <3>2, <3>3 DEF OnceFor
    <2>3. CASE i # c
        <3>1. Ahead(i)' => Ahead(i)
            BY <1>1, <1>2, <1>5, <1>6, <2>3 DEF Ahead, c
        <3>2. Outcomes(i)' = Outcomes(i)
            BY <1>4, <1>6, <2>3 DEF Outcomes
        <3>. QED  BY <1>1, <2>1, <3>1, <3>2, OnceKept
    <2>. QED  BY <2>2, <2>3
<1>7. ASSUME NEW pc \in {"found", "failed"}, NEW r \in Nat, NEW n \in Nat, Goto("alert", pc, r, n),
             handler["alert"].pc # "stored", alerts' = alerts, fate' = fate
      PROVE  OnceFor(i)'
    <2>1. position' = position
        BY <1>1, <1>7, GotoIs
    <2>2. Current("alert")' = Current("alert")
        BY <2>1 DEF Current
    <2>3. Ahead(i)' => Ahead(i)
        BY <1>7, <2>1, <2>2 DEF Ahead
    <2>4. RowsOf(i)' = RowsOf(i) /\ Outcomes(i)' = Outcomes(i)
        BY <1>7 DEF RowsOf, Outcomes
    <2>. QED  BY <1>1, <2>3, <2>4, OnceKept
<1>8. CASE StartAlert
    <2>1. alerts' = alerts
        BY <1>8 DEF StartAlert
    <2>2. PICK r \in {Snapshot, None} :
             r = IF log["alert"][Current("alert")].snap THEN Snapshot ELSE None
        OBVIOUS
    <2>3. r \in Nat /\ Len(media) \in Nat /\ None \in Nat
        <3>1. RowTypes
            BY TypesAre
        <3>. QED  BY <3>1, <2>2, SnapshotIs, RowsAre DEF None
    <2>. QED  BY <1>6, <1>7, <1>8, <2>1, <2>2, <2>3, StartIs DEF Fates
<1>9. CASE AlertDeadLetter
    BY <1>6, <1>9 DEF AlertDeadLetter, DeadLetter, Fates
<1>10. CASE NotifyOwner
    <2>1. /\ handler["alert"].pc = "stored" /\ Return("alert") /\ alerts' = alerts
          /\ fate' = fate \/ Becomes("alert", "unannounced")
        BY <1>10 DEF NotifyOwner
    <2>2. fate'["alert"][i] \in {fate["alert"][i], fate["alert"][i] \cup {"unannounced"}}
        BY <1>4, <2>1 DEF Fates
    <2>3. RowsOf(i)' = RowsOf(i) /\ Outcomes(i)' \subseteq Outcomes(i)
        BY <2>1, <2>2 DEF RowsOf, Outcomes
    <2>4. Ahead(i)' => Ahead(i)
        BY <1>1, <1>2, <1>5, <2>1 DEF Ahead, c
    <2>. QED  BY <1>1, <2>3, <2>4, OnceKept
<1>11. CASE StoreAlert /\ alerts' = alerts /\ fate' = fate /\ Goto("alert", "failed", None, 0)
    BY <1>7, <1>11 DEF StoreAlert, None
<1>12. CASE StoreAlert /\ Becomes("alert", "stored") /\ Goto("alert", "stored", None, 0)
    <2>1. handler["alert"].pc = "found"
        BY <1>12 DEF StoreAlert
    <2>2. handler'["alert"].pc = "stored" /\ position' = position
        BY <1>1, <1>12, GotoIs DEF None
    <2>3. Current("alert")' = Current("alert")
        BY <2>2 DEF Current
    <2>4. RowsOf(i)' \subseteq RowsOf(i) \cup (IF i = c THEN {Len(alerts) + 1} ELSE {})
        BY <1>1, <1>12, RowsOfIs DEF c, Next, ConsumerStep
    <2>5. CASE i = c
        <3>1. Ahead(i)
            BY <1>2, <2>1, <2>5 DEF Ahead
        <3>2. Outcomes(i)' \subseteq {"stored"}
            BY <1>4, <1>12, <2>5, <3>1 DEF OnceFor, Outcomes, Fates
        <3>3. RowsOf(i)' \subseteq {Len(alerts) + 1}
            BY <2>4, <2>5, <3>1 DEF OnceFor
        <3>4. ~Ahead(i)'
            BY <2>2, <2>3, <2>5 DEF Ahead, c
        <3>. QED  BY <3>2, <3>3, <3>4 DEF OnceFor
    <2>6. CASE i # c
        <3>1. Ahead(i)' => Ahead(i)
            BY <2>2, <2>6 DEF Ahead, c
        <3>2. Outcomes(i)' = Outcomes(i)
            BY <1>4, <1>12, <2>6 DEF Outcomes, Fates
        <3>. QED  BY <1>1, <2>4, <2>6, <3>1, <3>2, OnceKept
    <2>. QED  BY <2>5, <2>6
<1>. QED  BY <1>8, <1>9, <1>10, <1>11, <1>12, StoreIs

LEMMA StepOnce ==
    ASSUME TypeOK, Shapes, Once, [Next]_vars
    PROVE  Once'
<1>1. QueueTypes /\ FateTypes /\ "alert" \in Topics
    BY TypesAre DEF Topics
<1>2. SUFFICES ASSUME NEW i \in Offsets("alert"), <<"alert", i>> \notin redelivered'
               PROVE  OnceFor(i)'
    BY DEF Once, OnceFor, Offsets
<1>3. redelivered \subseteq redelivered'
    BY NextIs, AsideIs DEF Forwards, Forward, ConsumerStep, StartAlert, StoreAlert, NotifyOwner,
          AlertDeadLetter, MediaDeadLetter, DeadLetter, UploadMedia, StoreMedia, LinkMedia, Commit,
          Crash, vars
<1>4. OnceFor(i) /\ i \in Nat
    BY <1>2, <1>3 DEF Once, OnceFor, Offsets
<1>5. CASE StartAlert \/ StoreAlert \/ NotifyOwner \/ AlertDeadLetter
    BY <1>4, <1>5, AlertOnce
<1>6. CASE Crash
    BY <1>2, <1>4, <1>6, CrashOnce
<1>7. ASSUME handler'["alert"] = handler["alert"], position'["alert"] = position["alert"],
             fate'["alert"] = fate["alert"], ~StoreAlert
      PROVE  OnceFor(i)'
    <2>1. Current("alert")' = Current("alert")
        BY <1>7 DEF Current
    <2>2. Ahead(i)' => Ahead(i)
        BY <1>7, <2>1 DEF Ahead
    <2>3. Outcomes(i)' = Outcomes(i) /\ RowsOf(i)' \subseteq RowsOf(i)
        BY <1>4, <1>7, RowsOfIs DEF Outcomes
    <2>. QED  BY <1>4, <2>2, <2>3, OnceKept
<1>8. CASE ConsumerStep /\ ~(StartAlert \/ StoreAlert \/ NotifyOwner \/ AlertDeadLetter)
    <2>1. PICK t \in Topics : position[t] < Len(log[t]) /\ Handles(t) /\ t # "alert"
        BY <1>8, ConsumerHandles
    <2>. QED  BY <1>1, <1>7, <1>8, <2>1, HandlesIs
<1>9. CASE UNCHANGED <<handler, position, fate>> /\ ~StoreAlert
    BY <1>7, <1>9
<1>. QED  BY <1>1, <1>5, <1>6, <1>8, <1>9, NextIs, AsideIs, CommitIs
          DEF Forwards, Forward, vars

\* What the owner of the device has been told stays told.
LEMMA StepTold ==
    ASSUME TypeOK, Shapes, Settled, ToldSoFar, [Next]_vars
    PROVE  ToldSoFar'
<1>1. QueueTypes /\ FateTypes /\ "alert" \in Topics /\ "media" \in Topics
    BY TypesAre DEF Topics
<1> DEFINE c == Current("alert")
<1>2. /\ position["alert"] \in Nat /\ c = position["alert"] + 1
      /\ \A i \in 1..position["alert"] : i \in Offsets("alert") /\ i \in 1..Len(log["alert"]) /\ i # c
    BY <1>1, LogIs DEF Current, Offsets
<1>3. told \subseteq told' /\ (device' = "owned" => device = "owned")
    BY NextIs, AsideIs DEF Forwards, Forward, ConsumerStep, StartAlert, StoreAlert, NotifyOwner,
          AlertDeadLetter, MediaDeadLetter, DeadLetter, UploadMedia, StoreMedia, LinkMedia, Commit,
          Crash, vars, Aside, ConfirmInsert, ConfirmLink, ResolveRead, ResolveSave, RemoveDevice
<1>4. SUFFICES ASSUME NEW i \in 1..position'["alert"], fate'["alert"][i] = {"stored"}, device' = "owned"
               PROVE  {i} \X Channels(log'["alert"][i]) \subseteq told'
    BY DEF ToldSoFar
<1>5. ASSUME i \in 1..position["alert"], fate["alert"][i] \subseteq fate'["alert"][i]
      PROVE  {i} \X Channels(log'["alert"][i]) \subseteq told'
    <2>1. fate["alert"][i] # {}
        BY <1>1, <1>5 DEF Settled
    <2>2. fate["alert"][i] = {"stored"}
        BY <1>4, <1>5, <2>1
    <2>3. log'["alert"][i] = log["alert"][i]
        BY <1>1, <1>2, <1>5, LogGrows
    <2>. QED  BY <1>3, <1>4, <1>5, <2>2, <2>3 DEF ToldSoFar
<1>6. CASE StartAlert \/ StoreAlert \/ NotifyOwner \/ AlertDeadLetter
    <2>1. position["alert"] < Len(log["alert"])
        BY <1>1, <1>6, StartIs DEF StoreAlert, NotifyOwner, AlertDeadLetter, DeadLetter, QueueTypes
    <2>2. ASSUME NEW o \in Fates, Becomes("alert", o)
          PROVE  /\ o \in fate'["alert"][c]
                 /\ \A j \in 1..position["alert"] : fate'["alert"][j] = fate["alert"][j]
        BY <1>1, <1>2, <2>1, <2>2, BecomesIs
    <2>3. fate' = fate \/ \E o \in {"skipped", "unannounced", "deadLettered", "lost"} : Becomes("alert", o)
             \/ (Goto("alert", "stored", None, 0) /\ Becomes("alert", "stored"))
        BY <1>6, StartIs, StoreIs DEF NotifyOwner, AlertDeadLetter, DeadLetter
    <2>4. \A j \in 1..position["alert"] : fate'["alert"][j] = fate["alert"][j]
        BY <2>2, <2>3 DEF Fates
    <2>5. CASE i \in 1..position["alert"]
        BY <1>5, <2>4, <2>5
    <2>6. CASE i \notin 1..position["alert"]
        <3>1. position' # position
            BY <1>4, <2>6
        <3>2. Return("alert") \/ \E pc \in {"found", "failed", "stored"} : \E r, n : Goto("alert", pc, r, n)
            BY <1>6, StartIs, StoreIs DEF NotifyOwner, AlertDeadLetter, DeadLetter
        <3>3. Return("alert")
            BY <3>1, <3>2 DEF Goto
        <3>4. position'["alert"] = position["alert"] + 1
            BY <1>1, <3>3, ReturnIs
        <3>5. i = c
            BY <1>2, <1>4, <2>6, <3>4
        <3>6. \A o \in {"skipped", "unannounced", "deadLettered", "lost"} : ~Becomes("alert", o)
            BY <1>4, <2>2, <3>5 DEF Fates
        <3>7. NotifyOwner /\ told' = told \cup {c} \X Reached(log["alert"][c])
            BY <1>6, <3>1, <3>6, StartIs, StoreIs DEF NotifyOwner, AlertDeadLetter, DeadLetter, Goto
        <3>8. log'["alert"][c] = log["alert"][c]
            BY <3>7 DEF NotifyOwner
        <3>. QED  BY <1>3, <1>4, <3>5, <3>7, <3>8 DEF Reached
    <2>. QED  BY <2>5, <2>6
<1>7. CASE Crash
    <2>1. /\ position'["alert"] = ResumeAt("alert") /\ ResumeAt("alert") \in Nat
          /\ \A j \in Offsets("alert") :
                /\ position["alert"] < j /\ j <= ResumeAt("alert") =>
                      fate'["alert"][j] = fate["alert"][j] \cup {"unread"}
                /\ ~(position["alert"] < j /\ j <= ResumeAt("alert")) =>
                      fate'["alert"][j] = fate["alert"][j]
        BY <1>1, <1>7, CrashIs
    <2>2. position'["alert"] <= Len(log["alert"])
        BY <1>1, <1>7, CrashIs DEF QueueTypes
    <2>3. i \in Offsets("alert")
        BY <1>1, <1>4, <2>1, <2>2, LogIs DEF Offsets
    <2>4. i \in 1..position["alert"] /\ fate'["alert"][i] = fate["alert"][i]
        <3>1. i \in Nat /\ 1 <= i /\ i <= ResumeAt("alert")
            BY <1>4, <2>1
        <3>2. "unread" \notin fate'["alert"][i]
            BY <1>4
        <3>3. ~(position["alert"] < i /\ i <= ResumeAt("alert"))
            BY <2>1, <2>3, <3>2
        <3>. QED  BY <1>2, <2>1, <2>3, <3>1, <3>3
    <2>. QED  BY <1>5, <2>4
<1>8. ASSUME position'["alert"] = position["alert"], fate'["alert"] = fate["alert"]
      PROVE  {i} \X Channels(log'["alert"][i]) \subseteq told'
    BY <1>4, <1>5, <1>8
<1>9. CASE ConsumerStep /\ ~(StartAlert \/ StoreAlert \/ NotifyOwner \/ AlertDeadLetter)
    <2>1. PICK t \in Topics : position[t] < Len(log[t]) /\ Handles(t) /\ t # "alert"
        BY <1>9, ConsumerHandles
    <2>. QED  BY <1>1, <1>8, <2>1, HandlesIs
<1>. QED  BY <1>1, <1>6, <1>7, <1>8, <1>9, NextIs, AsideIs, CommitIs DEF Forwards, Forward, vars

LEMMA AtMostOne ==
    ASSUME NEW S, \A x, y \in S : x = y
    PROVE  Cardinality(S) <= 1
<1>1. CASE S = {}
    BY <1>1, FS_EmptySet
<1>2. CASE S # {}
    <2>1. PICK x \in S : TRUE
        BY <1>2
    <2>2. S = {x}
        BY <2>1
    <2>3. Cardinality({x}) = 1
        BY FS_Singleton
    <2>. QED  BY <2>2, <2>3
<1>. QED  BY <1>1, <1>2

Account == TypeOK /\ Shapes /\ Settled /\ Once /\ ToldSoFar

LEMMA InitAccount == Init => Account
<1> SUFFICES ASSUME Init PROVE Account
    OBVIOUS
<1>1. TypeOK /\ Shapes
    BY InitShapes
<1>2. "alert" \in Topics /\ \A t \in Topics : position[t] = 0 /\ handler[t] = Idle
    BY DEF Init, Topics
<1>3. Settled
    BY <1>2 DEF Settled, Idle
<1>4. Once
    <2>1. \A i \in Offsets("alert") : fate["alert"][i] = {} /\ alerts = <<>>
        BY <1>2 DEF Init
    <2>. QED  BY <2>1 DEF Once, Outcomes, RowsOf
<1>5. ToldSoFar
    BY <1>2 DEF ToldSoFar
<1>. QED  BY <1>1, <1>3, <1>4, <1>5 DEF Account

LEMMA Accounted == Spec => []Account
<1>1. Account /\ [Next]_vars => Account'
    BY StepTyped, StepSettled, StepOnce, StepTold DEF Account
<1>. QED  BY <1>1, InitAccount, PTL DEF Spec

\* For topics of any length and any number of failing calls and crashes: no
\* message a consumer is done with is without an outcome, and only one that a
\* restart delivered again has two outcomes or two rows.
THEOREM MessagesAccountedFor == Spec => []MessageAccount
<1>1. Account => MessageAccount
    <2> SUFFICES ASSUME Account PROVE MessageAccount
        OBVIOUS
    <2>1. \A t \in Topics : \A i \in 1..position[t] : fate[t][i] # {}
        BY DEF Account, Settled
    <2>2. ASSUME NEW i \in Offsets("alert"), <<"alert", i>> \notin redelivered
          PROVE  /\ Cardinality(fate["alert"][i] \ {"unannounced", "unread"}) <= 1
                 /\ Cardinality({a \in DOMAIN alerts : alerts[a].msg = i}) <= 1
        <3>1. (\A x, y \in Outcomes(i) : x = y) /\ (\A a, b \in RowsOf(i) : a = b)
            BY <2>2 DEF Account, Once
        <3>2. Cardinality(Outcomes(i)) <= 1
            BY <3>1, AtMostOne
        <3>3. Cardinality(RowsOf(i)) <= 1
            BY <3>1, AtMostOne
        <3>. QED  BY <3>2, <3>3 DEF Outcomes, RowsOf
    <2>. QED  BY <2>1, <2>2 DEF MessageAccount
<1>. QED  BY <1>1, Accounted, PTL

\* The owner has been told of every stored alert by the time its message is
\* committed, over every channel its kind asks for.
THEOREM OwnersAreTold == Spec => []OwnerIsTold
<1>1. Account => OwnerIsTold
    <2> SUFFICES ASSUME Account, NEW i \in 1..committed["alert"],
                        fate["alert"][i] = {"stored"}, device = "owned"
                 PROVE  {i} \X Channels(log["alert"][i]) \subseteq told
        BY DEF OwnerIsTold
    <2>1. QueueTypes /\ "alert" \in Topics
        BY TypesAre DEF Account, Topics
    <2>2. /\ committed["alert"] <= position["alert"] /\ position["alert"] \in Nat
          /\ committed["alert"] \in Nat \cup {NoOffset}
        BY <2>1 DEF QueueTypes
    <2>3. i \in 1..position["alert"]
        BY <2>2 DEF NoOffset
    <2>. QED  BY <2>3 DEF Account, ToldSoFar
<1>. QED  BY <1>1, Accounted, PTL
=============================================================================
