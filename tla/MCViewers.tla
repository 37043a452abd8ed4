----------------------------- MODULE MCViewers -----------------------------
(* A user with a device and rows of every kind, and another user; either may *)
(* be made an administrator.                                                 *)
EXTENDS Viewers, TLC

CONSTANTS u1, u2, d1, d2, a1, a2, m1, t1, p1, z1, g1, s1

Everyone == {u1, u2}
Everything == {d1, d2, a1, a2, m1, t1, p1, z1, g1}
Kind == d1 :> "device" @@ d2 :> "device" @@ a1 :> "alert" @@ a2 :> "alert" @@ m1 :> "media"
        @@ t1 :> "point" @@ p1 :> "plan" @@ z1 :> "zone" @@ g1 :> "group"
About == [r \in Everything |-> IF r \in {z1, g1} THEN NoOne ELSE IF r = d2 THEN d2 ELSE d1]
Maker == [r \in Everything |-> IF r \in {d2, z1} THEN u2 ELSE u1]
AtStart == Everything \ {a1, a2, p1, g1}
Announce == {a1}
Pages == {s1}
Tokens == [s \in Pages |-> u1]

VARIABLE side   \* what is used in this behaviour, the requests or the sockets

\* Rows no socket asks for; they are left alone where only sockets are used.
Aside == {m1, t1, p1, z1, g1}

BoundedInit == Init /\ side \in {"requests", "sockets"}

BoundedSpec ==
    /\ BoundedInit
    /\ [][/\ Next /\ UNCHANGED side
          /\ IF side = "requests" THEN UNCHANGED socketVars
             ELSE /\ UNCHANGED <<online, carried, reading, reads>>
                  /\ d1 \in rows' => rows' \cap Aside = rows \cap Aside]_<<viewerVars, side>>
=============================================================================
