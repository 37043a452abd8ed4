----------------------------- MODULE RouteProofs -----------------------------
(* Proofs about RoutePlans and RouteDeviation, for any number of plans, devices
   and concurrent requests and checks, failing calls and restarts.  Spec is
   that of the requests alone, DeviationSpec that of the requests and the
   checks. *)
EXTENDS RouteDeviation, Integers, FiniteSetTheorems, TLAPS

-----------------------------------------------------------------------------
(* The processes at some point of their code form a finite set, and a step of one
   process moves only that process in or out. *)

\* 1 if x is in S, else 0.
Has(S, x) == IF x \in S THEN 1 ELSE 0

(* Two sets that agree except perhaps on x: their sizes differ by x alone. *)
LEMMA ChangeOne ==
    ASSUME NEW S, NEW T, NEW x, IsFiniteSet(S), S \ {x} = T \ {x}
    PROVE  /\ IsFiniteSet(T)
           /\ Cardinality(S) \in Nat
           /\ Cardinality(T) \in Nat
           /\ Cardinality(T) = Cardinality(S) + Has(T, x) - Has(S, x)
<1>1. IsFiniteSet(S \ {x}) /\ Cardinality(S \ {x}) = Cardinality(S) - Has(S, x)
    BY FS_RemoveElement, FS_CardinalityType DEF Has
<1>2. CASE x \in T
    <2>1. T = (S \ {x}) \cup {x}
        BY <1>2
    <2>2. IsFiniteSet(T) /\ Cardinality(T) = Cardinality(S \ {x}) + 1
        BY <1>1, <2>1, FS_AddElement
    <2>. QED  BY <1>1, <1>2, <2>2, FS_CardinalityType DEF Has
<1>3. CASE x \notin T
    <2>1. T = S \ {x}
        BY <1>3
    <2>. QED  BY <1>1, <1>3, <2>1, FS_CardinalityType DEF Has
<1>. QED  BY <1>2, <1>3

(* Parts of a finite set are no larger than it. *)
LEMMA PartOf ==
    ASSUME NEW S, IsFiniteSet(S), NEW T, T \subseteq S
    PROVE  /\ IsFiniteSet(T)
           /\ Cardinality(T) \in Nat
           /\ Cardinality(S) \in Nat
           /\ Cardinality(T) <= Cardinality(S)
BY FS_Subset, FS_CardinalityType

(* Two disjoint parts together are no larger than the whole. *)
LEMMA DisjointParts ==
    ASSUME NEW S, IsFiniteSet(S), NEW T, NEW U,
           T \subseteq S, U \subseteq S, T \cap U = {}
    PROVE  Cardinality(T) + Cardinality(U) <= Cardinality(S)
<1>1. IsFiniteSet(T) /\ IsFiniteSet(U)
    BY PartOf
<1>2. Cardinality(T \cup U) = Cardinality(T) + Cardinality(U)
    <2>1. Cardinality(T \cup U)
              = Cardinality(T) + Cardinality(U) - Cardinality(T \cap U)
        BY <1>1, FS_Union
    <2>2. Cardinality(T \cap U) = 0
        BY FS_EmptySet
    <2>3. Cardinality(T) \in Nat /\ Cardinality(U) \in Nat
        BY <1>1, FS_CardinalityType
    <2>. QED  BY <2>1, <2>2, <2>3
<1>3. Cardinality(T \cup U) <= Cardinality(S)
    BY PartOf
<1>. QED  BY <1>2, <1>3

-----------------------------------------------------------------------------
(* The requests. *)

(* Setting one column of a row leaves a row. *)
LEMMA RowUpdated ==
    ASSUME NEW row \in Plan
    PROVE  /\ \A s \in RoutePlanStatus : [row EXCEPT !.status = s] \in Plan
           /\ \A n \in Nat : [row EXCEPT !.activatedAt = n] \in Plan
           /\ \A b \in BOOLEAN : /\ [row EXCEPT !.completed = b] \in Plan
                                /\ [row EXCEPT !.geom = b] \in Plan
                                /\ [row EXCEPT !.deleted = b] \in Plan
BY DEF Plan

(* Every variable keeps its shape, in every interleaving of the requests. *)
THEOREM TypeCorrect == Spec => []TypeOK
<1>1. Init => TypeOK
    BY DEF Init, TypeOK, NoPlan, Plan, Request
<1>2. TypeOK /\ [Next]_vars => TypeOK'
    <2> SUFFICES ASSUME TypeOK, [Next]_vars PROVE TypeOK'
        OBVIOUS
    <2> USE DEF TypeOK, Request, Calls, At, GoTo
    <2>1. ASSUME NEW r \in Requests, NEW p \in Plans, RequestBegin(r, p)
          PROVE  TypeOK'
        BY <2>1 DEF RequestBegin, CreateBegin, ActivateBegin, CompleteBegin,
                    CancelBegin, RemoveBegin, Begin
    <2>2. ASSUME NEW r \in Requests, RequestStep(r)
          PROVE  TypeOK'
        <3>1. \A row \in Plan : Update(r, row) => plan' \in [Plans -> Plan]
            BY DEF Update
        <3>2. /\ plan[req[r].plan] \in Plan
              /\ req[r].plan \in Plans
            OBVIOUS
        <3>3. CASE CreateSave(r)
            <4>1. [NoPlan EXCEPT !.status = "PLANNED"] \in Plan
                BY DEF NoPlan, Plan, RoutePlanStatus
            <4>. QED  BY <3>3, <3>1, <4>1 DEF CreateSave
        <3>4. CASE CreateGeom(r)
            <4>1. [plan[req[r].plan] EXCEPT !.geom = TRUE] \in Plan
                BY <3>2 DEF Plan
            <4>. QED  BY <3>4, <3>1, <4>1 DEF CreateGeom
        <3>5. CASE ActivateCancelOthers(r)
            <4>1. \A p \in Plans :
                     [plan[p] EXCEPT !.status = "CANCELLED", !.completed = TRUE] \in Plan
                <5>1. ASSUME NEW p \in Plans
                      PROVE  [plan[p] EXCEPT !.status = "CANCELLED"] \in Plan
                    BY RowUpdated DEF RoutePlanStatus
                <5>2. ASSUME NEW p \in Plans
                      PROVE  [[plan[p] EXCEPT !.status = "CANCELLED"]
                                 EXCEPT !.completed = TRUE] \in Plan
                    BY <5>1, RowUpdated
                <5>. QED  BY <5>2
            <4>. QED  BY <3>5, <4>1 DEF ActivateCancelOthers
        <3>6. CASE ActivateSet(r)
            <4>1. [plan[req[r].plan] EXCEPT !.status = "ACTIVE",
                       !.activatedAt = clock + 1, !.completed = FALSE] \in Plan
                <5>1. clock + 1 \in Nat
                    OBVIOUS
                <5>2. [plan[req[r].plan] EXCEPT !.status = "ACTIVE"] \in Plan
                    BY <3>2 DEF Plan, RoutePlanStatus
                <5>3. [plan[req[r].plan] EXCEPT !.status = "ACTIVE",
                           !.activatedAt = clock + 1] \in Plan
                    BY <5>1, <5>2 DEF Plan
                <5>. QED  BY <5>3 DEF Plan
            <4>. QED  BY <3>6, <3>1, <4>1 DEF ActivateSet
        <3>7. CASE Complete(r)
            <4>1. [plan[req[r].plan] EXCEPT !.status = "COMPLETED",
                       !.completed = TRUE] \in Plan
                BY <3>2 DEF Plan, RoutePlanStatus
            <4>. QED  BY <3>7, <3>1, <4>1 DEF Complete
        <3>8. CASE Cancel(r)
            <4>1. [plan[req[r].plan] EXCEPT !.status = "CANCELLED",
                       !.completed = TRUE] \in Plan
                BY <3>2 DEF Plan, RoutePlanStatus
            <4>. QED  BY <3>8, <3>1, <4>1 DEF Cancel
        <3>9. CASE Remove(r)
            <4>1. [plan[req[r].plan] EXCEPT !.deleted = TRUE] \in Plan
                BY <3>2 DEF Plan
            <4>. QED  BY <3>9, <3>1, <4>1 DEF Remove
        <3>. QED  BY <2>2, <3>3, <3>4, <3>5, <3>6, <3>7, <3>8, <3>9 DEF RequestStep
    <2>3. CASE Restart
        <3>1. \A p \in Plans : [plan[p] EXCEPT !.geom = FALSE] \in Plan
            BY DEF Plan
        <3>. QED  BY <2>3, <3>1 DEF Restart
    <2>4. CASE UNCHANGED vars
        BY <2>4 DEF vars
    <2>. QED  BY <2>1, <2>2, <2>3, <2>4 DEF Next
<1>. QED  BY <1>1, <1>2, PTL DEF Spec

-----------------------------------------------------------------------------
(* Counting the ACTIVE plans of a device and the requests with a claim. *)

\* 1 if plan row of p is an ACTIVE plan of device d, else 0.
Counts(row, p, d) == IF row.status = "ACTIVE" /\ DeviceOf[p] = d THEN 1 ELSE 0

\* 1 if request q is about to set a plan of device d ACTIVE, else 0.
Claim(q, d) == IF q.call = "setActive" /\ DeviceOf[q.plan] = d THEN 1 ELSE 0

(* Both are parts of finite sets. *)
LEMMA ActiveAndClaimsAreCounted ==
    ASSUME NEW d
    PROVE  /\ IsFiniteSet(Active(d)) /\ IsFiniteSet(Claims(d))
           /\ Cardinality(Active(d)) \in Nat
           /\ Cardinality(Claims(d)) \in Nat
           /\ Cardinality(Requests) \in Nat
           /\ Cardinality(Claims(d)) <= Cardinality(Requests)
<1>1. Active(d) \subseteq Plans /\ Claims(d) \subseteq Requests
    BY DEF Active, Claims
<1>. QED  BY <1>1, PartOf, ConstantsAssumption

(* A step that writes one plan row changes the count by that row. *)
LEMMA OnePlanWritten ==
    ASSUME NEW p \in Plans, \A q \in Plans \ {p} : plan'[q] = plan[q], NEW d
    PROVE  /\ Cardinality(Active(d)') \in Nat
           /\ Cardinality(Active(d)') = Cardinality(Active(d))
                  + Counts(plan'[p], p, d) - Counts(plan[p], p, d)
<1>1. Active(d) \ {p} = Active(d)' \ {p}
    BY DEF Active
<1>2. Has(Active(d)', p) = Counts(plan'[p], p, d) /\ Has(Active(d), p) = Counts(plan[p], p, d)
    BY DEF Active, Has, Counts
<1>. QED  BY <1>1, <1>2, ActiveAndClaimsAreCounted, ChangeOne

(* A step of one request changes the claims by that request. *)
LEMMA OneRequestMoves ==
    ASSUME NEW r \in Requests, \A s \in Requests \ {r} : req'[s] = req[s], NEW d
    PROVE  /\ Cardinality(Claims(d)') \in Nat
           /\ Cardinality(Claims(d)') = Cardinality(Claims(d))
                  + Claim(req'[r], d) - Claim(req[r], d)
<1>1. Claims(d) \ {r} = Claims(d)' \ {r}
    BY DEF Claims, At
<1>2. Has(Claims(d)', r) = Claim(req'[r], d) /\ Has(Claims(d), r) = Claim(req[r], d)
    BY DEF Claims, Has, Claim, At
<1>. QED  BY <1>1, <1>2, ActiveAndClaimsAreCounted, ChangeOne

\* Only slot r changes in a step of the request in r.
LEMMA OnlyOneRequest ==
    ASSUME TypeOK, NEW r \in Requests,
           RequestStep(r) \/ \E p \in Plans : RequestBegin(r, p)
    PROVE  \A s \in Requests \ {r} : req'[s] = req[s]
BY DEF TypeOK, RequestStep, RequestBegin, CreateSave, CreateGeom,
       ActivateCancelOthers, ActivateSet, Complete, Cancel, Remove, CreateBegin,
       ActivateBegin, CompleteBegin, CancelBegin, RemoveBegin, Begin, GoTo

\* The row each step but the bulk cancel writes, and where the request goes.
LEMMA RowWritten ==
    ASSUME TypeOK, NEW r \in Requests
    PROVE  LET p == req[r].plan IN
           /\ p \in Plans
           /\ (RequestStep(r) /\ ~ActivateCancelOthers(r)) =>
                 \A q \in Plans \ {p} : plan'[q] = plan[q]
           /\ CreateSave(r) => plan'[p].status = "PLANNED"
           /\ (CreateGeom(r) \/ Remove(r)) => plan'[p].status = plan[p].status
           /\ Complete(r) => plan'[p].status = "COMPLETED"
           /\ Cancel(r) => plan'[p].status = "CANCELLED"
           /\ ActivateSet(r) => /\ plan'[p].status = "ACTIVE"
                               /\ req[r].call = "setActive"
           /\ RequestStep(r) => req'[r].plan = p
           /\ ActivateCancelOthers(r) => /\ req[r].call = "cancelOthers"
                                        /\ req'[r].call = "setActive"
           /\ (RequestStep(r) /\ ~ActivateCancelOthers(r)) =>
                 req'[r].call \in {"idle", "geom"}
<1> USE DEF TypeOK, Request, Plan
<1>1. req[r].plan \in Plans
    OBVIOUS
<1>2. (RequestStep(r) /\ ~ActivateCancelOthers(r)) =>
          \A q \in Plans \ {req[r].plan} : plan'[q] = plan[q]
    BY DEF RequestStep, CreateSave, CreateGeom, ActivateSet, Complete, Cancel, Remove, Update
<1>3. /\ CreateSave(r) => plan'[req[r].plan].status = "PLANNED"
      /\ (CreateGeom(r) \/ Remove(r)) =>
            plan'[req[r].plan].status = plan[req[r].plan].status
    BY DEF CreateSave, CreateGeom, Remove, Update, NoPlan
<1>4. Complete(r) => plan'[req[r].plan].status = "COMPLETED"
    <2>1. [plan[req[r].plan] EXCEPT !.status = "COMPLETED", !.completed = TRUE].status
              = "COMPLETED"
        BY <1>1
    <2>. QED  BY <1>1, <2>1 DEF Complete, Update
<1>9. Cancel(r) => plan'[req[r].plan].status = "CANCELLED"
    <2>1. [plan[req[r].plan] EXCEPT !.status = "CANCELLED", !.completed = TRUE].status
              = "CANCELLED"
        BY <1>1
    <2>. QED  BY <1>1, <2>1 DEF Cancel, Update
<1>5. ActivateSet(r) => /\ plan'[req[r].plan].status = "ACTIVE"
                        /\ req[r].call = "setActive"
    BY DEF ActivateSet, Update, At
<1>6. RequestStep(r) => req'[r].plan = req[r].plan
    <2>1. \A c : GoTo(r, c) => req'[r].plan = req[r].plan
        BY DEF GoTo
    <2>. QED  BY <2>1 DEF RequestStep, CreateSave, CreateGeom, ActivateCancelOthers,
                          ActivateSet, Complete, Cancel, Remove
<1>7. ActivateCancelOthers(r) => /\ req[r].call = "cancelOthers"
                                 /\ req'[r].call = "setActive"
    BY DEF ActivateCancelOthers, At, GoTo
<1>8. (RequestStep(r) /\ ~ActivateCancelOthers(r)) => req'[r].call \in {"idle", "geom"}
    BY DEF RequestStep, CreateSave, CreateGeom, ActivateSet, Complete, Cancel, Remove, GoTo
<1>. QED  BY <1>1, <1>2, <1>3, <1>4, <1>5, <1>6, <1>7, <1>8, <1>9

-----------------------------------------------------------------------------
(* The claim account is inductive: the bulk cancel empties the device's ACTIVE
   plans while its request takes a claim, setting a plan ACTIVE uses the claim
   up, and nothing else adds to either side. *)
THEOREM ClaimAccountHolds == Spec => []ActivePlusClaims
<1>1. Init => ActivePlusClaims
    <2> SUFFICES ASSUME Init, NEW d \in Devices
                 PROVE  Cardinality(Active(d)) + Cardinality(Claims(d)) <= Cardinality(Requests)
        BY DEF ActivePlusClaims
    <2>1. Active(d) = {}
        BY DEF Init, Active, NoPlan
    <2>. QED  BY <2>1, ActiveAndClaimsAreCounted, FS_EmptySet
<1>2. TypeOK /\ TypeOK' /\ ActivePlusClaims /\ [Next]_vars => ActivePlusClaims'
    <2> SUFFICES ASSUME TypeOK, TypeOK', ActivePlusClaims, [Next]_vars, NEW d \in Devices
                 PROVE  Cardinality(Active(d)') + Cardinality(Claims(d)') <= Cardinality(Requests)
        BY DEF ActivePlusClaims
    <2> DEFINE Goal == Cardinality(Active(d)') + Cardinality(Claims(d)') <= Cardinality(Requests)
    <2>a. /\ Cardinality(Active(d)) \in Nat /\ Cardinality(Claims(d)) \in Nat
          /\ Cardinality(Requests) \in Nat
          /\ Cardinality(Active(d)) + Cardinality(Claims(d)) <= Cardinality(Requests)
        BY ActiveAndClaimsAreCounted DEF ActivePlusClaims
    <2>1. ASSUME NEW r \in Requests, NEW p \in Plans, RequestBegin(r, p)
          PROVE  Goal
        <3>1. plan' = plan /\ req'[r].call # "setActive"
            BY <2>1 DEF RequestBegin, CreateBegin, ActivateBegin, CompleteBegin,
                        CancelBegin, RemoveBegin, Begin, TypeOK
        <3>2. Active(d)' = Active(d)
            BY <3>1 DEF Active
        <3>3. Cardinality(Claims(d)') <= Cardinality(Claims(d))
            BY <2>1, <3>1, <2>a, OnlyOneRequest, OneRequestMoves DEF Claim
        <3>. QED  BY <3>2, <3>3, <2>a, OnlyOneRequest, OneRequestMoves, <2>1
    <2>2. ASSUME NEW r \in Requests, RequestStep(r)
          PROVE  Goal
        <3>1. CASE ActivateCancelOthers(r) /\ DeviceOf[req[r].plan] = d
            <4>1. Active(d)' = {}
                BY <3>1 DEF ActivateCancelOthers, Active, TypeOK, Plan
            <4>2. Claims(d)' \subseteq Requests
                BY DEF Claims
            <4>. QED  BY <4>1, <4>2, FS_EmptySet, PartOf, ConstantsAssumption
        <3>2. CASE ActivateCancelOthers(r) /\ DeviceOf[req[r].plan] # d
            <4>1. \A p \in Plans : DeviceOf[p] = d => plan'[p] = plan[p]
                BY <3>2 DEF ActivateCancelOthers, Active
            <4>3. Active(d)' = Active(d)
                BY <4>1 DEF Active
            <4>2. Cardinality(Claims(d)') = Cardinality(Claims(d))
                BY <2>2, <3>2, <2>a, RowWritten, OnlyOneRequest, OneRequestMoves DEF Claim
            <4>. QED  BY <4>2, <4>3, <2>a
        <3>3. CASE ~ActivateCancelOthers(r)
            BY <2>2, <3>3, <2>a, RowWritten, OnlyOneRequest, OneRequestMoves,
               OnePlanWritten DEF RequestStep, Claim, Counts
        <3>. QED  BY <3>1, <3>2, <3>3
    <2>3. CASE Restart
        <3>1. Active(d)' = Active(d)
            BY <2>3 DEF Restart, Active, TypeOK, Plan
        <3>2. Claims(d)' = {}
            BY <2>3 DEF Restart, Claims, At, TypeOK, Request
        <3>. QED  BY <3>1, <3>2, <2>a, FS_EmptySet
    <2>4. CASE UNCHANGED vars
        <3>1. Active(d)' = Active(d) /\ Claims(d)' = Claims(d)
            BY <2>4 DEF vars, Active, Claims, At
        <3>. QED  BY <3>1, <2>a
    <2>. QED  BY <2>1, <2>2, <2>3, <2>4 DEF Next
<1>. QED  BY <1>1, <1>2, TypeCorrect, PTL DEF Spec

(* A device never has more ACTIVE plans than requests can be in flight. *)
THEOREM ActiveBounded == Spec => []ActiveBoundedByRequests
<1>1. ActivePlusClaims => ActiveBoundedByRequests
    BY ActiveAndClaimsAreCounted DEF ActivePlusClaims, ActiveBoundedByRequests
<1>. QED  BY <1>1, ClaimAccountHolds, PTL

(* The business rule in activate's comment, where it is true: when requests are
   served one at a time a device has at most one ACTIVE plan. *)
THEOREM OneActiveWhenSerial ==
    ASSUME Cardinality(Requests) = 1
    PROVE  Spec => []OneActivePerDevice
<1>1. ActiveBoundedByRequests => OneActivePerDevice
    BY DEF ActiveBoundedByRequests, OneActivePerDevice
<1>. QED  BY <1>1, ActiveBounded, PTL

-----------------------------------------------------------------------------
(* The checks.  What the requests do to the plans does not matter to the
   account of alerts, only that a restart ends the checks. *)

\* The types of the check's own variables; a check under way has its device.
CheckTypes ==
    /\ chk \in [Checks -> Check]
    /\ \A c \in Checks : CheckAt(c, "idle") \/ chk[c].dev \in Devices
    /\ cooldown \in [Plans -> Nat]
    /\ cycle \in [Plans -> Nat]
    /\ faults \in Nat
    /\ restarts \in Nat

(* A step of the service restarts the backend at most once. *)
LEMMA ServiceRestarts ==
    ASSUME Next
    PROVE  restarts' = restarts \/ restarts' = restarts + 1
BY DEF Next, RequestBegin, RequestStep, CreateBegin,
       ActivateBegin, CompleteBegin, CancelBegin,
       RemoveBegin, CreateSave, CreateGeom,
       ActivateCancelOthers, ActivateSet, Complete,
       Cancel, Remove, Restart

(* Setting the call of a check leaves a check, with its device and plan. *)
LEMMA CallSet ==
    ASSUME NEW k \in Check, NEW l \in CheckCalls
    PROVE  /\ [k EXCEPT !.call = l] \in Check
           /\ [k EXCEPT !.call = l].call = l
           /\ [k EXCEPT !.call = l].dev = k.dev
           /\ [k EXCEPT !.call = l].plan = k.plan
BY DEF Check

\* CheckGoTo moves slot c alone: to rest, or on with the same device and plan.
LEMMA Going ==
    ASSUME CheckTypes, NEW c \in Checks, NEW l \in CheckCalls, CheckGoTo(c, l)
    PROVE  /\ chk' \in [Checks -> Check]
           /\ \A k \in Checks \ {c} : chk'[k] = chk[k]
           /\ chk'[c].call = l
           /\ l # "idle" => chk'[c].dev = chk[c].dev /\ chk'[c].plan = chk[c].plan
<1>1. Idle \in Check /\ Idle.call = "idle"
    BY DEF Idle, Check, CheckCalls
<1>2. chk[c] \in Check
    BY DEF CheckTypes
<1>. QED  BY <1>1, <1>2, CallSet DEF CheckTypes, CheckGoTo

(* What the service does to the checks. *)
LEMMA ServiceMoves ==
    ASSUME CheckTypes, ServiceStep
    PROVE  /\ chk' \in [Checks -> Check]
           /\ UNCHANGED <<cooldown, cycle, faults>>
           /\ \/ /\ restarts' = restarts
                 /\ \A c \in Checks :
                       /\ chk'[c].call = chk[c].call
                       /\ CheckAt(c, "idle") \/ /\ chk'[c].plan = chk[c].plan
                                                /\ chk'[c].dev = chk[c].dev
              \/ /\ restarts' = restarts + 1
                 /\ \A c \in Checks : chk'[c].call = "idle"
<1> DEFINE now == [d \in Devices |-> Monitored(d)']
           moved(c) == [chk[c] EXCEPT !.kept = @ \cap now[chk[c].dev],
                                      !.met = @ \cup now[chk[c].dev]]
<1>1. \A d \in Devices : now[d] \subseteq Plans
    BY DEF Monitored
<1>2. Idle \in Check /\ Idle.call = "idle"
    BY DEF Idle, Check, CheckCalls
<1>3. chk' = [c \in Checks |->
                IF CheckAt(c, "idle") \/ restarts' # restarts THEN Idle ELSE moved(c)]
    BY DEF ServiceStep
<1> HIDE DEF now
<1>4. ASSUME NEW c \in Checks, ~CheckAt(c, "idle")
      PROVE  /\ moved(c) \in Check
             /\ moved(c).call = chk[c].call
             /\ moved(c).plan = chk[c].plan
             /\ moved(c).dev = chk[c].dev
    <2>1. now[chk[c].dev] \subseteq Plans /\ chk[c] \in Check
        BY <1>1, <1>4 DEF CheckTypes
    <2>. QED  BY <2>1 DEF Check
<1>5. restarts' = restarts \/ restarts' = restarts + 1
    BY ServiceRestarts DEF ServiceStep
<1>6. UNCHANGED <<cooldown, cycle, faults>>
    BY DEF ServiceStep
<1> HIDE DEF moved
<1>7. chk' \in [Checks -> Check]
    <2>1. ASSUME NEW c \in Checks
          PROVE  (IF CheckAt(c, "idle") \/ restarts' # restarts THEN Idle ELSE moved(c)) \in Check
        BY <1>2, <1>4
    <2>. QED  BY <1>3, <2>1
<1>8. CASE restarts' = restarts
    <2>1. ASSUME NEW c \in Checks
          PROVE  /\ chk'[c].call = chk[c].call
                 /\ CheckAt(c, "idle") \/ /\ chk'[c].plan = chk[c].plan
                                          /\ chk'[c].dev = chk[c].dev
        <3>1. CASE CheckAt(c, "idle")
            <4>1. chk'[c] = Idle
                BY <1>3, <3>1
            <4>. QED  BY <1>2, <3>1, <4>1 DEF CheckAt
        <3>2. CASE ~CheckAt(c, "idle")
            <4>1. chk'[c] = moved(c)
                BY <1>3, <1>8, <3>2
            <4>. QED  BY <1>4, <3>2, <4>1
        <3>. QED  BY <3>1, <3>2
    <2>. QED  BY <1>6, <1>7, <1>8, <2>1
<1>9. CASE restarts' = restarts + 1
    <2>1. restarts' # restarts
        BY <1>9 DEF CheckTypes
    <2>2. \A c \in Checks : chk'[c] = Idle
        BY <1>3, <2>1
    <2>. QED  BY <1>2, <1>6, <1>7, <1>9, <2>2
<1>. QED  BY <1>5, <1>8, <1>9

(* What each step of a check does to its slot. *)
LEMMA CheckMoves ==
    ASSUME CheckTypes, NEW c \in Checks
    PROVE  /\ \A d \in Devices, off \in SUBSET Plans : StartCheck(c, d, off) =>
                 /\ chk' \in [Checks -> Check]
                 /\ \A k \in Checks \ {c} : chk'[k] = chk[k]
                 /\ chk[c].call = "idle" /\ chk'[c].call = "query" /\ chk'[c].dev = d
           /\ CheckStep(c) \/ GetFails(c) \/ CallFails(c) =>
                 /\ chk' \in [Checks -> Check]
                 /\ \A k \in Checks \ {c} : chk'[k] = chk[k]
                 /\ chk'[c].call = "idle" \/ chk'[c].dev = chk[c].dev
           /\ QueryRoute(c) => /\ chk[c].call = "query"
                               /\ chk'[c].call \in {"idle", "getCooldown"}
           /\ GetCooldown(c) => /\ chk[c].call = "getCooldown"
                                /\ chk'[c].call = IF cooldown[chk[c].plan] > 0
                                                  THEN "idle" ELSE "create"
                                /\ chk'[c].call = "create" => chk'[c].plan = chk[c].plan
           /\ CreateAlert(c) => /\ chk[c].call = "create"
                                /\ chk'[c].plan = chk[c].plan
                                /\ chk'[c].call = "setCooldown"
           /\ SetCooldown(c) => /\ chk[c].call = "setCooldown"
                                /\ chk'[c].call = "idle"
           /\ GetFails(c) => /\ chk[c].call = "getCooldown"
                             /\ chk'[c].call = "create"
           /\ CallFails(c) => chk'[c].call = "idle"
<1>0. /\ chk \in [Checks -> Check]
      /\ {"idle", "query", "getCooldown", "create", "setCooldown"} = CheckCalls
    BY DEF CheckTypes, CheckCalls
<1>1. ASSUME NEW d \in Devices, NEW off \in SUBSET Plans, StartCheck(c, d, off)
      PROVE  /\ chk' \in [Checks -> Check]
             /\ \A k \in Checks \ {c} : chk'[k] = chk[k]
             /\ chk[c].call = "idle" /\ chk'[c].call = "query" /\ chk'[c].dev = d
    <2>1. Monitored(d) \subseteq Plans
        BY DEF Monitored
    <2>. QED  BY <1>0, <1>1, <2>1 DEF StartCheck, CheckAt, Check, CheckCalls
<1>2. ASSUME QueryRoute(c)
      PROVE  /\ chk' \in [Checks -> Check]
             /\ \A k \in Checks \ {c} : chk'[k] = chk[k]
             /\ chk'[c].call = "idle" \/ chk'[c].dev = chk[c].dev
             /\ chk[c].call = "query"
             /\ chk'[c].call \in {"idle", "getCooldown"}
    <2>1. CASE CheckGoTo(c, "idle")
        BY <1>0, <1>2, <2>1, Going DEF QueryRoute, CheckAt
    <2>2. ASSUME NEW p \in Plans, Judge(c, p), p \in chk[c].off
          PROVE  /\ chk' \in [Checks -> Check]
                 /\ \A k \in Checks \ {c} : chk'[k] = chk[k]
                 /\ chk'[c].dev = chk[c].dev
                 /\ chk'[c].call = "getCooldown"
        BY <1>0, <2>2 DEF Judge, Check, CheckCalls
    <2>3. CheckGoTo(c, "idle") \/ \E p \in Plans : Judge(c, p) /\ p \in chk[c].off
        BY <1>2 DEF QueryRoute, Newest, Monitored, Judge
    <2>. QED  BY <1>2, <2>1, <2>2, <2>3 DEF QueryRoute, CheckAt
<1>3. ASSUME GetCooldown(c)
      PROVE  \E l \in {"idle", "create"} :
                 /\ CheckGoTo(c, l) /\ chk[c].call = "getCooldown"
                 /\ l = IF cooldown[chk[c].plan] > 0 THEN "idle" ELSE "create"
    BY <1>3 DEF GetCooldown, CheckAt
<1>4. /\ CreateAlert(c) => CheckGoTo(c, "setCooldown") /\ chk[c].call = "create"
      /\ SetCooldown(c) => CheckGoTo(c, "idle") /\ chk[c].call = "setCooldown"
      /\ GetFails(c) => CheckGoTo(c, "create") /\ chk[c].call = "getCooldown"
      /\ CallFails(c) => CheckGoTo(c, "idle")
    BY DEF CreateAlert, SetCooldown, GetFails, CallFails, CheckAt
<1>5. \A l \in CheckCalls : CheckGoTo(c, l) =>
          /\ chk' \in [Checks -> Check]
          /\ \A k \in Checks \ {c} : chk'[k] = chk[k]
          /\ chk'[c].call = l
          /\ l # "idle" => chk'[c].dev = chk[c].dev /\ chk'[c].plan = chk[c].plan
    BY Going
<1>. QED  BY <1>0, <1>1, <1>2, <1>3, <1>4, <1>5 DEF CheckStep

-----------------------------------------------------------------------------
(* Types, and the claims checks hold on a plan's cooldown cycle. *)

LEMMA TypesHold == DeviationSpec => []CheckTypes
<1>1. DeviationInit => CheckTypes
    <2>1. Idle \in Check /\ Idle.call = "idle"
        BY DEF Idle, Check, CheckCalls
    <2>. QED  BY <2>1 DEF DeviationInit, CheckTypes, CheckAt, Init
<1>2. CheckTypes /\ [DeviationNext]_deviationVars => CheckTypes'
    <2> SUFFICES ASSUME CheckTypes, [DeviationNext]_deviationVars PROVE CheckTypes'
        OBVIOUS
    <2>1. ASSUME NEW c \in Checks, NEW d \in Devices, NEW off \in SUBSET Plans,
                 StartCheck(c, d, off)
          PROVE  CheckTypes'
        <3>1. UNCHANGED <<planVars, cooldown, cycle, faults>>
            BY <2>1 DEF StartCheck
        <3>. QED  BY <2>1, <3>1, CheckMoves DEF CheckTypes, CheckAt, planVars, vars
    <2>2. ASSUME NEW c \in Checks, CheckStep(c) \/ GetFails(c) \/ CallFails(c)
          PROVE  CheckTypes'
        <3>1. /\ chk' \in [Checks -> Check]
              /\ \A k \in Checks : CheckAt(k, "idle")' \/ chk'[k].dev \in Devices
            <4>1. /\ chk' \in [Checks -> Check]
                  /\ \A k \in Checks \ {c} : chk'[k] = chk[k]
                  /\ chk'[c].call = "idle" \/ chk'[c].dev = chk[c].dev
                BY <2>2, CheckMoves
            <4>2. chk[c].call # "idle"
                BY <2>2, CheckMoves DEF CheckStep, CallFails
            <4>. QED  BY <4>1, <4>2 DEF CheckTypes, CheckAt
        <3>2. /\ cooldown' \in [Plans -> Nat] /\ cycle' \in [Plans -> Nat]
              /\ faults' \in Nat /\ restarts' \in Nat
            BY <2>2, DeviationAssumption
            DEF CheckTypes, CheckStep, QueryRoute, GetCooldown, CreateAlert, SetCooldown,
                GetFails, CallFails, planVars, vars
        <3>. QED  BY <3>1, <3>2 DEF CheckTypes
    <2>3. CASE Tick
        <3>1. \A p \in Plans : Cardinality(Alerting(p)) \in Nat
            BY PartOf, DeviationAssumption DEF Alerting
        <3>. QED  BY <2>3, <3>1 DEF CheckTypes, Tick, CheckAt, planVars, vars
    <2>4. CASE ServiceStep
        BY <2>4, ServiceMoves DEF CheckTypes, CheckAt
    <2>5. CASE UNCHANGED deviationVars
        BY <2>5 DEF deviationVars, planVars, vars, CheckTypes, CheckAt
    <2>. QED  BY <2>1, <2>2, <2>3, <2>4, <2>5 DEF DeviationNext
<1>. QED  BY <1>1, <1>2, PTL DEF DeviationSpec

(* The two groups are disjoint parts of the finite set of checks. *)
LEMMA ClaimsAreCounted ==
    ASSUME NEW p
    PROVE  /\ IsFiniteSet(Alerting(p)) /\ IsFiniteSet(Admitted(p))
           /\ Cardinality(Alerting(p)) \in Nat
           /\ Cardinality(Admitted(p)) \in Nat
           /\ Cardinality(Checks) \in Nat
           /\ Cardinality(Alerting(p)) + Cardinality(Admitted(p)) <= Cardinality(Checks)
<1>1. Alerting(p) \subseteq Checks /\ Admitted(p) \subseteq Checks
    BY DEF Alerting, Admitted
<1>2. Alerting(p) \cap Admitted(p) = {}
    BY DEF Alerting, Admitted, CheckAt
<1>. QED  BY <1>1, <1>2, PartOf, DisjointParts, DeviationAssumption

\* 1 if the check k is about to make call l for plan p, else 0.
CheckClaim(k, l, p) == IF k.call = l /\ k.plan = p THEN 1 ELSE 0

(* A step that changes the check in slot c moves only c in or out of them. *)
LEMMA OneCheckMoves ==
    ASSUME NEW c \in Checks, \A k \in Checks \ {c} : chk'[k] = chk[k], NEW p \in Plans
    PROVE  /\ Cardinality(Alerting(p)') \in Nat
           /\ Cardinality(Admitted(p)') \in Nat
           /\ Cardinality(Alerting(p)') = Cardinality(Alerting(p))
                  + CheckClaim(chk'[c], "setCooldown", p) - CheckClaim(chk[c], "setCooldown", p)
           /\ Cardinality(Admitted(p)') = Cardinality(Admitted(p))
                  + CheckClaim(chk'[c], "create", p) - CheckClaim(chk[c], "create", p)
<1>1. Alerting(p) \ {c} = Alerting(p)' \ {c}
    BY DEF Alerting, CheckAt
<1>2. Admitted(p) \ {c} = Admitted(p)' \ {c}
    BY DEF Admitted, CheckAt
<1>3. /\ Has(Alerting(p)', c) = CheckClaim(chk'[c], "setCooldown", p)
      /\ Has(Alerting(p), c) = CheckClaim(chk[c], "setCooldown", p)
      /\ Has(Admitted(p)', c) = CheckClaim(chk'[c], "create", p)
      /\ Has(Admitted(p), c) = CheckClaim(chk[c], "create", p)
    BY DEF Alerting, Admitted, CheckAt, Has, CheckClaim
<1>4. IsFiniteSet(Alerting(p)) /\ IsFiniteSet(Admitted(p))
    BY ClaimsAreCounted
<1>5. /\ Cardinality(Alerting(p)') \in Nat
      /\ Cardinality(Alerting(p)') = Cardinality(Alerting(p))
             + Has(Alerting(p)', c) - Has(Alerting(p), c)
    BY <1>1, <1>4, ChangeOne
<1>6. /\ Cardinality(Admitted(p)') \in Nat
      /\ Cardinality(Admitted(p)') = Cardinality(Admitted(p))
             + Has(Admitted(p)', c) - Has(Admitted(p), c)
    BY <1>2, <1>4, ChangeOne
<1>. QED  BY <1>3, <1>5, <1>6

-----------------------------------------------------------------------------
\* What the checks of earlier runs of the process may have left in a cycle.
Lost(r) == Cardinality(Checks) * r

(* The products in the account, as numbers the solver can add. *)
LEMMA LostCounts ==
    ASSUME NEW r \in Nat
    PROVE  /\ Lost(r) \in Nat
           /\ Cardinality(Checks) * (1 + r) = Cardinality(Checks) + Lost(r)
           /\ Lost(r + 1) = Cardinality(Checks) + Lost(r)
<1>1. Cardinality(Checks) \in Nat
    BY ClaimsAreCounted
<1>2. /\ Cardinality(Checks) * r \in Nat
      /\ Cardinality(Checks) * (1 + r) = Cardinality(Checks) + Cardinality(Checks) * r
      /\ Cardinality(Checks) * (r + 1) = Cardinality(Checks) + Cardinality(Checks) * r
    BY <1>1
<1>. QED  BY <1>2 DEF Lost

(* The account of one plan's cooldown cycle. *)
Account(p) ==
    IF cooldown[p] > 0
    THEN cycle[p] + Cardinality(Admitted(p))
            <= Cardinality(Checks) + Lost(restarts) + faults
    ELSE cycle[p] <= Cardinality(Alerting(p)) + Lost(restarts) + faults

LEMMA AccountOfEach ==
    ASSUME CheckTypes
    PROVE  DeviationAccount <=> \A p \in Plans : Account(p)
<1>1. Cardinality(Checks) * (1 + restarts) = Cardinality(Checks) + Lost(restarts)
    BY LostCounts DEF CheckTypes
<1>. QED  BY <1>1 DEF DeviationAccount, Account, Lost

(* The account is kept by every step: a check that found no key is admitted or
   alerting until it sets the key, while the key lives none is admitted except
   by a failed Redis read, and a restart writes off at most one alert a slot. *)
THEOREM DeviationAccountHolds == DeviationSpec => []DeviationAccount
<1>1. DeviationInit => DeviationAccount
    <2> SUFFICES ASSUME DeviationInit, NEW p \in Plans
                 PROVE  /\ cooldown[p] = 0
                        /\ cycle[p] <= Cardinality(Alerting(p))
                                         + Cardinality(Checks) * restarts + faults
        BY DEF DeviationAccount, DeviationInit
    <2>1. restarts = 0
        BY DEF DeviationInit, Init
    <2>2. Lost(0) \in Nat
        BY LostCounts
    <2>. QED  BY <2>1, <2>2, ClaimsAreCounted DEF DeviationInit, Lost
<1>2. CheckTypes /\ CheckTypes' /\ DeviationAccount /\ [DeviationNext]_deviationVars => DeviationAccount'
    <2> SUFFICES ASSUME CheckTypes, CheckTypes', DeviationAccount, [DeviationNext]_deviationVars,
                        NEW p \in Plans
                 PROVE  Account(p)'
        <3>1. CheckTypes' => Cardinality(Checks) * (1 + restarts')
                                = Cardinality(Checks) + Lost(restarts')
            BY LostCounts DEF CheckTypes
        <3>. QED  BY <3>1 DEF DeviationAccount, Account, Lost
    <2>a. /\ cooldown[p] \in Nat /\ cycle[p] \in Nat /\ faults \in Nat /\ restarts \in Nat
          /\ Account(p)
        BY AccountOfEach DEF CheckTypes
    <2>b. /\ Cardinality(Alerting(p)) \in Nat /\ Cardinality(Admitted(p)) \in Nat
          /\ Cardinality(Checks) \in Nat
          /\ Cardinality(Alerting(p)) + Cardinality(Admitted(p)) <= Cardinality(Checks)
          /\ Lost(restarts) \in Nat
        BY <2>a, ClaimsAreCounted, LostCounts
    <2>c. Account(p)' <=>
              IF cooldown'[p] > 0
              THEN cycle'[p] + Cardinality(Admitted(p)')
                      <= Cardinality(Checks) + Lost(restarts') + faults'
              ELSE cycle'[p] <= Cardinality(Alerting(p)') + Lost(restarts') + faults'
        BY DEF Account, Lost
    \* A step of a check that takes up no claim and whose slot has no key to set.
    <2>d. ASSUME NEW c \in Checks, \A k \in Checks \ {c} : chk'[k] = chk[k],
                 chk'[c].call \notin {"create", "setCooldown"},
                 chk[c].call # "setCooldown",
                 UNCHANGED <<planVars, cooldown, cycle, faults>>
          PROVE  Account(p)'
        <3>1. restarts' = restarts
            BY <2>d DEF planVars, vars
        <3>. QED  BY <2>a, <2>b, <2>c, <2>d, <3>1, OneCheckMoves DEF CheckClaim, Account
    <2>1. ASSUME NEW c \in Checks, NEW e \in Devices, NEW off \in SUBSET Plans,
                 StartCheck(c, e, off)
          PROVE  Account(p)'
        BY <2>1, <2>d, CheckMoves DEF StartCheck
    <2>2. ASSUME NEW c \in Checks, CheckStep(c)
          PROVE  Account(p)'
        <3>0. \A k \in Checks \ {c} : chk'[k] = chk[k]
            BY <2>2, CheckMoves
        <3>r. restarts' = restarts
            BY <2>2 DEF CheckStep, QueryRoute, GetCooldown, CreateAlert, SetCooldown, planVars, vars
        <3>1. CASE QueryRoute(c)
            BY <3>0, <3>1, <2>d, CheckMoves DEF QueryRoute
        <3>2. CASE GetCooldown(c)
            <4>1. UNCHANGED <<cooldown, cycle, faults>>
                BY <3>2 DEF GetCooldown
            <4>. QED  BY <3>0, <3>r, <3>2, <4>1, <2>a, <2>b, <2>c, CheckMoves, OneCheckMoves
                      DEF CheckClaim, Account
        <3>3. CASE CreateAlert(c)
            <4>1. /\ cooldown' = cooldown /\ faults' = faults
                  /\ cycle'[p] = IF chk[c].plan = p THEN cycle[p] + 1 ELSE cycle[p]
                BY <3>3 DEF CreateAlert, CheckTypes
            <4>. QED  BY <3>0, <3>r, <3>3, <4>1, <2>a, <2>b, <2>c, CheckMoves, OneCheckMoves
                      DEF CheckClaim, Account
        <3>4. CASE SetCooldown(c)
            <4>1. /\ cycle' = cycle /\ faults' = faults
                  /\ cooldown'[p] = IF chk[c].plan = p THEN CooldownTTL ELSE cooldown[p]
                BY <3>4 DEF SetCooldown, CheckTypes
            <4>2. CooldownTTL > 0 /\ CooldownTTL \in Nat
                BY DeviationAssumption
            <4>. QED  BY <3>0, <3>r, <3>4, <4>1, <4>2, <2>a, <2>b, <2>c, CheckMoves,
                         OneCheckMoves
                      DEF CheckClaim, Account
        <3>. QED  BY <2>2, <3>1, <3>2, <3>3, <3>4 DEF CheckStep
    <2>3. ASSUME NEW c \in Checks, GetFails(c) \/ CallFails(c)
          PROVE  Account(p)'
        <3>1. /\ UNCHANGED <<cooldown, cycle>> /\ faults' = faults + 1
              /\ restarts' = restarts
            BY <2>3 DEF GetFails, CallFails, planVars, vars
        <3>2. \A k \in Checks \ {c} : chk'[k] = chk[k]
            BY <2>3, CheckMoves
        <3>. QED  BY <2>3, <3>1, <3>2, <2>a, <2>b, <2>c, CheckMoves, OneCheckMoves
                  DEF CheckClaim, Account
    <2>4. CASE Tick
        <3>1. /\ Alerting(p)' = Alerting(p) /\ Admitted(p)' = Admitted(p)
              /\ faults' = faults /\ restarts' = restarts
            BY <2>4 DEF Tick, Alerting, Admitted, CheckAt, planVars, vars
        <3>2. /\ cooldown'[p] = IF cooldown[p] > 0 THEN cooldown[p] - 1 ELSE 0
              /\ cycle'[p] = IF cooldown[p] = 1 THEN Cardinality(Alerting(p)) ELSE cycle[p]
            BY <2>4 DEF Tick
        <3>. QED  BY <3>1, <3>2, <2>a, <2>b, <2>c DEF Account
    <2>5. CASE ServiceStep
        <3>0. UNCHANGED <<cooldown, cycle, faults>>
            BY <2>5, ServiceMoves
        <3>1. CASE /\ restarts' = restarts
                   /\ \A c \in Checks : /\ chk'[c].call = chk[c].call
                                        /\ CheckAt(c, "idle") \/ chk'[c].plan = chk[c].plan
            <4>1. Alerting(p)' = Alerting(p) /\ Admitted(p)' = Admitted(p)
                BY <3>1 DEF Alerting, Admitted, CheckAt
            <4>. QED  BY <3>0, <3>1, <4>1, <2>a, <2>c DEF Account
        <3>2. CASE restarts' = restarts + 1 /\ \A c \in Checks : chk'[c].call = "idle"
            <4>1. Alerting(p)' = {} /\ Admitted(p)' = {}
                BY <3>2 DEF Alerting, Admitted, CheckAt
            <4>2. Cardinality(Alerting(p)') = 0 /\ Cardinality(Admitted(p)') = 0
                BY <4>1, FS_EmptySet
            <4>3. Lost(restarts') = Cardinality(Checks) + Lost(restarts)
                BY <3>2, <2>a, LostCounts
            <4>. QED  BY <3>0, <4>2, <4>3, <2>a, <2>b, <2>c DEF Account
        <3>. QED  BY <2>5, <3>1, <3>2, ServiceMoves
    <2>6. CASE UNCHANGED deviationVars
        <3>1. Alerting(p)' = Alerting(p) /\ Admitted(p)' = Admitted(p)
            BY <2>6 DEF deviationVars, planVars, vars, Alerting, Admitted, CheckAt
        <3>. QED  BY <2>6, <3>1, <2>a, <2>c DEF deviationVars, planVars, vars, Account
    <2>. QED  BY <2>1, <2>2, <2>3, <2>4, <2>5, <2>6 DEF DeviationNext
<1>. QED  BY <1>1, <1>2, TypesHold, PTL DEF DeviationSpec

(* The bound, for any number of overlapping checks, restarts and failures. *)
THEOREM DeviationsPerCycle == DeviationSpec => []DeviationsPerCycleBounded
<1>1. CheckTypes /\ DeviationAccount => DeviationsPerCycleBounded
    <2> SUFFICES ASSUME CheckTypes, DeviationAccount, NEW p \in Plans
                 PROVE  cycle[p] <= Cardinality(Checks) * (1 + restarts) + faults
        BY DEF DeviationsPerCycleBounded
    <2>1. Account(p) /\ cycle[p] \in Nat /\ faults \in Nat /\ restarts \in Nat
        BY AccountOfEach DEF CheckTypes
    <2>2. /\ Cardinality(Checks) * (1 + restarts) = Cardinality(Checks) + Lost(restarts)
          /\ Lost(restarts) \in Nat
        BY <2>1, LostCounts
    <2>. QED  BY <2>1, <2>2, ClaimsAreCounted DEF Account
<1>. QED  BY <1>1, TypesHold, DeviationAccountHolds, PTL

-----------------------------------------------------------------------------
(* The checks and the requests together. *)

(* Checks only read the plans: the requests behave under them as they do alone,
   so that what is proved of RoutePlans holds while the checks run. *)
THEOREM ChecksOnlyRead == DeviationSpec => Spec
<1>1. DeviationInit => Init
    BY DEF DeviationInit
<1>2. [DeviationNext]_deviationVars => [Next]_vars
    <2> SUFFICES ASSUME [DeviationNext]_deviationVars PROVE [Next]_vars
        OBVIOUS
    <2>1. ASSUME NEW c \in Checks, CheckStep(c) \/ GetFails(c) \/ CallFails(c)
          PROVE  UNCHANGED planVars
        BY <2>1 DEF CheckStep, QueryRoute, GetCooldown, CreateAlert, SetCooldown,
                    GetFails, CallFails
    <2>2. \A c \in Checks, d \in Devices, off \in SUBSET Plans :
              StartCheck(c, d, off) => UNCHANGED planVars
        BY DEF StartCheck
    <2>3. Tick \/ UNCHANGED deviationVars => UNCHANGED planVars
        BY DEF Tick, deviationVars
    <2>4. ServiceStep => Next
        BY DEF ServiceStep
    <2>. QED  BY <2>1, <2>2, <2>3, <2>4 DEF DeviationNext, planVars
<1>. QED  BY <1>1, <1>2, PTL DEF DeviationSpec, Spec

(* At most as many plans of a device are ACTIVE, or about to be, as requests are
   in flight, also while checks and restarts go on. *)
THEOREM ClaimsWhileChecked == DeviationSpec => []ActivePlusClaims
BY ChecksOnlyRead, ClaimAccountHolds, PTL

(* Every variable keeps its shape, in every interleaving of requests and checks. *)
THEOREM DeviationTypesCorrect == DeviationSpec => []DeviationTypeOK
<1> DEFINE Bounded == cooldown \in [Plans -> 0..CooldownTTL] /\ faults \in 0..MaxFaults
<1>1. DeviationInit => Bounded
    BY DeviationAssumption DEF DeviationInit
<1>2. CheckTypes /\ Bounded /\ [DeviationNext]_deviationVars => Bounded'
    <2> SUFFICES ASSUME CheckTypes, Bounded, [DeviationNext]_deviationVars
                 PROVE  Bounded'
        OBVIOUS
    <2>0. CooldownTTL \in Nat /\ MaxFaults \in Nat
        BY DeviationAssumption
    <2>1. ASSUME NEW c \in Checks,
                 CheckStep(c) \/ GetFails(c) \/ CallFails(c)
                   \/ \E d \in Devices, off \in SUBSET Plans : StartCheck(c, d, off)
          PROVE  Bounded'
        BY <2>0, <2>1 DEF CheckStep, QueryRoute, GetCooldown, CreateAlert, SetCooldown,
                          GetFails, CallFails, StartCheck
    <2>2. CASE Tick
        <3>1. \A n \in 0..CooldownTTL : (IF n > 0 THEN n - 1 ELSE 0) \in 0..CooldownTTL
            BY <2>0
        <3>. QED  BY <2>2, <3>1 DEF Tick
    <2>3. ServiceStep \/ UNCHANGED deviationVars => Bounded'
        BY DEF ServiceStep, deviationVars
    <2>. QED  BY <2>1, <2>2, <2>3 DEF DeviationNext
<1>3. CheckTypes /\ Bounded /\ TypeOK => DeviationTypeOK
    BY DEF CheckTypes, DeviationTypeOK
<1>. QED  BY <1>1, <1>2, <1>3, TypesHold, ChecksOnlyRead, TypeCorrect, PTL
          DEF DeviationSpec

-----------------------------------------------------------------------------
(* What a check can overlook. *)

\* The history of the check k: a plan monitored all along is monitored now, a
\* plan monitored now was met, and so was the plan it has judged.
Watching(k) ==
    /\ k.call = "query" => /\ k.kept \subseteq Monitored(k.dev)
                           /\ Monitored(k.dev) \subseteq k.met
    /\ k.call = "getCooldown" => k.plan \in k.met

WatchSoFar == \A c \in Checks : Watching(chk[c])

\* Watching reads only the plans and the check: it stays while both do.
LEMMA WatchingStays ==
    ASSUME plan' = plan, NEW k, Watching(k)
    PROVE  /\ k.call = "query" => /\ k.kept \subseteq Monitored(k.dev)'
                                  /\ Monitored(k.dev)' \subseteq k.met
           /\ k.call = "getCooldown" => k.plan \in k.met
BY DEF Watching, Monitored

\* A check that moves on from its query judges the newest plan of the device.
LEMMA Judged ==
    ASSUME CheckTypes, NEW c \in Checks, QueryRoute(c)
    PROVE  \/ /\ Monitored(chk[c].dev) = {}
              /\ chk'[c].call = "idle"
           \/ \E p \in Monitored(chk[c].dev) :
                 \/ p \notin chk[c].off /\ chk'[c].call = "idle"
                 \/ /\ p \in chk[c].off
                    /\ chk'[c].call = "getCooldown"
                    /\ chk'[c].plan = p
                    /\ chk'[c].met = chk[c].met
<1>1. CheckGoTo(c, "idle") => chk'[c].call = "idle"
    BY Going DEF CheckCalls
<1>2. ASSUME NEW p \in Monitored(chk[c].dev), p \in chk[c].off, Judge(c, p)
      PROVE  /\ chk'[c].call = "getCooldown"
             /\ chk'[c].plan = p
             /\ chk'[c].met = chk[c].met
    <2>1. chk \in [Checks -> Check]
        BY DEF CheckTypes
    <2>. QED  BY <1>2, <2>1 DEF Judge, Check
<1>3. \A p \in Newest(Monitored(chk[c].dev)) : p \in Monitored(chk[c].dev)
    BY DEF Newest
<1>. QED  BY <1>1, <1>2, <1>3 DEF QueryRoute, Judge

\* A step of the service takes from kept what is no longer monitored, and adds
\* to met what is.
LEMMA ServiceKeepsWatch ==
    ASSUME CheckTypes, ServiceStep, restarts' = restarts, NEW c \in Checks,
           ~CheckAt(c, "idle"), Watching(chk[c])
    PROVE  Watching(chk[c])'
<1>1. chk[c] \in Check /\ chk[c].dev \in Devices
    BY DEF CheckTypes
<1>2. PICK now : now = [d \in Devices |-> Monitored(d)']
    OBVIOUS
<1>3. PICK dev \in Devices : dev = chk[c].dev
    BY <1>1
<1>4. chk'[c] = [chk[c] EXCEPT !.kept = @ \cap now[dev], !.met = @ \cup now[dev]]
    BY <1>2, <1>3 DEF ServiceStep
<1>5. /\ chk'[c].kept = chk[c].kept \cap now[dev]
      /\ chk'[c].met = chk[c].met \cup now[dev]
      /\ chk'[c].call = chk[c].call /\ chk'[c].plan = chk[c].plan
      /\ chk'[c].dev = dev
    BY <1>1, <1>3, <1>4 DEF Check
<1>6. now[dev] = Monitored(dev)'
    BY <1>2
<1>7. Monitored(chk[c].dev)' = Monitored(dev)'
    BY <1>5 DEF Monitored
<1>. QED  BY <1>5, <1>6, <1>7 DEF Watching

\* A step of one check keeps its own history.
LEMMA CheckKeepsWatch ==
    ASSUME CheckTypes, NEW c \in Checks, Watching(chk[c]), plan' = plan,
           CheckStep(c) \/ GetFails(c) \/ CallFails(c)
    PROVE  Watching(chk[c])'
<1>1. CASE QueryRoute(c)
    <2>1. chk[c].call = "query"
        BY <1>1, CheckMoves
    <2>2. CASE chk'[c].call = "idle"
        BY <2>2 DEF Watching
    <2>3. CASE /\ chk'[c].call = "getCooldown"
               /\ chk'[c].plan \in Monitored(chk[c].dev)
               /\ chk'[c].met = chk[c].met
        BY <2>1, <2>3 DEF Watching
    <2>. QED  BY <1>1, <2>2, <2>3, Judged
<1>2. CASE chk'[c].call \in {"idle", "create", "setCooldown"}
    BY <1>2 DEF Watching
<1>3. ~QueryRoute(c) => chk'[c].call \in {"idle", "create", "setCooldown"}
    BY CheckMoves DEF CheckStep
<1>. QED  BY <1>1, <1>2, <1>3

LEMMA WatchedSoFar == DeviationSpec => []WatchSoFar
<1>1. DeviationInit => WatchSoFar
    <2>1. Idle.call = "idle"
        BY DEF Idle
    <2>. QED  BY <2>1 DEF DeviationInit, WatchSoFar, Watching
<1>2. CheckTypes /\ WatchSoFar /\ [DeviationNext]_deviationVars => WatchSoFar'
    <2> SUFFICES ASSUME CheckTypes, WatchSoFar, [DeviationNext]_deviationVars,
                        NEW k \in Checks
                 PROVE  Watching(chk[k])'
        BY DEF WatchSoFar
    <2>0. Watching(chk[k])
        BY DEF WatchSoFar
    \* A check that stands still, over plans that do.
    <2>a. ASSUME plan' = plan, chk'[k] = chk[k]
          PROVE  Watching(chk[k])'
        BY <2>0, <2>a DEF Watching, Monitored
    <2>1. ASSUME NEW c \in Checks, NEW d \in Devices, NEW off \in SUBSET Plans,
                 StartCheck(c, d, off)
          PROVE  Watching(chk[k])'
        <3>1. plan' = plan
            BY <2>1 DEF StartCheck, planVars, vars
        <3>2. CASE k = c
            <4>1. PICK S : S = Monitored(d)
                OBVIOUS
            <4>2. chk'[c] = [call |-> "query", dev |-> d, off |-> off, plan |-> "none",
                             kept |-> S, met |-> S]
                BY <2>1, <4>1 DEF StartCheck, CheckTypes
            <4>3. /\ chk'[c].call = "query" /\ chk'[c].dev = d
                  /\ chk'[c].kept = S /\ chk'[c].met = S
                BY <4>2
            <4>4. Monitored(chk[c].dev)' = S
                BY <3>1, <4>1, <4>3 DEF Monitored
            <4>. QED  BY <3>2, <4>3, <4>4 DEF Watching
        <3>3. CASE k # c
            BY <2>1, <2>a, <3>1, <3>3, CheckMoves
        <3>. QED  BY <3>2, <3>3
    <2>2. ASSUME NEW c \in Checks, CheckStep(c) \/ GetFails(c) \/ CallFails(c)
          PROVE  Watching(chk[k])'
        <3>1. plan' = plan
            BY <2>2 DEF CheckStep, QueryRoute, GetCooldown, CreateAlert, SetCooldown,
                        GetFails, CallFails, planVars, vars
        <3>2. k # c => chk'[k] = chk[k]
            BY <2>2, CheckMoves
        <3>. QED  BY <2>0, <2>2, <2>a, <3>1, <3>2, CheckKeepsWatch
    <2>3. CASE Tick \/ UNCHANGED deviationVars
        BY <2>3, <2>a DEF Tick, deviationVars, planVars, vars
    <2>4. CASE ServiceStep
        <3>1. CASE chk'[k].call = "idle"
            BY <3>1 DEF Watching
        <3>2. CASE restarts' = restarts /\ ~CheckAt(k, "idle")
            BY <2>0, <2>4, <3>2, ServiceKeepsWatch
        <3>. QED  BY <2>4, <3>1, <3>2, ServiceMoves DEF CheckAt
    <2>. QED  BY <2>1, <2>2, <2>3, <2>4 DEF DeviationNext
<1>. QED  BY <1>1, <1>2, TypesHold, PTL DEF DeviationSpec

(* An active route is watched: a check overlooks a plan only among several that
   were monitored while it ran, and drops one it judged only for its cooldown. *)
THEOREM RoutesAreWatched == DeviationSpec => ActiveRouteIsWatched
<1> DEFINE Overlooks(c, p) ==
              /\ chk[c].call \in {"query", "getCooldown"}
              /\ chk'[c].call = "idle"
              /\ faults' = faults /\ restarts' = restarts
              /\ p \in chk[c].kept \cap chk[c].off
              /\ chk[c].met = {p}
              /\ ~(cooldown[p] > 0)
<1>1. CheckTypes /\ WatchSoFar /\ [DeviationNext]_deviationVars =>
          \A c \in Checks : \A p : ~Overlooks(c, p)
    <2> SUFFICES ASSUME CheckTypes, WatchSoFar, [DeviationNext]_deviationVars,
                        NEW c \in Checks, NEW p, Overlooks(c, p)
                 PROVE  FALSE
        OBVIOUS
    <2>0. /\ Watching(chk[c])
          /\ chk[c].call # "idle"
        BY DEF WatchSoFar
    \* Only a step of the check itself ends it.
    <2>1. ~(UNCHANGED chk)
        BY <2>0
    <2>2. \A b \in Checks, d \in Devices, off \in SUBSET Plans : ~StartCheck(b, d, off)
        BY <2>0, CheckMoves
    <2>3. ~ServiceStep
        <3>1. restarts \in Nat
            BY DEF CheckTypes
        <3>. QED  BY <2>0, <3>1, ServiceMoves
    <2>4. \A b \in Checks : ~GetFails(b) /\ ~CallFails(b)
        <3>1. faults \in Nat
            BY DEF CheckTypes
        <3>. QED  BY <3>1 DEF GetFails, CallFails
    <2>5. PICK b \in Checks : CheckStep(b)
        BY <2>1, <2>2, <2>3, <2>4 DEF DeviationNext, Tick, deviationVars
    <2>6. b = c
        BY <2>0, <2>5, CheckMoves
    <2>7. CASE QueryRoute(c)
        <3>1. chk[c].call = "query"
            BY <2>7, CheckMoves
        <3>2. p \in Monitored(chk[c].dev) /\ Monitored(chk[c].dev) \subseteq {p}
            BY <2>0, <3>1 DEF Watching
        <3>. QED  BY <2>7, <3>2, Judged
    <2>8. CASE GetCooldown(c)
        <3>1. chk[c].call = "getCooldown" /\ cooldown[chk[c].plan] > 0
            BY <2>8, CheckMoves
        <3>2. chk[c].plan = p
            BY <2>0, <3>1 DEF Watching
        <3>. QED  BY <3>1, <3>2
    <2>. QED  BY <2>5, <2>6, <2>7, <2>8, CheckMoves DEF CheckStep
<1>2. CheckTypes /\ WatchSoFar /\ [DeviationNext]_deviationVars =>
          [\A c \in Checks :
              (/\ chk[c].call \in {"query", "getCooldown"}
               /\ chk'[c].call = "idle"
               /\ faults' = faults /\ restarts' = restarts) =>
                  \A p \in chk[c].kept \cap chk[c].off :
                      chk[c].met = {p} => cooldown[p] > 0]_deviationVars
    BY <1>1
<1>. QED  BY <1>2, TypesHold, WatchedSoFar, PTL DEF DeviationSpec, ActiveRouteIsWatched
=============================================================================
