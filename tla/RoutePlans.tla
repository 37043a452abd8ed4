----------------------------- MODULE RoutePlans -----------------------------
(***************************************************************************)
(* RoutePlansService: the life cycle of route plans (route_plans table)     *)
(* under HTTP requests that run concurrently.  A request is a chain of      *)
(* separate database calls with an await between them and no transaction,   *)
(* so requests interleave at every call.                                    *)
(*                                                                         *)
(* A request refused by findOne (unknown or deleted plan, foreign owner) or *)
(* by the routing provider changes nothing and is not a step.               *)
(***************************************************************************)
EXTENDS Naturals, FiniteSets

CONSTANTS
    Plans,        \* plan ids create may hand out
    Devices,
    DeviceOf,     \* DeviceOf[p]: the device plan p is created for
    Requests,     \* request slots: how many requests may be in flight
    MaxRequests,  \* bound: requests served in a run
    MaxRestarts   \* bound: restarts of the backend

ASSUME ConstantsAssumption ==
    /\ IsFiniteSet(Plans)
    /\ IsFiniteSet(Requests)
    /\ DeviceOf \in [Plans -> Devices]
    /\ MaxRequests \in Nat
    /\ MaxRestarts \in Nat

VARIABLES
    plan,      \* the rows of route_plans
    req,       \* req[r]: what the request in slot r does next
    clock,     \* new Date(), as a counter of activations
    issued,    \* requests served so far
    restarts

vars == <<plan, req, clock, issued, restarts>>

-----------------------------------------------------------------------------
RoutePlanStatus == {"PLANNED", "ACTIVE", "COMPLETED", "CANCELLED"}
Terminal == {"COMPLETED", "CANCELLED"}

\* activatedAt 0 and completed FALSE stand for SQL NULL; "none" is no row.
Plan == [status : RoutePlanStatus \cup {"none"}, activatedAt : Nat,
         completed : BOOLEAN, geom : BOOLEAN, deleted : BOOLEAN]

NoPlan == [status |-> "none", activatedAt |-> 0, completed |-> FALSE,
           geom |-> FALSE, deleted |-> FALSE]

\* The database call a request is about to make.
Calls == {"save", "geom", "cancelOthers", "setActive", "complete", "cancel", "remove"}

Request == [call : Calls \cup {"idle"}, plan : Plans]

\* repository.findOne sees the row: it exists and is not soft-deleted.
Visible(p) == plan[p].status # "none" /\ ~plan[p].deleted

Active(d) == {p \in Plans : DeviceOf[p] = d /\ plan[p].status = "ACTIVE"}

Free(r) == req[r].call = "idle"

Init ==
    /\ plan = [p \in Plans |-> NoPlan]
    /\ req \in [Requests -> {[call |-> "idle", plan |-> p] : p \in Plans}]
    /\ \A r, s \in Requests : req[r] = req[s]
    /\ clock = 0
    /\ issued = 0
    /\ restarts = 0

-----------------------------------------------------------------------------
\* A request occupies slot r and stops before database call c on plan p.
Begin(r, c, p) ==
    /\ Free(r)
    /\ issued < MaxRequests
    /\ issued' = issued + 1
    /\ req' = [req EXCEPT ![r] = [call |-> c, plan |-> p]]

At(r, c) == req[r].call = c

GoTo(r, c) == req' = [req EXCEPT ![r].call = c]

\* UPDATE route_plans ... WHERE id = the request's plan.
Update(r, row) == plan' = [plan EXCEPT ![req[r].plan] = row]

(* create: device and route were found; INSERT a PLANNED row, then write geom
   with a second statement, because TypeORM cannot map geometry. *)
CreateBegin(r, p) ==
    /\ plan[p].status = "none"
    /\ \A s \in Requests : req[s].plan = p => ~At(s, "save")
    /\ Begin(r, "save", p)
    /\ UNCHANGED <<plan, clock, restarts>>

CreateSave(r) ==
    /\ At(r, "save")
    /\ Update(r, [NoPlan EXCEPT !.status = "PLANNED"])
    /\ GoTo(r, "geom")
    /\ UNCHANGED <<clock, issued, restarts>>

CreateGeom(r) ==
    /\ At(r, "geom")
    /\ Update(r, [plan[req[r].plan] EXCEPT !.geom = TRUE])
    /\ GoTo(r, "idle")
    /\ UNCHANGED <<clock, issued, restarts>>

(* activate: findOne, the status guard, cancel every ACTIVE plan of the device
   (soft-deleted ones too), then make this one ACTIVE whatever it is by now. *)
ActivateBegin(r, p) ==
    /\ Visible(p)
    /\ plan[p].status \notin Terminal
    /\ Begin(r, "cancelOthers", p)
    /\ UNCHANGED <<plan, clock, restarts>>

\* Mutant of ActivateCancelOthers: the newest activation is spared.
ActivateCancelOlder(r) ==
    /\ At(r, "cancelOthers")
    /\ plan' = [p \in Plans |->
                  IF p \in Active(DeviceOf[req[r].plan]) /\ plan[p].activatedAt < clock
                  THEN [plan[p] EXCEPT !.status = "CANCELLED", !.completed = TRUE]
                  ELSE plan[p]]
    /\ GoTo(r, "setActive")
    /\ UNCHANGED <<clock, issued, restarts>>

ActivateCancelOthers(r) ==
    /\ At(r, "cancelOthers")
    /\ plan' = [p \in Plans |->
                  IF p \in Active(DeviceOf[req[r].plan])
                  THEN [plan[p] EXCEPT !.status = "CANCELLED", !.completed = TRUE]
                  ELSE plan[p]]
    /\ GoTo(r, "setActive")
    /\ UNCHANGED <<clock, issued, restarts>>

ActivateSet(r) ==
    /\ At(r, "setActive")
    /\ clock' = clock + 1
    /\ Update(r, [plan[req[r].plan] EXCEPT !.status = "ACTIVE",
                                           !.activatedAt = clock + 1,
                                           !.completed = FALSE])
    /\ GoTo(r, "idle")
    /\ UNCHANGED <<issued, restarts>>

(* complete and cancel: findOne for existence and ownership only. *)
CompleteBegin(r, p) ==
    /\ Visible(p)
    /\ Begin(r, "complete", p)
    /\ UNCHANGED <<plan, clock, restarts>>

Complete(r) ==
    /\ At(r, "complete")
    /\ Update(r, [plan[req[r].plan] EXCEPT !.status = "COMPLETED", !.completed = TRUE])
    /\ GoTo(r, "idle")
    /\ UNCHANGED <<clock, issued, restarts>>

CancelBegin(r, p) ==
    /\ Visible(p)
    /\ Begin(r, "cancel", p)
    /\ UNCHANGED <<plan, clock, restarts>>

Cancel(r) ==
    /\ At(r, "cancel")
    /\ Update(r, [plan[req[r].plan] EXCEPT !.status = "CANCELLED", !.completed = TRUE])
    /\ GoTo(r, "idle")
    /\ UNCHANGED <<clock, issued, restarts>>

(* remove: findOne, then softDelete. *)
RemoveBegin(r, p) ==
    /\ Visible(p)
    /\ Begin(r, "remove", p)
    /\ UNCHANGED <<plan, clock, restarts>>

Remove(r) ==
    /\ At(r, "remove")
    /\ Update(r, [plan[req[r].plan] EXCEPT !.deleted = TRUE])
    /\ GoTo(r, "idle")
    /\ UNCHANGED <<clock, issued, restarts>>

(* The backend stops and boots: requests in flight die where they are.
   TelemetryService.onModuleInit runs DROP EXTENSION postgis CASCADE, which
   takes the geom column of route_plans with it, and adds the column back
   empty; where the database role may not drop extensions, the error is
   logged and the column stays. *)
Restart ==
    /\ restarts < MaxRestarts
    /\ restarts' = restarts + 1
    /\ req' = [r \in Requests |-> [req[r] EXCEPT !.call = "idle"]]
    /\ \/ plan' = [p \in Plans |-> [plan[p] EXCEPT !.geom = FALSE]]
       \/ UNCHANGED plan
    /\ UNCHANGED <<clock, issued>>

RequestStep(r) ==
    \/ CreateSave(r) \/ CreateGeom(r)
    \/ ActivateCancelOthers(r) \/ ActivateSet(r)
    \/ Complete(r) \/ Cancel(r) \/ Remove(r)

RequestBegin(r, p) ==
    \/ CreateBegin(r, p) \/ ActivateBegin(r, p) \/ CompleteBegin(r, p)
    \/ CancelBegin(r, p) \/ RemoveBegin(r, p)

Next ==
    \/ \E r \in Requests, p \in Plans : RequestBegin(r, p)
    \/ \E r \in Requests : RequestStep(r)
    \/ Restart

Spec == Init /\ [][Next]_vars

-----------------------------------------------------------------------------
\* Every variable keeps its shape.
TypeOK ==
    /\ plan \in [Plans -> Plan]
    /\ req \in [Requests -> Request]
    /\ clock \in Nat
    /\ issued \in Nat
    /\ restarts \in Nat

(* However many activations race, a device never has more ACTIVE plans than
   there are requests in flight at once.  With one request at a time this is
   the service's business rule. *)
ActiveBoundedByRequests ==
    \A d \in Devices : Cardinality(Active(d)) <= Cardinality(Requests)

(* The inductive form: a request that has cancelled the other plans holds a
   claim to one more ACTIVE plan of its device. *)
Claims(d) == {r \in Requests : At(r, "setActive") /\ DeviceOf[req[r].plan] = d}

ActivePlusClaims ==
    \A d \in Devices :
        Cardinality(Active(d)) + Cardinality(Claims(d)) <= Cardinality(Requests)

(* activate's rule as its comment states it: a device has at most one ACTIVE
   plan at a time. *)
OneActivePerDevice ==
    \A d \in Devices : Cardinality(Active(d)) <= 1
=============================================================================
