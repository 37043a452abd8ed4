--------------------------- MODULE RouteDeviation ---------------------------
(***************************************************************************)
(* RouteDeviationService.checkDeviation, started un-awaited for every       *)
(* stored point (TelemetryConsumer.runAsyncChecks), while the requests of   *)
(* RoutePlans change the plans it reads.                                    *)
(***************************************************************************)
EXTENDS RoutePlans

CONSTANTS
    Checks,        \* slots: how many checks may be in flight at once
    CooldownTTL,   \* ROUTE_DEVIATION_COOLDOWN_SECONDS, in ticks
    MaxFaults      \* bound: failed calls of checks to Redis or PostgreSQL

ASSUME DeviationAssumption ==
    /\ IsFiniteSet(Checks)
    /\ CooldownTTL \in Nat \ {0}
    /\ MaxFaults \in Nat

VARIABLES
    chk,        \* chk[c]: the check in slot c
    cooldown,   \* cooldown[p]: time left of the key trajectory_deviation:<device>:<p>
    cycle,      \* cycle[p]: alerts about plan p in its current cooldown cycle
    faults

planVars == vars
deviationVars == <<planVars, chk, cooldown, cycle, faults>>

-----------------------------------------------------------------------------
CheckCalls == {"idle", "query", "getCooldown", "create", "setCooldown"}

\* off: the plans whose route the point is farther away from than their
\* threshold.  kept, met: the plans that were monitored all the time, or at
\* some time, since the check began.
Check == [call : CheckCalls, dev : Devices \cup {"none"}, off : SUBSET Plans,
          plan : Plans \cup {"none"}, kept : SUBSET Plans, met : SUBSET Plans]

Idle == [call |-> "idle", dev |-> "none", off |-> {}, plan |-> "none",
         kept |-> {}, met |-> {}]

CheckAt(c, k) == chk[c].call = k
CheckGoTo(c, k) == chk' = [chk EXCEPT ![c] = IF k = "idle" THEN Idle ELSE [@ EXCEPT !.call = k]]

\* The rows the query of checkDeviation may return.
Monitored(d) ==
    {p \in Plans : /\ DeviceOf[p] = d
                   /\ plan[p].status = "ACTIVE"
                   /\ ~plan[p].deleted
                   /\ plan[p].geom}

\* ORDER BY activated_at DESC LIMIT 1.
Newest(S) == {p \in S : \A q \in S : plan[q].activatedAt <= plan[p].activatedAt}

\* Checks with an alert whose cooldown they have not set yet.
Alerting(p) == {c \in Checks : CheckAt(c, "setCooldown") /\ chk[c].plan = p}

\* Checks that found no cooldown of p and are about to create an alert.
Admitted(p) == {c \in Checks : CheckAt(c, "create") /\ chk[c].plan = p}

DeviationInit ==
    /\ Init
    /\ chk = [c \in Checks |-> Idle]
    /\ cooldown = [p \in Plans |-> 0]
    /\ cycle = [p \in Plans |-> 0]
    /\ faults = 0

-----------------------------------------------------------------------------
\* The check of a point that is off the routes in `off'.
StartCheck(c, d, off) ==
    /\ CheckAt(c, "idle")
    /\ chk' = [chk EXCEPT ![c] = [call |-> "query", dev |-> d, off |-> off,
                                  plan |-> "none",
                                  kept |-> Monitored(d), met |-> Monitored(d)]]
    /\ UNCHANGED <<planVars, cooldown, cycle, faults>>

\* The distance decides: on the route, the check is over.
Judge(c, p) ==
    IF p \in chk[c].off
    THEN chk' = [chk EXCEPT ![c].plan = p, ![c].call = "getCooldown"]
    ELSE CheckGoTo(c, "idle")

\* The query: the newest ACTIVE plan of the device, and the distance to it.
QueryRoute(c) ==
    LET S == Monitored(chk[c].dev) IN
    /\ CheckAt(c, "query")
    /\ \/ S = {} /\ CheckGoTo(c, "idle")
       \/ \E p \in Newest(S) : Judge(c, p)
    /\ UNCHANGED <<planVars, cooldown, cycle, faults>>

\* Mutant of GetCooldown: one key for all plans of a device.
GetCooldownShared(c) ==
    /\ CheckAt(c, "getCooldown")
    /\ CheckGoTo(c, IF \E p \in Plans : DeviceOf[p] = chk[c].dev /\ cooldown[p] > 0
               THEN "idle" ELSE "create")
    /\ UNCHANGED <<planVars, cooldown, cycle, faults>>

\* redisService.get of the plan's key; a live key ends the check.
GetCooldown(c) ==
    /\ CheckAt(c, "getCooldown")
    /\ CheckGoTo(c, IF cooldown[chk[c].plan] > 0 THEN "idle" ELSE "create")
    /\ UNCHANGED <<planVars, cooldown, cycle, faults>>

\* alertsService.create of a TRAJECTORY_DEVIATION.
CreateAlert(c) ==
    /\ CheckAt(c, "create")
    /\ cycle' = [cycle EXCEPT ![chk[c].plan] = @ + 1]
    /\ CheckGoTo(c, "setCooldown")
    /\ UNCHANGED <<planVars, cooldown, faults>>

\* Mutant of SetCooldown: the key written is not the one read.
SetCooldownElsewhere(c) ==
    /\ CheckAt(c, "setCooldown")
    /\ CheckGoTo(c, "idle")
    /\ UNCHANGED <<planVars, cooldown, cycle, faults>>

\* redisService.setex of the plan's key.
SetCooldown(c) ==
    /\ CheckAt(c, "setCooldown")
    /\ cooldown' = [cooldown EXCEPT ![chk[c].plan] = CooldownTTL]
    /\ CheckGoTo(c, "idle")
    /\ UNCHANGED <<planVars, cycle, faults>>

CheckStep(c) ==
    QueryRoute(c) \/ GetCooldown(c) \/ CreateAlert(c) \/ SetCooldown(c)

\* RedisService.get answers null on an error, as if there were no key.
GetFails(c) ==
    /\ CheckAt(c, "getCooldown")
    /\ faults < MaxFaults
    /\ faults' = faults + 1
    /\ CheckGoTo(c, "create")
    /\ UNCHANGED <<planVars, cooldown, cycle>>

\* The other calls throw; the catch logs and the check is over.
CallFails(c) ==
    /\ chk[c].call \in {"query", "create", "setCooldown"}
    /\ faults < MaxFaults
    /\ faults' = faults + 1
    /\ CheckGoTo(c, "idle")
    /\ UNCHANGED <<planVars, cooldown, cycle>>

\* Time passes; when a key expires (Redis, external) its cycle is over, and
\* alerts whose own setex is still to come open the next.
Tick ==
    /\ \E p \in Plans : cooldown[p] > 0
    /\ cooldown' = [p \in Plans |-> IF cooldown[p] > 0 THEN cooldown[p] - 1 ELSE 0]
    /\ cycle' = [p \in Plans |->
                   IF cooldown[p] = 1 THEN Cardinality(Alerting(p)) ELSE cycle[p]]
    /\ UNCHANGED <<planVars, chk, faults>>

\* A request of RoutePlans moves while checks are under way; a restart ends them.
ServiceStep ==
    /\ Next
    /\ LET now == [d \in Devices |-> Monitored(d)'] IN
       chk' = [c \in Checks |->
                 IF CheckAt(c, "idle") \/ restarts' # restarts THEN Idle
                 ELSE [chk[c] EXCEPT !.kept = @ \cap now[chk[c].dev],
                                     !.met = @ \cup now[chk[c].dev]]]
    /\ UNCHANGED <<cooldown, cycle, faults>>

DeviationNext ==
    \/ \E c \in Checks, d \in Devices, off \in SUBSET Plans : StartCheck(c, d, off)
    \/ \E c \in Checks : CheckStep(c) \/ GetFails(c) \/ CallFails(c)
    \/ Tick
    \/ ServiceStep

DeviationSpec == DeviationInit /\ [][DeviationNext]_deviationVars

-----------------------------------------------------------------------------
\* Every variable keeps its shape.
DeviationTypeOK ==
    /\ TypeOK
    /\ chk \in [Checks -> Check]
    /\ cooldown \in [Plans -> 0..CooldownTTL]
    /\ cycle \in [Plans -> Nat]
    /\ faults \in 0..MaxFaults

(* The comment of checkDeviation, one alert per plan and cooldown, as far as it
   goes: one per check in flight, once more for every restart that cuts checks
   off from their setex, and one per failed call. *)
DeviationsPerCycleBounded ==
    \A p \in Plans : cycle[p] <= Cardinality(Checks) * (1 + restarts) + faults

(* The inductive form: while the key lives, every admitted check may still add
   an alert; while it does not, the cycle's alerts are those about to set it
   and those that never will. *)
DeviationAccount ==
    \A p \in Plans :
        IF cooldown[p] > 0
        THEN cycle[p] + Cardinality(Admitted(p))
                <= Cardinality(Checks) * (1 + restarts) + faults
        ELSE cycle[p] <= Cardinality(Alerting(p)) + Cardinality(Checks) * restarts + faults

(* While a route is active every new point of the device is checked: a check
   that ends without an alert or a failure leaves a plan the point was off
   unanswered only by its cooldown, when the plan was monitored all along and
   was the only one: of two plans that activations raced to ACTIVE, one is
   looked at. *)
ActiveRouteIsWatched ==
    [][\A c \in Checks :
          (/\ chk[c].call \in {"query", "getCooldown"}
           /\ chk'[c].call = "idle"
           /\ faults' = faults /\ restarts' = restarts) =>
              \A p \in chk[c].kept \cap chk[c].off :
                  chk[c].met = {p} => cooldown[p] > 0]_deviationVars

=============================================================================
