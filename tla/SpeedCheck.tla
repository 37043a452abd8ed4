----------------------------- MODULE SpeedCheck -----------------------------
(***************************************************************************)
(* TelemetryConsumer.checkSpeedViolation: the speeding check of one point.  *)
(* handleBatch starts it without awaiting it, so several checks of a device *)
(* run at once, each a chain of awaited calls to Redis and PostgreSQL.      *)
(*                                                                         *)
(* Redis keys carry the time they have left: 0 is an absent key.            *)
(***************************************************************************)
EXTENDS Naturals, FiniteSets

CONSTANTS
    Trackers,
    Checks,        \* slots: how many checks may be in flight at once
    Speeds,        \* speeds a point may report
    Limits,        \* values of device.speedLimitKmh, 0 when there is none
    CooldownTTL,   \* SPEEDING_COOLDOWN_SECONDS, in ticks
    CacheTTL,      \* the 300 seconds of device:limit:<id>, in ticks
    MaxUpdates,    \* bound: changes of a device's limit
    MaxFaults      \* bound: failed calls to Redis or PostgreSQL

ASSUME SpeedAssumption ==
    /\ IsFiniteSet(Trackers)
    /\ IsFiniteSet(Checks)
    /\ Speeds \subseteq Nat
    /\ Limits \subseteq Nat
    /\ 0 \in Limits
    /\ CooldownTTL \in Nat \ {0}
    /\ CacheTTL \in Nat \ {0}
    /\ MaxUpdates \in Nat
    /\ MaxFaults \in Nat

VARIABLES
    limit,      \* limit[d]: devices.speed_limit_kmh
    cache,      \* cache[d]: the key device:limit:<d>
    cooldown,   \* cooldown[d]: time left of the key speeding:<d>
    chk,        \* chk[c]: the check in slot c
    cycle,      \* cycle[d]: SPEEDING alerts created in the current cooldown cycle
    updates, faults

speedVars == <<limit, cache, cooldown, chk, cycle, updates, faults>>

-----------------------------------------------------------------------------
\* The call a check is about to make.
Calls == {"idle", "getLimit", "findDevice", "cacheLimit", "getCooldown",
          "create", "setCooldown"}

Check == [call : Calls, dev : Trackers, speed : Speeds, limit : Limits]
CacheEntry == [value : Limits, left : 0..CacheTTL]

At(c, k) == chk[c].call = k
GoTo(c, k) == chk' = [chk EXCEPT ![c].call = k]

\* Checks that have created an alert and not yet set its cooldown.
Alerting(d) == {c \in Checks : At(c, "setCooldown") /\ chk[c].dev = d}

\* Checks that found no cooldown and are about to create an alert.
Admitted(d) == {c \in Checks : At(c, "create") /\ chk[c].dev = d}

SpeedInit ==
    /\ limit \in [Trackers -> Limits]
    /\ cache = [d \in Trackers |-> [value |-> 0, left |-> 0]]
    /\ cooldown = [d \in Trackers |-> 0]
    /\ \E d \in Trackers, s \in Speeds :
          chk = [c \in Checks |-> [call |-> "idle", dev |-> d, speed |-> s, limit |-> 0]]
    /\ cycle = [d \in Trackers |-> 0]
    /\ updates = 0
    /\ faults = 0

-----------------------------------------------------------------------------
\* runAsyncChecks starts a check; a point that does not move is ignored.
StartCheck(c, d, s) ==
    /\ At(c, "idle")
    /\ s > 0
    /\ chk' = [chk EXCEPT ![c] = [call |-> "getLimit", dev |-> d, speed |-> s, limit |-> 0]]
    /\ UNCHANGED <<limit, cache, cooldown, cycle, updates, faults>>

\* `!speedLimitKmh || payload.speed <= speedLimitKmh` returns.
Judge(c, l) ==
    chk' = [chk EXCEPT ![c].limit = l,
                       ![c].call = IF l = 0 \/ chk[c].speed <= l
                                   THEN "idle" ELSE "getCooldown"]

\* Mutant of GetLimit: every hit renews the cached limit.
GetLimitSliding(c) ==
    LET entry == cache[chk[c].dev] IN
    /\ At(c, "getLimit")
    /\ IF entry.left > 0 THEN Judge(c, entry.value) ELSE GoTo(c, "findDevice")
    /\ cache' = IF entry.left > 0
                THEN [cache EXCEPT ![chk[c].dev].left = CacheTTL] ELSE cache
    /\ UNCHANGED <<limit, cooldown, cycle, updates, faults>>

\* redisService.get of the cached limit.
GetLimit(c) ==
    LET entry == cache[chk[c].dev] IN
    /\ At(c, "getLimit")
    /\ IF entry.left > 0 THEN Judge(c, entry.value) ELSE GoTo(c, "findDevice")
    /\ UNCHANGED <<limit, cache, cooldown, cycle, updates, faults>>

\* devicesService.findOne reads the limit, `|| 0` when it is null.
FindDevice(c) ==
    /\ At(c, "findDevice")
    /\ chk' = [chk EXCEPT ![c].limit = limit[chk[c].dev], ![c].call = "cacheLimit"]
    /\ UNCHANGED <<limit, cache, cooldown, cycle, updates, faults>>

\* setex of the limit just read, then the comparison with the speed.
CacheLimit(c) ==
    /\ At(c, "cacheLimit")
    /\ cache' = [cache EXCEPT ![chk[c].dev] = [value |-> chk[c].limit, left |-> CacheTTL]]
    /\ Judge(c, chk[c].limit)
    /\ UNCHANGED <<limit, cooldown, cycle, updates, faults>>

\* redisService.get of the cooldown key; a live key ends the check.
GetCooldown(c) ==
    /\ At(c, "getCooldown")
    /\ GoTo(c, IF cooldown[chk[c].dev] > 0 THEN "idle" ELSE "create")
    /\ UNCHANGED <<limit, cache, cooldown, cycle, updates, faults>>

\* alertsService.create.
CreateAlert(c) ==
    /\ At(c, "create")
    /\ cycle' = [cycle EXCEPT ![chk[c].dev] = @ + 1]
    /\ GoTo(c, "setCooldown")
    /\ UNCHANGED <<limit, cache, cooldown, updates, faults>>

\* Mutant of SetCooldown: the key is never set.
SetCooldownNot(c) ==
    /\ At(c, "setCooldown")
    /\ GoTo(c, "idle")
    /\ UNCHANGED <<limit, cache, cooldown, cycle, updates, faults>>

\* setex of the cooldown key, after the alert.
SetCooldown(c) ==
    /\ At(c, "setCooldown")
    /\ cooldown' = [cooldown EXCEPT ![chk[c].dev] = CooldownTTL]
    /\ GoTo(c, "idle")
    /\ UNCHANGED <<limit, cache, cycle, updates, faults>>

-----------------------------------------------------------------------------
\* RedisService.get swallows errors and answers null, as if there were no key.
GetFails(c) ==
    /\ At(c, "getLimit") \/ At(c, "getCooldown")
    /\ faults < MaxFaults
    /\ faults' = faults + 1
    /\ GoTo(c, IF At(c, "getLimit") THEN "findDevice" ELSE "create")
    /\ UNCHANGED <<limit, cache, cooldown, cycle, updates>>

\* Every other call throws; the catch block logs and the check is over.
CallFails(c) ==
    /\ chk[c].call \in {"findDevice", "cacheLimit", "create", "setCooldown"}
    /\ faults < MaxFaults
    /\ faults' = faults + 1
    /\ GoTo(c, "idle")
    /\ UNCHANGED <<limit, cache, cooldown, cycle, updates>>

\* DevicesService.update changes the limit and leaves the cached one alone.
UpdateLimit(d, l) ==
    /\ updates < MaxUpdates
    /\ l # limit[d]
    /\ updates' = updates + 1
    /\ limit' = [limit EXCEPT ![d] = l]
    /\ UNCHANGED <<cache, cooldown, chk, cycle, faults>>

\* Time passes and Redis (external) expires keys.  When a cooldown key goes,
\* its cycle is over; alerts whose own setex is still to come open the next.
Tick ==
    /\ \E d \in Trackers : cooldown[d] > 0 \/ cache[d].left > 0
    /\ cooldown' = [d \in Trackers |-> IF cooldown[d] > 0 THEN cooldown[d] - 1 ELSE 0]
    /\ cache' = [d \in Trackers |->
                   [cache[d] EXCEPT !.left = IF @ > 0 THEN @ - 1 ELSE 0]]
    /\ cycle' = [d \in Trackers |->
                   IF cooldown[d] = 1 THEN Cardinality(Alerting(d)) ELSE cycle[d]]
    /\ UNCHANGED <<limit, chk, updates, faults>>

CheckStep(c) ==
    \/ GetLimit(c) \/ FindDevice(c) \/ CacheLimit(c)
    \/ GetCooldown(c) \/ CreateAlert(c) \/ SetCooldown(c)

SpeedNext ==
    \/ \E c \in Checks, d \in Trackers, s \in Speeds : StartCheck(c, d, s)
    \/ \E c \in Checks : CheckStep(c) \/ GetFails(c) \/ CallFails(c)
    \/ \E d \in Trackers, l \in Limits : UpdateLimit(d, l)
    \/ Tick

\* Awaited calls settle and time passes; points need not keep coming.
SpeedFairness ==
    /\ \A c \in Checks : WF_speedVars(CheckStep(c))
    /\ WF_speedVars(Tick)

SpeedSpec == SpeedInit /\ [][SpeedNext]_speedVars
SpeedFairSpec == SpeedSpec /\ SpeedFairness

-----------------------------------------------------------------------------
\* Every variable keeps its shape.
SpeedTypeOK ==
    /\ limit \in [Trackers -> Limits]
    /\ cache \in [Trackers -> CacheEntry]
    /\ cooldown \in [Trackers -> 0..CooldownTTL]
    /\ chk \in [Checks -> Check]
    /\ cycle \in [Trackers -> Nat]
    /\ updates \in 0..MaxUpdates
    /\ faults \in 0..MaxFaults

(* What the cooldown really limits: in one cooldown cycle a device gets at
   most one alert per check in flight, plus one per failed Redis call.  With
   one check at a time and no fault it is the single alert the comment of
   checkSpeedViolation promises. *)
AlertsPerCycleBounded ==
    \A d \in Trackers : cycle[d] <= Cardinality(Checks) + faults

(* The inductive form: while the key lives, every admitted check may still add
   an alert; while it does not, the cycle's alerts are those about to set it. *)
CycleAccount ==
    \A d \in Trackers :
        IF cooldown[d] > 0
        THEN cycle[d] + Cardinality(Admitted(d)) <= Cardinality(Checks) + faults
        ELSE cycle[d] <= Cardinality(Alerting(d)) + faults

(* A point is never held back by a cooldown no alert stands behind: a live
   speeding:<id> key means an alert of the current cycle was created, even
   when calls fail between the alert and the key. *)
CooldownHasAnAlert ==
    \A d \in Trackers : cooldown[d] > 0 => cycle[d] > 0

(* Changing a device's limit takes effect although update does not touch the
   cache: once the limit stops changing, the checks end up using it. *)
LimitTakesEffect ==
    \A d \in Trackers, l \in Limits :
        <>[](limit[d] = l) => <>[](cache[d].left > 0 => cache[d].value = l)

(* The comment of checkSpeedViolation: at most one alert per cooldown cycle. *)
OneAlertPerCycle ==
    \A d \in Trackers : cycle[d] <= 1
=============================================================================
