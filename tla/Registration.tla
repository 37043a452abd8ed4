---------------------------- MODULE Registration ----------------------------
(***************************************************************************)
(* Signing up one e-mail address: UsersService.register, resend and         *)
(* verifyRegistration over three Redis keys (the pending session, the count *)
(* of wrong codes, the rate limit), the mail and the row in "user", which   *)
(* better-auth inserts unverified and an UPDATE then activates.  Each       *)
(* action is one awaited call; requests of the address may overlap.         *)
(***************************************************************************)
EXTENDS Integers, FiniteSets

CONSTANTS
    Requests,     \* requests served at the same time
    MaxAttempts,  \* wrong codes that end a session (5 in the code)
    MaxPerWindow, \* registrations and resends per window (5 in the code)
    Throttled,    \* the routes whose rate-limit guard is taken step by step; a
                  \* request of another route is one its guard has let through
    MaxPerRoute,  \* requests of a route per window of the guard (3 to 5 in the code)
    MaxCalls,     \* bound: requests in total
    MaxSignUps,   \* bound: sign-ups through the better-auth endpoint
    MaxFaults,    \* bound: failing Redis, database or mail calls
    MaxCrashes    \* bound: process crashes

ASSUME ConstantsAssumption ==
    /\ IsFiniteSet(Requests)
    /\ MaxAttempts \in Nat \ {0} /\ MaxPerWindow \in Nat \ {0}
    /\ Throttled \subseteq {"register", "resend", "verify"} /\ MaxPerRoute \in Nat \ {0}
    /\ MaxCalls \in Nat /\ MaxSignUps \in Nat /\ MaxFaults \in Nat /\ MaxCrashes \in Nat

VARIABLES
    pending,   \* the pending session: its code and whether it is under 120 s old
    attempts,  \* the count of wrong codes, 0 when the key is absent
    window,    \* the rate-limit counters, of the address and of each route of one
               \* client, and whether each has a time to live
    account,   \* the row of the address in "user"
    hook,      \* the sign-up through the better-auth endpoint in progress
    request,   \* request[q]: the request in progress
    mailed,    \* the code of the last mail
    wrong,     \* wrong codes compared with the session since it was stored
    mixed,     \* sends overlapped or one was cut short since a clean one
    raced,     \* guesses overlapped, or their count was reset or unread, since the
               \* session was stored
    unlimited, \* counters whose time to live was lost to an error or a crash
    abandoned, \* rows whose activation was lost to an error or a crash
    codes, rowIds, calls, faults, crashes

vars == <<pending, attempts, window, account, hook, request, mailed, wrong, mixed, raced,
          unlimited, abandoned, codes, rowIds, calls, faults, crashes>>
ghosts == <<mixed, raced, unlimited, abandoned>>
counters == <<codes, rowIds, calls, faults, crashes>>

-----------------------------------------------------------------------------
NoSession == [code |-> 0, fresh |-> FALSE]
NoAccount == [id |-> 0, verified |-> FALSE, direct |-> FALSE]
\* id, was: the row the hook read and whether it was verified; n: hooks so far.
Unhooked == [at |-> "none", id |-> 0, was |-> FALSE, n |-> 0]

\* pc names the awaited call that comes next.  code: the code the request sends
\* or has read; n: its new count of wrong codes, or the id of its new row;
\* clean: no other send met this one.
Counters == {"address"} \cup Throttled

Steps == {"done", "throttle", "lease", "user", "pending", "limit", "expire", "read", "store", "attempts",
          "mail", "guess", "discard", "count", "write", "drop", "clear", "signup",
          "activate", "cleanup"}
Request == [op : {"none", "register", "resend", "verify"}, pc : Steps,
            code : Nat, n : Nat, clean : BOOLEAN]
Free == [op |-> "none", pc |-> "done", code |-> 0, n |-> 0, clean |-> TRUE]

TypeOK ==
    /\ pending \in [code : 0..codes, fresh : BOOLEAN]
    /\ attempts \in Nat /\ wrong \in Nat
    /\ window \in [Counters -> [count : Nat, ttl : BOOLEAN]]
    /\ account \in [id : 0..rowIds, verified : BOOLEAN, direct : BOOLEAN]
    /\ request \in [Requests -> Request]
    /\ hook \in [at : {"none", "delete", "insert"}, id : 0..rowIds, was : BOOLEAN,
                 n : 0..MaxSignUps]
    /\ mailed \in 0..codes
    /\ mixed \in BOOLEAN /\ raced \in BOOLEAN /\ unlimited \subseteq Counters
    /\ abandoned \subseteq 1..rowIds
    /\ codes \in Nat /\ rowIds \in Nat
    /\ calls \in 0..MaxCalls /\ faults \in 0..MaxFaults /\ crashes \in 0..MaxCrashes

Init ==
    /\ pending = NoSession /\ attempts = 0
    /\ window = [c \in Counters |-> [count |-> 0, ttl |-> FALSE]]
    /\ account = NoAccount /\ hook = Unhooked
    /\ request = [q \in Requests |-> Free]
    /\ mailed = 0 /\ wrong = 0
    /\ mixed = FALSE /\ raced = FALSE /\ unlimited = {} /\ abandoned = {}
    /\ codes = 0 /\ rowIds = 0 /\ calls = 0 /\ faults = 0 /\ crashes = 0

Is(q, op, pc) == request[q].op \in op /\ request[q].pc = pc
Goto(q, pc) == request' = [request EXCEPT ![q].pc = pc]
End(q) == request' = [request EXCEPT ![q] = Free]

\* The first call of the service for a request the guard has let through.
Entry(op) == CASE op = "register" -> "user" [] op = "resend" -> "limit" [] op = "verify" -> "guess"

Begin(q, op) ==
    /\ request[q] = Free /\ calls < MaxCalls
    /\ calls' = calls + 1
    /\ request' = [request EXCEPT ![q] =
           [Free EXCEPT !.op = op, !.pc = IF op \in Throttled THEN "throttle" ELSE Entry(op)]]
    /\ UNCHANGED <<hook, pending, attempts, window, account, mailed, wrong, ghosts,
                   codes, rowIds, faults, crashes>>

-----------------------------------------------------------------------------
(* CustomRateLimitGuard, before the handler of every route: INCR, and EXPIRE
   when it answered 1.  A Redis error lets the request through. *)
Register(q) == Begin(q, "register")
Resend(q) == Begin(q, "resend")
Verify(q) == Begin(q, "verify")

\* Mutant of First: the counter is compared before it is incremented.
FirstBefore(count) == count = 0

First(count) == count = 1

\* The counter of c is incremented: then EXPIRE, a refusal, or the next call.
Counted(q, c, max, expire, onward) ==
    /\ window' = [window EXCEPT ![c].count = @ + 1]
    /\ IF window[c].count + 1 > max THEN End(q)
       ELSE Goto(q, IF First(window[c].count + 1) THEN expire ELSE onward)
Leased(c) == window' = [window EXCEPT ![c].ttl = window[c].count > 0]

Throttle(q) ==
    /\ request[q].pc = "throttle"
    /\ Counted(q, request[q].op, MaxPerRoute, "lease", Entry(request[q].op))
    /\ UNCHANGED <<hook, pending, attempts, account, mailed, wrong, ghosts, counters>>

ThrottleExpire(q) ==
    /\ request[q].pc = "lease"
    /\ Leased(request[q].op)
    /\ Goto(q, Entry(request[q].op))
    /\ UNCHANGED <<hook, pending, attempts, account, mailed, wrong, ghosts, counters>>

ThrottleFails(q) ==
    /\ request[q].pc \in {"throttle", "lease"} /\ faults < MaxFaults
    /\ faults' = faults + 1
    /\ Goto(q, Entry(request[q].op))
    /\ unlimited' = IF request[q].pc = "lease" THEN unlimited \cup {request[q].op} ELSE unlimited
    /\ UNCHANGED <<hook, pending, attempts, window, account, mailed, wrong, mixed, raced,
                   abandoned, codes, rowIds, calls, crashes>>

-----------------------------------------------------------------------------
(* register: no account, no session, not too often. *)
FindUser(q) ==
    /\ Is(q, {"register"}, "user")
    /\ IF account = NoAccount THEN Goto(q, "pending") ELSE End(q)
    /\ UNCHANGED <<hook, pending, attempts, window, account, mailed, wrong, ghosts, counters>>

HasPending(q) ==
    /\ Is(q, {"register"}, "pending")
    /\ IF pending = NoSession THEN Goto(q, "limit") ELSE End(q)
    /\ UNCHANGED <<hook, pending, attempts, window, account, mailed, wrong, ghosts, counters>>

\* What a request does once it is known to be within the limit.
Within(op) == IF op = "register" THEN "store" ELSE "read"

\* isRegistrationRateLimited, the same for the address; an error ends the request.
Limit(q) ==
    /\ Is(q, {"register", "resend"}, "limit")
    /\ Counted(q, "address", MaxPerWindow, "expire", Within(request[q].op))
    /\ UNCHANGED <<hook, pending, attempts, account, mailed, wrong, ghosts, counters>>

LimitExpire(q) ==
    /\ Is(q, {"register", "resend"}, "expire")
    /\ Leased("address")
    /\ Goto(q, Within(request[q].op))
    /\ UNCHANGED <<hook, pending, attempts, account, mailed, wrong, ghosts, counters>>

-----------------------------------------------------------------------------
(* Sending a code: createPendingUser stores it and mails it, resendOtp mails
   it and stores it. *)
Sending(q) == /\ request[q].op \in {"register", "resend"}
              /\ request[q].pc \in {"store", "attempts", "mail"}
Others(q) == \E o \in Requests \ {q} : Sending(o)

\* The request after a step of its send; whoever else is sending was met.
Sent(q, pc, code) ==
    request' = [o \in Requests |->
        IF o = q THEN [request[q] EXCEPT !.pc = pc, !.code = code,
                                         !.clean = @ /\ ~Others(q)]
        ELSE IF Sending(o) THEN [request[o] EXCEPT !.clean = FALSE] ELSE request[o]]
Completed(q) ==
    /\ End(q)
    /\ mixed' = ~(request[q].clean /\ ~Others(q))

NewCode == codes + 1
Counting(q) == request[q].pc \in {"count", "write", "drop"}

\* The session is written with the code, fresh again; a guess in flight counts
\* for the code before.
Store(code) ==
    /\ pending' = [code |-> code, fresh |-> TRUE]
    /\ wrong' = 0
    /\ raced' = \E o \in Requests : Counting(o)

StorePending(q) ==
    /\ Is(q, {"register"}, "store")
    /\ codes' = NewCode
    /\ Store(NewCode) /\ Sent(q, "attempts", NewCode)
    /\ UNCHANGED <<hook, attempts, window, account, mailed, mixed, unlimited, abandoned,
                   rowIds, calls, faults, crashes>>

StoreAttempts(q) ==
    /\ request[q].pc = "attempts"
    /\ attempts' = 0
    /\ raced' = (raced \/ wrong > 0)
    /\ IF request[q].op = "register"
       THEN Sent(q, "mail", request[q].code) /\ UNCHANGED mixed
       ELSE Completed(q)
    /\ UNCHANGED <<hook, pending, window, account, mailed, wrong, unlimited, abandoned, counters>>

MailNew(q) ==
    /\ Is(q, {"register"}, "mail")
    /\ mailed' = request[q].code
    /\ Completed(q)
    /\ UNCHANGED <<hook, pending, attempts, window, account, wrong, raced, unlimited,
                   abandoned, counters>>

ResendRead(q) ==
    /\ Is(q, {"resend"}, "read")
    /\ IF pending = NoSession THEN End(q) ELSE Goto(q, "mail")
    /\ UNCHANGED <<hook, pending, attempts, window, account, mailed, wrong, ghosts, counters>>

ResendMail(q) ==
    /\ Is(q, {"resend"}, "mail")
    /\ codes' = NewCode /\ mailed' = NewCode
    /\ Sent(q, "store", NewCode)
    /\ UNCHANGED <<hook, pending, attempts, window, account, wrong, ghosts, rowIds,
                   calls, faults, crashes>>

\* Mutant of ResendStore: the session keeps its old code.
ResendStoreOld(q) ==
    /\ Is(q, {"resend"}, "store")
    /\ Store(pending.code) /\ Sent(q, "attempts", request[q].code)
    /\ UNCHANGED <<hook, attempts, window, account, mailed, mixed, unlimited, abandoned,
                   counters>>

\* The copy read before the mail becomes the session, also when a verification
\* consumed it meanwhile.
ResendStore(q) ==
    /\ Is(q, {"resend"}, "store")
    /\ Store(request[q].code) /\ Sent(q, "attempts", request[q].code)
    /\ UNCHANGED <<hook, attempts, window, account, mailed, mixed, unlimited, abandoned,
                   counters>>

-----------------------------------------------------------------------------
(* verifyOtp: the code is right, wrong or too old. *)
Guess(q, right) ==
    /\ Is(q, {"verify"}, "guess")
    /\ IF pending = NoSession THEN End(q) /\ UNCHANGED <<wrong, raced>>
       ELSE IF ~pending.fresh THEN Goto(q, "discard") /\ UNCHANGED <<wrong, raced>>
       ELSE IF right THEN Goto(q, "clear") /\ UNCHANGED <<wrong, raced>>
       ELSE /\ Goto(q, "count")
            /\ wrong' = wrong + 1
            /\ raced' = (raced \/ \E o \in Requests \ {q} : Counting(o))
    /\ UNCHANGED <<hook, pending, attempts, window, account, mailed, mixed, unlimited,
                   abandoned, counters>>

Discard(q) ==
    /\ Is(q, {"verify"}, "discard")
    /\ pending' = NoSession /\ attempts' = 0
    /\ End(q)
    /\ UNCHANGED <<hook, window, account, mailed, wrong, ghosts, counters>>

\* Wrong: the count is read, written back plus one, and judged.
Count(q) ==
    /\ Is(q, {"verify"}, "count")
    /\ request' = [request EXCEPT ![q].pc = "write", ![q].n = attempts + 1]
    /\ UNCHANGED <<hook, pending, attempts, window, account, mailed, wrong, ghosts, counters>>

\* Mutant of TooMany: one wrong code too many.
TooManyLate(n) == n > MaxAttempts

TooMany(n) == n >= MaxAttempts

CountWrite(q) ==
    /\ Is(q, {"verify"}, "write")
    /\ attempts' = request[q].n
    /\ IF TooMany(request[q].n) THEN Goto(q, "drop") ELSE End(q)
    /\ UNCHANGED <<hook, pending, window, account, mailed, wrong, ghosts, counters>>

DropSession(q) ==
    /\ Is(q, {"verify"}, "drop")
    /\ pending' = NoSession
    /\ End(q)
    /\ UNCHANGED <<hook, attempts, window, account, mailed, wrong, ghosts, counters>>

\* Right: verifyRegistration inserts the account and activates it.
ClearAttempts(q) ==
    /\ Is(q, {"verify"}, "clear")
    /\ attempts' = 0
    /\ raced' = (raced \/ wrong > 0)
    /\ Goto(q, "signup")
    /\ UNCHANGED <<hook, pending, window, account, mailed, wrong, mixed, unlimited,
                   abandoned, counters>>

SignUp(q) ==
    /\ Is(q, {"verify"}, "signup")
    /\ IF account /= NoAccount THEN End(q) /\ UNCHANGED <<account, rowIds>>
       ELSE /\ rowIds' = rowIds + 1
            /\ account' = [id |-> rowIds', verified |-> FALSE, direct |-> FALSE]
            /\ request' = [request EXCEPT ![q].pc = "activate", ![q].n = rowIds']
    /\ UNCHANGED <<hook, pending, attempts, window, mailed, wrong, ghosts,
                   codes, calls, faults, crashes>>

\* Mutant of Activated: the UPDATE forgets emailVerified.
ActivatedNot(row, id) == row

Activated(row, id) == IF row.id = id THEN [row EXCEPT !.verified = TRUE] ELSE row

\* The UPDATE is by id: it finds nothing when the row was replaced meanwhile.
Activate(q) ==
    /\ Is(q, {"verify"}, "activate")
    /\ account' = Activated(account, request[q].n)
    /\ Goto(q, "cleanup")
    /\ UNCHANGED <<hook, pending, attempts, window, mailed, wrong, ghosts, counters>>

Cleanup(q) ==
    /\ Is(q, {"verify"}, "cleanup")
    /\ pending' = NoSession /\ attempts' = 0
    /\ End(q)
    /\ UNCHANGED <<hook, window, account, mailed, wrong, ghosts, counters>>

-----------------------------------------------------------------------------
(* POST /sign-up/email of better-auth: a hook looks the address up, deletes
   the row it found unverified, and the library inserts a new one. *)
HookGoes(at) == hook' = [hook EXCEPT !.at = at]
HookEnds == hook' = [Unhooked EXCEPT !.n = hook.n]

\* Mutant of Leftover: any row of the address.
LeftoverAny(row) == row /= NoAccount

Leftover(row) == row /= NoAccount /\ ~row.verified

HookRead ==
    /\ hook.at = "none" /\ hook.n < MaxSignUps
    /\ hook' = [at |-> IF Leftover(account) THEN "delete" ELSE "insert",
                id |-> account.id, was |-> account.verified, n |-> hook.n + 1]
    /\ UNCHANGED <<pending, attempts, window, account, request, mailed, wrong, ghosts, counters>>

\* The DELETE is by id alone: it does not look at emailVerified again.
HookDelete ==
    /\ hook.at = "delete"
    /\ account' = IF account.id = hook.id THEN NoAccount ELSE account
    /\ HookGoes("insert")
    /\ UNCHANGED <<pending, attempts, window, request, mailed, wrong, ghosts, counters>>

DirectInsert ==
    /\ hook.at = "insert"
    /\ IF account /= NoAccount THEN UNCHANGED <<account, rowIds>>
       ELSE /\ rowIds' = rowIds + 1
            /\ account' = [id |-> rowIds', verified |-> FALSE, direct |-> TRUE]
    /\ HookEnds
    /\ UNCHANGED <<pending, attempts, window, request, mailed, wrong, ghosts,
                   codes, calls, faults, crashes>>

HookFails ==
    /\ hook.at /= "none" /\ faults < MaxFaults
    /\ faults' = faults + 1
    /\ HookEnds
    /\ UNCHANGED <<pending, attempts, window, account, request, mailed, wrong, ghosts,
                   codes, rowIds, calls, crashes>>

\* 120 s pass for the code; the session (130 s) and the count expire later.
Tick ==
    /\ \/ /\ pending.fresh
          /\ pending' = [pending EXCEPT !.fresh = FALSE] /\ UNCHANGED <<attempts, window>>
       \/ /\ pending /= NoSession /\ ~pending.fresh
          /\ pending' = NoSession /\ UNCHANGED <<attempts, window>>
       \/ /\ attempts > 0 /\ ~pending.fresh
          /\ attempts' = 0 /\ UNCHANGED <<pending, window>>
       \/ \E c \in Counters :
             /\ window[c].ttl
             /\ window' = [window EXCEPT ![c] = [count |-> 0, ttl |-> FALSE]]
             /\ UNCHANGED <<pending, attempts>>
    /\ raced' = (raced \/ (attempts' < attempts /\ \E q \in Requests : Counting(q)))
    /\ UNCHANGED <<account, hook, request, mailed, wrong, mixed, unlimited, abandoned, counters>>

\* The request is about to give counter c its time to live.
Expiring(q, c) == \/ c = "address" /\ request[q].pc = "expire"
                  \/ c = request[q].op /\ request[q].pc = "lease"

\* What is lost when the requests of Q end in the middle.
Cut(Q) ==
    /\ mixed' = (mixed \/ \E q \in Q : Sending(q))
    /\ raced' = (raced \/ \E q \in Q : Counting(q))
    /\ unlimited' = unlimited \cup {c \in Counters : \E q \in Q : Expiring(q, c)}
    /\ abandoned' = abandoned \cup {request[q].n : q \in {p \in Q : Is(p, {"verify"}, "activate")}}
    /\ request' = [q \in Requests |-> IF q \in Q THEN Free ELSE request[q]]
    /\ UNCHANGED <<pending, attempts, window, account, mailed, wrong, codes, rowIds, calls>>

\* The next call of the request fails and the request ends.
CallFails(q) ==
    /\ request[q] /= Free /\ request[q].pc \notin {"throttle", "lease"}
    /\ faults < MaxFaults
    /\ faults' = faults + 1
    /\ Cut({q})
    /\ UNCHANGED <<hook, crashes>>

\* RedisService.get answers null on an error: no session, or no wrong code yet.
ReadFails(q) ==
    /\ faults < MaxFaults
    /\ faults' = faults + 1
    /\ \/ Is(q, {"register"}, "pending") /\ Goto(q, "limit")
       \/ Is(q, {"verify"}, "count")
          /\ request' = [request EXCEPT ![q].pc = "write", ![q].n = 1]
    /\ raced' = TRUE
    /\ UNCHANGED <<hook, pending, attempts, window, account, mailed, wrong, mixed, unlimited,
                   abandoned, codes, rowIds, calls, crashes>>

Crash ==
    /\ crashes < MaxCrashes
    /\ crashes' = crashes + 1
    /\ Cut(Requests)
    /\ HookEnds
    /\ UNCHANGED faults

Next ==
    \/ \E q \in Requests :
          \/ Register(q) \/ Resend(q) \/ Verify(q)
          \/ Throttle(q) \/ ThrottleExpire(q) \/ ThrottleFails(q)
          \/ FindUser(q) \/ HasPending(q) \/ Limit(q) \/ LimitExpire(q)
          \/ StorePending(q) \/ StoreAttempts(q) \/ MailNew(q)
          \/ ResendRead(q) \/ ResendMail(q) \/ ResendStore(q)
          \/ Guess(q, TRUE) \/ Guess(q, FALSE) \/ Discard(q)
          \/ Count(q) \/ CountWrite(q) \/ DropSession(q)
          \/ ClearAttempts(q) \/ SignUp(q) \/ Activate(q) \/ Cleanup(q)
          \/ CallFails(q) \/ ReadFails(q)
    \/ HookRead \/ HookDelete \/ DirectInsert \/ HookFails
    \/ Tick \/ Crash

Spec == Init /\ [][Next]_vars

-----------------------------------------------------------------------------
\* The code of the newest mail is the one the session accepts, once no send is
\* in progress, unless sends overlapped or one was cut short
\* (users.service.ts:357-401 stores first, 489-539 mails first).
MailedCodeWorks ==
    pending /= NoSession /\ ~mixed /\ (\A q \in Requests : ~Sending(q))
        => pending.code = mailed

\* A session does not survive its fifth wrong code, unless guesses overlapped,
\* came before the count was reset for the session, or a right code cleared the
\* count and then failed to sign up: the count is read and written by two calls
\* (users.service.ts:446-453).
GuessesAreBounded ==
    pending /= NoSession /\ ~raced /\ (\A q \in Requests : ~Counting(q))
        => wrong < MaxAttempts

\* A counter without a time to live is about to get one, unless an error or a
\* crash fell between INCR and EXPIRE; then the address, or every request of the
\* client, stays blocked (users.service.ts:596-609, rate-limit.guard.ts:58-66).
WindowCloses ==
    \A c \in Counters :
        window[c].count > 0 /\ ~window[c].ttl =>
            c \in unlimited \/ \E q \in Requests : Expiring(q, c)

\* An unverified row is being activated, was inserted by the better-auth
\* endpoint, or belongs to a verification that was cut short; register refuses
\* the address from then on (users.service.ts:285-299).
UnverifiedHasACause ==
    account /= NoAccount /\ ~account.verified =>
        \/ account.direct \/ account.id \in abandoned
        \/ \E q \in Requests : Is(q, {"verify"}, "activate") /\ request[q].n = account.id

\* A verified account is kept: only a sign-up that read the row before it was
\* activated takes it away, because the hook looks at emailVerified in one
\* statement and deletes by id in another (auth.ts:160-172).
VerifiedAccountIsKept ==
    [][account.verified /\ account'.id /= account.id =>
          hook.at = "delete" /\ hook.id = account.id /\ ~hook.was]_vars
=============================================================================
