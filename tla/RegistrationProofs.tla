-------------------------- MODULE RegistrationProofs --------------------------
(* Proofs about Registration, for any number of requests of the address at a
   time, any limits, failing calls, crashes and sign-ups through better-auth. *)
EXTENDS Registration, TLAPS

\* Which request is at which call, and what it carries.
StepsOf(op) ==
    CASE op = "register" -> {"user", "pending", "limit", "expire", "store", "attempts", "mail"}
      [] op = "resend" -> {"limit", "expire", "read", "mail", "store", "attempts"}
      [] op = "verify" -> {"guess", "discard", "count", "write", "drop", "clear", "signup",
                           "activate", "cleanup"}
      [] op = "none" -> {"done"}

Shape(k) ==
    /\ \/ k.pc \in StepsOf(k.op)
       \/ k.pc \in {"throttle", "lease"} /\ k.op \in Throttled
    /\ k.code <= codes
    /\ k.pc = "activate" => k.n \in 1..rowIds
    /\ k.op = "none" => k = Free

Shapes == /\ \A q \in Requests : Shape(request[q])
          /\ hook.at = "delete" => ~hook.was

\* Guesses: what the count, and a request that is counting, say of the wrong
\* codes compared with a session, while nothing raced.
Guesses ==
    pending # NoSession /\ ~raced =>
        /\ \A q, p \in Requests : Counting(q) /\ Counting(p) => q = p
        /\ \A q \in Requests :
              /\ Counting(q) => wrong >= 1
              /\ request[q].pc = "count" => attempts >= wrong - 1
              /\ request[q].pc = "write" => request[q].n >= wrong
        /\ (\A q \in Requests : ~Counting(q)) =>
              wrong < MaxAttempts /\ (pending.fresh => attempts >= wrong)

\* Sends: a request that stored its code, or mailed it, and has not done both.
Midway(k) == \/ k.op = "register" /\ k.pc \in {"attempts", "mail"}
             \/ k.op = "resend" /\ k.pc \in {"store", "attempts"}
Kept(k) == pending = NoSession \/ pending.code = k.code

Sends ==
    /\ \A q \in Requests : request[q].clean /\ Midway(request[q]) =>
          /\ \A o \in Requests \ {q} : ~Midway(request[o])
          /\ request[q].op = "register" => Kept(request[q])
          /\ request[q].op = "resend" => mailed = request[q].code
          /\ request[q].op = "resend" /\ request[q].pc = "attempts" => Kept(request[q])
    /\ ~mixed /\ (\A q \in Requests : ~Midway(request[q])) =>
          pending = NoSession \/ pending.code = mailed

-----------------------------------------------------------------------------
(* The steps of a request. *)

\* Every other request stays.
Alone(q) == /\ request' \in [Requests -> Request]
            /\ \A o \in Requests \ {q} : request'[o] = request[o]

LEMMA FreeIs ==
    /\ Free \in Request /\ Free.op = "none" /\ Free.pc = "done" /\ Free.code = 0
    /\ Free.n = 0 /\ Free.clean
BY DEF Free, Request, Steps

LEMMA GotoIs ==
    ASSUME TypeOK, NEW q \in Requests, NEW pc \in Steps, Goto(q, pc)
    PROVE  /\ request'[q].op = request[q].op /\ request'[q].pc = pc
           /\ request'[q].code = request[q].code /\ request'[q].n = request[q].n
           /\ request'[q].clean = request[q].clean /\ Alone(q)
<1> DEFINE k == [request[q] EXCEPT !.pc = pc]
<1>1. request[q] \in Request
    BY DEF TypeOK
<1>2. /\ k \in Request /\ k.op = request[q].op /\ k.pc = pc /\ k.code = request[q].code
      /\ k.n = request[q].n /\ k.clean = request[q].clean
    BY <1>1 DEF Request
<1>3. request' = [request EXCEPT ![q] = k]
    BY DEF Goto, TypeOK
<1> HIDE DEF k
<1>4. request'[q] = k /\ Alone(q)
    BY <1>2, <1>3 DEF TypeOK, Alone
<1>. QED  BY <1>2, <1>4

\* Going on with a number.
LEMMA NumberIs ==
    ASSUME TypeOK, NEW q \in Requests, NEW pc \in Steps, NEW n \in Nat,
           request' = [request EXCEPT ![q].pc = pc, ![q].n = n]
    PROVE  /\ request'[q].op = request[q].op /\ request'[q].pc = pc
           /\ request'[q].code = request[q].code /\ request'[q].n = n
           /\ request'[q].clean = request[q].clean /\ Alone(q)
<1> DEFINE h == [request[q] EXCEPT !.pc = pc]
           k == [h EXCEPT !.n = n]
           r == [request EXCEPT ![q].pc = pc]
<1>1. request[q] \in Request
    BY DEF TypeOK
<1>2. /\ h \in Request /\ h.op = request[q].op /\ h.pc = pc /\ h.code = request[q].code
      /\ h.clean = request[q].clean
    BY <1>1 DEF Request
<1>3. r \in [Requests -> Request] /\ r[q] = h /\ \A o \in Requests \ {q} : r[o] = request[o]
    BY <1>2 DEF TypeOK
<1>4. request' = [r EXCEPT ![q].n = n]
    OBVIOUS
<1> HIDE DEF h, r
<1>5. /\ k \in Request /\ k.op = request[q].op /\ k.pc = pc /\ k.code = request[q].code
      /\ k.n = n /\ k.clean = request[q].clean
    BY <1>2 DEF Request
<1>6. request' = [r EXCEPT ![q] = k]
    BY <1>3, <1>4
<1> HIDE DEF k
<1>7. request'[q] = k /\ Alone(q)
    BY <1>3, <1>5, <1>6 DEF Alone
<1>. QED  BY <1>5, <1>7

LEMMA EndIs ==
    ASSUME TypeOK, NEW q \in Requests, End(q)
    PROVE  request'[q] = Free /\ Alone(q)
BY FreeIs DEF End, TypeOK, Alone

LEMMA BeginIs ==
    ASSUME TypeOK, NEW q \in Requests, NEW op \in {"register", "resend", "verify"}, Begin(q, op)
    PROVE  /\ request[q] = Free /\ request'[q].op = op
           /\ request'[q].pc = IF op \in Throttled THEN "throttle" ELSE Entry(op)
           /\ request'[q].code = 0 /\ request'[q].n = 0 /\ request'[q].clean
           /\ Alone(q)
<1> DEFINE p == IF op \in Throttled THEN "throttle" ELSE Entry(op)
           k == [Free EXCEPT !.op = op, !.pc = p]
<1>1. p \in Steps
    BY DEF Entry, Steps
<1>2. request' = [request EXCEPT ![q] = k] /\ request[q] = Free
    BY DEF Begin
<1> HIDE DEF p
<1>3. /\ k \in Request /\ k.op = op /\ k.pc = p /\ k.code = 0 /\ k.n = 0 /\ k.clean
    BY <1>1, FreeIs DEF Request
<1> HIDE DEF k
<1>4. request'[q] = k /\ Alone(q)
    BY <1>2, <1>3 DEF TypeOK, Alone
<1>. QED  BY <1>2, <1>3, <1>4 DEF p

\* A step of a send; whoever else is sending was met.
LEMMA SentIs ==
    ASSUME TypeOK, NEW q \in Requests, NEW pc \in Steps, NEW code \in Nat, Sent(q, pc, code)
    PROVE  /\ request' \in [Requests -> Request]
           /\ request'[q].op = request[q].op /\ request'[q].pc = pc
           /\ request'[q].code = code /\ request'[q].n = request[q].n
           /\ request'[q].clean <=> request[q].clean /\ ~Others(q)
           /\ \A o \in Requests \ {q} :
                 /\ request'[o].op = request[o].op /\ request'[o].pc = request[o].pc
                 /\ request'[o].code = request[o].code /\ request'[o].n = request[o].n
                 /\ request'[o].clean <=> request[o].clean /\ ~Sending(o)
<1> DEFINE b == request[q].clean /\ ~Others(q)
           k == [request[q] EXCEPT !.pc = pc, !.code = code, !.clean = b]
<1>1. ASSUME NEW o \in Requests PROVE request[o] \in Request
    BY DEF TypeOK
<1>2. request'[q] = k
    BY DEF Sent
<1>3. b \in BOOLEAN
    OBVIOUS
<1>4. /\ k \in Request /\ k.op = request[q].op /\ k.pc = pc /\ k.code = code
      /\ k.n = request[q].n /\ k.clean = b
    <2> HIDE DEF b
    <2>. QED  BY <1>1, <1>3 DEF Request
<1>5. ASSUME NEW o \in Requests \ {q}
      PROVE  /\ request'[o] \in Request
             /\ request'[o].op = request[o].op /\ request'[o].pc = request[o].pc
             /\ request'[o].code = request[o].code /\ request'[o].n = request[o].n
             /\ request'[o].clean <=> request[o].clean /\ ~Sending(o)
    <2>1. CASE Sending(o)
        <3>1. request'[o] = [request[o] EXCEPT !.clean = FALSE]
            BY <2>1 DEF Sent
        <3>2. request[o] \in Request
            BY <1>1
        <3>. QED  BY <2>1, <3>1, <3>2 DEF Request
    <2>2. CASE ~Sending(o)
        <3>1. request'[o] = request[o]
            BY <2>2 DEF Sent
        <3>. QED  BY <1>1, <2>2, <3>1
    <2>. QED  BY <2>1, <2>2
<1>6. request' \in [Requests -> Request]
    <2>1. request' = [o \in Requests |-> request'[o]]
        BY DEF Sent
    <2>2. \A o \in Requests : request'[o] \in Request
        BY <1>2, <1>4, <1>5
    <2>. QED  BY <2>1, <2>2
<1> HIDE DEF k, b
<1>7. request'[q].clean <=> b
    BY <1>2, <1>4
<1>. QED  BY <1>2, <1>4, <1>5, <1>6, <1>7 DEF b

LEMMA CutIs ==
    ASSUME TypeOK, NEW Q \in SUBSET Requests, Cut(Q)
    PROVE  /\ request' \in [Requests -> Request]
           /\ \A q \in Requests : request'[q] = IF q \in Q THEN Free ELSE request[q]
<1>1. \A q \in Requests : request'[q] = IF q \in Q THEN Free ELSE request[q]
    BY DEF Cut
<1>2. request' = [q \in Requests |-> request'[q]]
    BY DEF Cut
<1>. QED  BY <1>1, <1>2, FreeIs DEF TypeOK

-----------------------------------------------------------------------------
(* The counters. *)

LEMMA CountedIs ==
    ASSUME TypeOK, NEW q \in Requests, NEW c \in Counters, NEW max \in Nat \ {0},
           NEW expire \in Steps, NEW onward \in Steps,
           Counted(q, c, max, expire, onward)
    PROVE  /\ window' \in [Counters -> [count : Nat, ttl : BOOLEAN]]
           /\ window'[c].count = window[c].count + 1 /\ window'[c].ttl = window[c].ttl
           /\ \A d \in Counters \ {c} : window'[d] = window[d]
           /\ \/ End(q) /\ window[c].count > 0
              \/ Goto(q, expire)
              \/ Goto(q, onward) /\ window[c].count > 0
<1> DEFINE w == [window[c] EXCEPT !.count = window[c].count + 1]
<1>1. window[c] \in [count : Nat, ttl : BOOLEAN]
    BY DEF TypeOK
<1>2. w \in [count : Nat, ttl : BOOLEAN] /\ w.count = window[c].count + 1 /\ w.ttl = window[c].ttl
    BY <1>1
<1>3. window' = [window EXCEPT ![c] = w]
    BY DEF Counted
<1> HIDE DEF w
<1>4. /\ window' \in [Counters -> [count : Nat, ttl : BOOLEAN]] /\ window'[c] = w
      /\ \A d \in Counters \ {c} : window'[d] = window[d]
    BY <1>2, <1>3 DEF TypeOK
<1>5. \/ End(q) /\ window[c].count > 0
      \/ Goto(q, expire)
      \/ Goto(q, onward) /\ window[c].count > 0
    BY <1>1 DEF Counted, First
<1>. QED  BY <1>2, <1>4, <1>5

LEMMA LeasedIs ==
    ASSUME TypeOK, NEW c \in Counters, Leased(c)
    PROVE  /\ window' \in [Counters -> [count : Nat, ttl : BOOLEAN]]
           /\ window'[c].count = window[c].count /\ (window'[c].ttl <=> window[c].count > 0)
           /\ \A d \in Counters \ {c} : window'[d] = window[d]
<1> DEFINE b == window[c].count > 0
           w == [window[c] EXCEPT !.ttl = b]
<1>1. window[c] \in [count : Nat, ttl : BOOLEAN]
    BY DEF TypeOK
<1>2. b \in BOOLEAN
    OBVIOUS
<1>3. window' = [window EXCEPT ![c] = w]
    BY DEF Leased
<1> HIDE DEF b
<1>4. w \in [count : Nat, ttl : BOOLEAN] /\ w.count = window[c].count /\ w.ttl = b
    BY <1>1, <1>2
<1> HIDE DEF w
<1>5. /\ window' \in [Counters -> [count : Nat, ttl : BOOLEAN]] /\ window'[c] = w
      /\ \A d \in Counters \ {c} : window'[d] = window[d]
    BY <1>3, <1>4 DEF TypeOK
<1>. QED  BY <1>4, <1>5 DEF b

-----------------------------------------------------------------------------
(* Types and shapes. *)

\* Codes and rows are numbered upwards.
Rise == codes' \in Nat /\ rowIds' \in Nat /\ codes <= codes' /\ rowIds <= rowIds'

LEMMA ShapeStays ==
    ASSUME TypeOK, Rise, NEW k \in Request, Shape(k)
    PROVE  Shape(k)'
BY DEF TypeOK, Rise, Request, Shape

LEMMA OneMoves ==
    ASSUME TypeOK, Shapes, Rise, NEW q \in Requests, Alone(q), Shape(request[q])',
           hook'.at = "delete" => ~hook'.was
    PROVE  Shapes'
<1>1. ASSUME NEW o \in Requests PROVE Shape(request[o])'
    <2>1. CASE o = q
        BY <2>1
    <2>2. CASE o # q
        <3>1. PICK k \in Request : k = request[o]
            BY DEF TypeOK
        <3>2. request'[o] = k
            BY <2>2, <3>1 DEF Alone
        <3>3. Shape(k)'
            BY <3>1, ShapeStays DEF Shapes
        <3>. QED  BY <3>2, <3>3
    <2>. QED  BY <2>1, <2>2
<1>. QED  BY <1>1 DEF Shapes

LEMMA Alike == ASSUME UNCHANGED <<codes, rowIds>>, TypeOK PROVE Rise
BY DEF Rise, TypeOK

LEMMA EntryIs ==
    ASSUME NEW op \in {"register", "resend", "verify"}
    PROVE  Entry(op) \in StepsOf(op) /\ Entry(op) \in Steps
BY DEF Entry, StepsOf, Steps

LEMMA StepNames ==
    /\ \A op \in {"none", "register", "resend", "verify"} : StepsOf(op) \subseteq Steps
    /\ {"throttle", "lease"} \subseteq Steps
BY DEF StepsOf, Steps

\* A request that ends, and one that goes on with its code and number.
LEMMA FreeShape == ASSUME Rise PROVE Shape(Free)'
BY FreeIs DEF Shape, StepsOf, Rise

LEMMA EndMoves ==
    ASSUME TypeOK, Shapes, Rise, NEW q \in Requests, End(q),
           hook'.at = "delete" => ~hook'.was
    PROVE  Shapes' /\ request' \in [Requests -> Request]
<1>1. request'[q] = Free /\ Alone(q)
    BY EndIs
<1>2. Shape(request[q])'
    BY <1>1, FreeShape
<1>. QED  BY <1>1, <1>2, OneMoves DEF Alone

LEMMA GotoMoves ==
    ASSUME TypeOK, Shapes, Rise, NEW q \in Requests, NEW pc \in StepsOf(request[q].op),
           Goto(q, pc), request[q].op # "none", pc # "activate",
           hook'.at = "delete" => ~hook'.was
    PROVE  Shapes' /\ request' \in [Requests -> Request]
<1>1. request[q] \in Request /\ Shape(request[q])
    BY DEF TypeOK, Shapes
<1>2. pc \in Steps
    BY <1>1, StepNames DEF Request
<1>3. /\ request'[q].op = request[q].op /\ request'[q].pc = pc
      /\ request'[q].code = request[q].code /\ Alone(q)
    BY <1>2, GotoIs
<1>4. Shape(request[q])'
    BY <1>1, <1>3 DEF Shape, Rise, Request, TypeOK
<1>. QED  BY <1>3, <1>4, OneMoves DEF Alone

LEMMA NumberMoves ==
    ASSUME TypeOK, Shapes, Rise, NEW q \in Requests, NEW pc \in StepsOf(request[q].op),
           NEW n \in Nat, request' = [request EXCEPT ![q].pc = pc, ![q].n = n],
           request[q].op # "none", pc = "activate" => n \in 1..rowIds',
           hook'.at = "delete" => ~hook'.was
    PROVE  Shapes' /\ request' \in [Requests -> Request]
<1>1. request[q] \in Request /\ Shape(request[q])
    BY DEF TypeOK, Shapes
<1>2. pc \in Steps
    BY <1>1, StepNames DEF Request
<1>3. /\ request'[q].op = request[q].op /\ request'[q].pc = pc /\ request'[q].n = n
      /\ request'[q].code = request[q].code /\ Alone(q)
    BY <1>2, NumberIs
<1>4. Shape(request[q])'
    BY <1>1, <1>3 DEF Shape, Rise, Request, TypeOK
<1>. QED  BY <1>3, <1>4, OneMoves DEF Alone

LEMMA SentMoves ==
    ASSUME TypeOK, Shapes, Rise, NEW q \in Requests, NEW pc \in StepsOf(request[q].op),
           NEW code \in 0..codes', Sent(q, pc, code), request[q].op # "none", pc # "activate",
           hook'.at = "delete" => ~hook'.was
    PROVE  Shapes' /\ request' \in [Requests -> Request]
<1>1. \A o \in Requests : request[o] \in Request /\ Shape(request[o])
    BY DEF TypeOK, Shapes
<1>2. pc \in Steps
    BY <1>1, StepNames DEF Request
<1>3. code \in Nat
    BY DEF Rise
<1>4. /\ request' \in [Requests -> Request]
      /\ request'[q].op = request[q].op /\ request'[q].pc = pc /\ request'[q].code = code
      /\ \A o \in Requests \ {q} :
            /\ request'[o].op = request[o].op /\ request'[o].pc = request[o].pc
            /\ request'[o].code = request[o].code /\ request'[o].n = request[o].n
            /\ request'[o].clean <=> request[o].clean /\ ~Sending(o)
    BY <1>2, <1>3, SentIs
<1>5. Shape(request[q])'
    BY <1>1, <1>4 DEF Shape, Rise
<1>6. ASSUME NEW o \in Requests \ {q} PROVE Shape(request[o])'
    <2>1. CASE Sending(o)
        BY <1>1, <1>4, <2>1 DEF Shape, Rise, Request, Sending, TypeOK
    <2>2. CASE ~Sending(o)
        <3>1. request[o] \in Request /\ request'[o] \in Request
            BY <1>1, <1>4
        <3>2. request'[o].clean = request[o].clean
            BY <1>4, <2>2, <3>1 DEF Request
        <3>3. request'[o] = request[o]
            BY <1>4, <3>1, <3>2 DEF Request
        <3>4. PICK k \in Request : k = request[o]
            BY <3>1
        <3>5. Shape(k)'
            BY <1>1, <3>4, ShapeStays
        <3>. QED  BY <3>3, <3>4, <3>5
    <2>. QED  BY <2>1, <2>2
<1>. QED  BY <1>4, <1>5, <1>6 DEF Shapes

LEMMA CutMoves ==
    ASSUME TypeOK, Shapes, Rise, NEW Q \in SUBSET Requests, Cut(Q),
           hook'.at = "delete" => ~hook'.was
    PROVE  Shapes' /\ request' \in [Requests -> Request]
<1>1. /\ request' \in [Requests -> Request]
      /\ \A q \in Requests : request'[q] = IF q \in Q THEN Free ELSE request[q]
    BY CutIs
<1>2. ASSUME NEW q \in Requests PROVE Shape(request[q])'
    <2>1. CASE q \in Q
        BY <1>1, <2>1, FreeShape
    <2>2. CASE q \notin Q
        <3>1. PICK k \in Request : k = request[q]
            BY DEF TypeOK
        <3>2. request'[q] = k
            BY <1>1, <2>2, <3>1
        <3>3. Shape(k)'
            BY <3>1, ShapeStays DEF Shapes
        <3>. QED  BY <3>2, <3>3
    <2>. QED  BY <2>1, <2>2
<1>. QED  BY <1>1, <1>2 DEF Shapes

LEMMA LeaseMoves ==
    ASSUME TypeOK, Shapes, Rise, NEW q \in Requests,
           request[q].pc \in {"throttle", "lease"},
           \/ Goto(q, Entry(request[q].op))
           \/ Goto(q, "lease"),
           hook'.at = "delete" => ~hook'.was
    PROVE  Shapes' /\ request' \in [Requests -> Request]
<1>1. request[q] \in Request /\ Shape(request[q])
    BY DEF TypeOK, Shapes
<1>2. request[q].op \in Throttled /\ request[q].op \in {"register", "resend", "verify"}
    BY <1>1, ConstantsAssumption DEF Shape, StepsOf, Request
<1>3. CASE Goto(q, Entry(request[q].op))
    <2>1. Entry(request[q].op) \in StepsOf(request[q].op) /\ Entry(request[q].op) # "activate"
        BY <1>2 DEF Entry, StepsOf
    <2>. QED  BY <1>2, <1>3, <2>1, GotoMoves
<1>4. CASE Goto(q, "lease")
    <2>1. /\ request'[q].op = request[q].op /\ request'[q].pc = "lease"
          /\ request'[q].code = request[q].code /\ Alone(q)
        BY <1>4, GotoIs, StepNames
    <2>2. Shape(request[q])'
        BY <1>1, <1>2, <2>1 DEF Shape, Rise, Request, TypeOK
    <2>. QED  BY <2>1, <2>2, OneMoves DEF Alone
<1>. QED  BY <1>3, <1>4

LEMMA BeginTypes ==
    ASSUME TypeOK, Shapes, NEW q \in Requests, NEW op \in {"register", "resend", "verify"},
           Begin(q, op)
    PROVE  TypeOK' /\ Shapes'
<1>1. /\ request'[q].op = op
      /\ request'[q].pc = IF op \in Throttled THEN "throttle" ELSE Entry(op)
      /\ request'[q].code = 0 /\ Alone(q)
    BY BeginIs
<1>2. Rise /\ hook' = hook /\ (hook.at = "delete" => ~hook.was)
    BY DEF Begin, Rise, TypeOK, Shapes
<1>3. Shape(request[q])'
    <2>1. Entry(op) \in StepsOf(op) /\ Entry(op) # "activate"
        BY DEF Entry, StepsOf
    <2>2. CASE op \in Throttled
        BY <1>1, <1>2, <2>2 DEF Shape, Rise
    <2>3. CASE op \notin Throttled
        BY <1>1, <1>2, <2>1, <2>3 DEF Shape, Rise
    <2>. QED  BY <2>2, <2>3
<1>4. Shapes' /\ request' \in [Requests -> Request]
    BY <1>1, <1>2, <1>3, OneMoves DEF Alone
<1>5. calls' \in 0..MaxCalls
    BY ConstantsAssumption DEF Begin, TypeOK
<1>. QED  BY <1>4, <1>5 DEF Begin, TypeOK, ghosts

LEMMA CountTypes ==
    ASSUME TypeOK, Shapes, NEW q \in Requests,
           Throttle(q) \/ ThrottleExpire(q) \/ Limit(q) \/ LimitExpire(q)
    PROVE  TypeOK' /\ Shapes'
<1>1. request[q] \in Request /\ Shape(request[q])
    BY DEF TypeOK, Shapes
<1>2. Rise /\ hook' = hook /\ (hook.at = "delete" => ~hook.was)
    BY DEF Throttle, ThrottleExpire, Limit, LimitExpire, Rise, TypeOK, Shapes, counters
<1>3. /\ window' \in [Counters -> [count : Nat, ttl : BOOLEAN]]
      /\ Shapes' /\ request' \in [Requests -> Request]
    <2>1. CASE Throttle(q)
        <3>1. request[q].op \in Throttled /\ request[q].op \in {"register", "resend", "verify"}
            BY <1>1, <2>1, ConstantsAssumption DEF Throttle, Shape, StepsOf, Request
        <3>2. request[q].op \in Counters /\ Entry(request[q].op) \in Steps /\ "lease" \in Steps
            BY <3>1, EntryIs DEF Counters, Steps
        <3>3. Counted(q, request[q].op, MaxPerRoute, "lease", Entry(request[q].op))
            BY <2>1 DEF Throttle
        <3>4. /\ window' \in [Counters -> [count : Nat, ttl : BOOLEAN]]
              /\ End(q) \/ Goto(q, "lease") \/ Goto(q, Entry(request[q].op))
            BY <3>2, <3>3, CountedIs, ConstantsAssumption
        <3>5. CASE End(q)
            BY <1>2, <3>4, <3>5, EndMoves
        <3>6. CASE Goto(q, "lease") \/ Goto(q, Entry(request[q].op))
            BY <1>2, <2>1, <3>4, <3>6, LeaseMoves DEF Throttle
        <3>. QED  BY <3>4, <3>5, <3>6
    <2>2. CASE ThrottleExpire(q)
        <3>1. request[q].op \in Counters
            BY <1>1, <2>2 DEF ThrottleExpire, Shape, StepsOf, Request, Counters
        <3>2. Leased(request[q].op) /\ Goto(q, Entry(request[q].op)) /\ request[q].pc = "lease"
            BY <2>2 DEF ThrottleExpire
        <3>. QED  BY <1>2, <3>1, <3>2, LeasedIs, LeaseMoves
    <2>3. CASE Limit(q) \/ LimitExpire(q)
        <3>1. /\ request[q].op \in {"register", "resend"} /\ "address" \in Counters
              /\ Within(request[q].op) \in StepsOf(request[q].op)
              /\ "expire" \in StepsOf(request[q].op)
              /\ Within(request[q].op) # "activate" /\ request[q].op # "none"
              /\ Within(request[q].op) \in Steps /\ "expire" \in Steps
            BY <2>3 DEF Limit, LimitExpire, Is, Counters, Within, StepsOf, Steps
        <3>2. /\ window' \in [Counters -> [count : Nat, ttl : BOOLEAN]]
              /\ End(q) \/ Goto(q, "expire") \/ Goto(q, Within(request[q].op))
            <4>1. CASE Limit(q)
                <5>1. Counted(q, "address", MaxPerWindow, "expire", Within(request[q].op))
                    BY <4>1 DEF Limit
                <5>. QED  BY <3>1, <5>1, CountedIs, ConstantsAssumption
            <4>2. CASE LimitExpire(q)
                BY <3>1, <4>2, LeasedIs DEF LimitExpire
            <4>. QED  BY <2>3, <4>1, <4>2
        <3>3. CASE End(q)
            BY <1>2, <3>2, <3>3, EndMoves
        <3>4. CASE Goto(q, "expire")
            BY <1>2, <3>1, <3>2, <3>4, GotoMoves
        <3>5. CASE Goto(q, Within(request[q].op))
            BY <1>2, <3>1, <3>2, <3>5, GotoMoves
        <3>. QED  BY <3>2, <3>3, <3>4, <3>5
    <2>. QED  BY <2>1, <2>2, <2>3
<1>4. UNCHANGED <<hook, pending, attempts, account, mailed, wrong, ghosts, counters>>
    BY DEF Throttle, ThrottleExpire, Limit, LimitExpire
<1>. QED  BY <1>3, <1>4 DEF TypeOK, ghosts, counters

LEMMA FailTypes ==
    ASSUME TypeOK, Shapes, NEW q \in Requests, ThrottleFails(q)
    PROVE  TypeOK' /\ Shapes'
<1>1. request[q] \in Request /\ Shape(request[q])
    BY DEF TypeOK, Shapes
<1>2. Rise /\ hook' = hook /\ (hook.at = "delete" => ~hook.was)
    BY DEF ThrottleFails, Rise, TypeOK, Shapes
<1>3. Shapes' /\ request' \in [Requests -> Request]
    BY <1>2, LeaseMoves DEF ThrottleFails
<1>4. request[q].op \in Counters
    BY <1>1 DEF ThrottleFails, Shape, StepsOf, Request, Counters
<1>5. unlimited' \subseteq Counters
    BY <1>4 DEF ThrottleFails, TypeOK
<1>6. faults' \in 0..MaxFaults
    BY ConstantsAssumption DEF ThrottleFails, TypeOK
<1>7. UNCHANGED <<hook, pending, attempts, window, account, mailed, wrong, mixed, raced,
                   abandoned, codes, rowIds, calls, crashes>>
    BY DEF ThrottleFails
<1>. QED  BY <1>3, <1>5, <1>6, <1>7 DEF TypeOK

LEMMA NoneAreTyped ==
    ASSUME TypeOK
    PROVE  /\ NoSession \in [code : 0..codes, fresh : BOOLEAN]
           /\ NoAccount \in [id : 0..rowIds, verified : BOOLEAN, direct : BOOLEAN]
           /\ Unhooked \in [at : {"none", "delete", "insert"}, id : 0..rowIds, was : BOOLEAN,
                             n : 0..MaxSignUps]
<1>1. 0 \in 0..codes /\ 0 \in 0..rowIds /\ 0 \in 0..MaxSignUps
    BY ConstantsAssumption DEF TypeOK
<1>. QED  BY <1>1 DEF NoSession, NoAccount, Unhooked

\* Calls that only read, or write what the request itself carries.
LEMMA ReadTypes ==
    ASSUME TypeOK, Shapes, NEW q \in Requests,
           FindUser(q) \/ HasPending(q) \/ ResendRead(q) \/ Count(q)
    PROVE  TypeOK' /\ Shapes'
<1>1. Rise /\ hook' = hook /\ (hook.at = "delete" => ~hook.was)
    BY DEF FindUser, HasPending, ResendRead, Count, Rise, TypeOK, Shapes, counters
<1>2. Shapes' /\ request' \in [Requests -> Request]
    <2>1. CASE End(q)
        BY <1>1, <2>1, EndMoves
    <2>2. CASE FindUser(q) /\ ~End(q)
        <3>1. Goto(q, "pending") /\ request[q].op = "register"
            BY <2>2 DEF FindUser, Is
        <3>2. "pending" \in StepsOf(request[q].op) /\ request[q].op # "none"
            BY <3>1 DEF StepsOf
        <3>. QED  BY <1>1, <3>1, <3>2, GotoMoves
    <2>3. CASE HasPending(q) /\ ~End(q)
        <3>1. Goto(q, "limit") /\ request[q].op = "register"
            BY <2>3 DEF HasPending, Is
        <3>2. "limit" \in StepsOf(request[q].op) /\ request[q].op # "none"
            BY <3>1 DEF StepsOf
        <3>. QED  BY <1>1, <3>1, <3>2, GotoMoves
    <2>4. CASE ResendRead(q) /\ ~End(q)
        <3>1. Goto(q, "mail") /\ request[q].op = "resend"
            BY <2>4 DEF ResendRead, Is
        <3>2. "mail" \in StepsOf(request[q].op) /\ request[q].op # "none"
            BY <3>1 DEF StepsOf
        <3>. QED  BY <1>1, <3>1, <3>2, GotoMoves
    <2>5. CASE Count(q)
        <3>1. "write" \in StepsOf(request[q].op) /\ request[q].op # "none"
            BY <2>5 DEF StepsOf, Count, Is
        <3>2. attempts + 1 \in Nat
            BY DEF TypeOK
        <3>3. request' = [request EXCEPT ![q].pc = "write", ![q].n = attempts + 1]
            BY <2>5 DEF Count
        <3>. QED  BY <1>1, <3>1, <3>2, <3>3, NumberMoves
    <2>. QED  BY <2>1, <2>2, <2>3, <2>4, <2>5
<1>3. UNCHANGED <<hook, pending, attempts, window, account, mailed, wrong, ghosts, counters>>
    BY DEF FindUser, HasPending, ResendRead, Count
<1>. QED  BY <1>2, <1>3 DEF TypeOK, ghosts, counters

LEMMA SendTypes ==
    ASSUME TypeOK, Shapes, NEW q \in Requests,
           \/ StorePending(q) \/ StoreAttempts(q) \/ MailNew(q) \/ ResendMail(q)
           \/ ResendStore(q)
    PROVE  TypeOK' /\ Shapes'
<1>1. request[q] \in Request /\ Shape(request[q])
    BY DEF TypeOK, Shapes
<1>2. Rise /\ hook' = hook /\ (hook.at = "delete" => ~hook.was)
    BY DEF StorePending, StoreAttempts, MailNew, ResendMail, ResendStore, NewCode, Rise,
           TypeOK, Shapes, counters
<1>3. request[q].op \in {"register", "resend"}
    BY <1>1 DEF StorePending, StoreAttempts, MailNew, ResendMail, ResendStore, Is, Shape,
                StepsOf, Request
<1>4. request[q].code \in 0..codes /\ codes' \in Nat /\ codes <= codes'
    BY <1>1, <1>2 DEF Shape, Request, TypeOK, Rise
<1>5. Shapes' /\ request' \in [Requests -> Request]
    <2>1. CASE End(q)
        BY <1>2, <2>1, EndMoves
    <2>2. CASE ~End(q)
        <3>1. PICK pc \in {"attempts", "mail", "store"}, code \in {request[q].code, codes'} :
                 Sent(q, pc, code) /\ pc \in StepsOf(request[q].op)
            BY <1>3, <2>2 DEF StorePending, StoreAttempts, MailNew, ResendMail, ResendStore,
                              Completed, StepsOf, Is
        <3>2. code \in 0..codes' /\ pc # "activate" /\ request[q].op # "none"
            BY <1>2, <1>3, <1>4, <3>1 DEF Rise, TypeOK
        <3>. QED  BY <1>2, <3>1, <3>2, SentMoves
    <2>. QED  BY <2>1, <2>2
<1>6. codes \in Nat /\ NewCode \in Nat /\ request[q].code \in 0..codes
    BY <1>4 DEF NewCode, TypeOK
<1>7. CASE StorePending(q)
    <2>1. codes' = NewCode /\ pending' = [code |-> NewCode, fresh |-> TRUE] /\ wrong' = 0
          /\ raced' \in BOOLEAN
        BY <1>7 DEF StorePending, Store
    <2>2. pending' \in [code : 0..codes', fresh : BOOLEAN] /\ codes' \in Nat /\ mailed \in 0..codes'
        BY <1>6, <2>1 DEF NewCode, TypeOK
    <2>3. UNCHANGED <<hook, attempts, window, account, mailed, mixed, unlimited, abandoned,
                   rowIds, calls, faults, crashes>>
        BY <1>7 DEF StorePending
    <2>. QED  BY <1>5, <2>1, <2>2, <2>3 DEF TypeOK
<1>8. CASE StoreAttempts(q)
    <2>1. attempts' = 0 /\ raced' \in BOOLEAN /\ mixed' \in BOOLEAN
        BY <1>8 DEF StoreAttempts, Completed, TypeOK
    <2>2. UNCHANGED <<hook, pending, window, account, mailed, wrong, unlimited, abandoned, counters>>
        BY <1>8 DEF StoreAttempts
    <2>. QED  BY <1>5, <2>1, <2>2 DEF TypeOK, counters
<1>9. CASE MailNew(q)
    <2>1. mailed' = request[q].code /\ mixed' \in BOOLEAN
        BY <1>9 DEF MailNew, Completed
    <2>2. UNCHANGED <<hook, pending, attempts, window, account, wrong, raced, unlimited,
                   abandoned, counters>>
        BY <1>9 DEF MailNew
    <2>. QED  BY <1>5, <1>6, <2>1, <2>2 DEF TypeOK, counters
<1>10. CASE ResendMail(q)
    <2>1. codes' = NewCode /\ mailed' = NewCode
        BY <1>10 DEF ResendMail
    <2>2. codes' \in Nat /\ mailed' \in 0..codes' /\ pending \in [code : 0..codes', fresh : BOOLEAN]
        BY <1>6, <2>1 DEF NewCode, TypeOK
    <2>3. UNCHANGED <<hook, pending, attempts, window, account, wrong, ghosts, rowIds,
                   calls, faults, crashes>>
        BY <1>10 DEF ResendMail
    <2>. QED  BY <1>5, <2>2, <2>3 DEF TypeOK, ghosts
<1>11. CASE ResendStore(q)
    <2>1. pending' = [code |-> request[q].code, fresh |-> TRUE] /\ wrong' = 0
          /\ raced' \in BOOLEAN
        BY <1>11 DEF ResendStore, Store
    <2>2. UNCHANGED <<hook, attempts, window, account, mailed, mixed, unlimited, abandoned,
                   counters>>
        BY <1>11 DEF ResendStore
    <2>3. pending' \in [code : 0..codes, fresh : BOOLEAN]
        BY <1>6, <2>1
    <2>. QED  BY <1>5, <2>1, <2>2, <2>3 DEF TypeOK, counters
<1>. QED  BY <1>7, <1>8, <1>9, <1>10, <1>11

LEMMA VerifyTypes ==
    ASSUME TypeOK, Shapes, NEW q \in Requests,
           \/ Guess(q, TRUE) \/ Guess(q, FALSE) \/ Discard(q) \/ CountWrite(q)
           \/ DropSession(q) \/ ClearAttempts(q) \/ Cleanup(q)
    PROVE  TypeOK' /\ Shapes'
<1>1. request[q] \in Request /\ request[q].op = "verify"
    BY DEF TypeOK, Guess, Discard, CountWrite, DropSession, ClearAttempts, Cleanup, Is
<1>2. UNCHANGED <<hook, window, account, mailed, mixed, unlimited, abandoned, counters>>
    BY DEF Guess, Discard, CountWrite, DropSession, ClearAttempts, Cleanup, ghosts
<1>3. Rise /\ hook' = hook /\ (hook.at = "delete" => ~hook.was)
    BY <1>2 DEF Rise, TypeOK, Shapes, counters
<1>4. \/ End(q) \/ \E pc \in {"discard", "clear", "count", "drop", "signup"} : Goto(q, pc)
    BY DEF Guess, Discard, CountWrite, DropSession, ClearAttempts, Cleanup
<1>5. Shapes' /\ request' \in [Requests -> Request]
    <2>1. CASE End(q)
        BY <1>3, <2>1, EndMoves
    <2>2. CASE ~End(q)
        <3>1. PICK pc \in {"discard", "clear", "count", "drop", "signup"} : Goto(q, pc)
            BY <1>4, <2>2
        <3>2. pc \in StepsOf(request[q].op) /\ pc # "activate" /\ request[q].op # "none"
            BY <1>1, <3>1 DEF StepsOf
        <3>. QED  BY <1>3, <3>1, <3>2, GotoMoves
    <2>. QED  BY <2>1, <2>2
<1>6. attempts' \in Nat /\ wrong' \in Nat
    BY <1>1 DEF Guess, Discard, CountWrite, DropSession, ClearAttempts, Cleanup, Request, TypeOK,
                ghosts
<1>7. pending' = pending \/ pending' = NoSession
    BY DEF Guess, Discard, CountWrite, DropSession, ClearAttempts, Cleanup
<1>8. pending' \in [code : 0..codes, fresh : BOOLEAN]
    BY <1>7, NoneAreTyped DEF TypeOK
<1>9. raced' \in BOOLEAN
    BY DEF Guess, Discard, CountWrite, DropSession, ClearAttempts, Cleanup, TypeOK, ghosts
<1>. QED  BY <1>2, <1>5, <1>6, <1>8, <1>9 DEF TypeOK, counters

LEMMA AccountTypes ==
    ASSUME TypeOK, Shapes, NEW q \in Requests, SignUp(q) \/ Activate(q)
    PROVE  TypeOK' /\ Shapes'
<1>1. request[q] \in Request /\ request[q].op = "verify" /\ request[q].op # "none"
    BY DEF TypeOK, SignUp, Activate, Is
<1>2. UNCHANGED <<hook, pending, attempts, window, mailed, wrong, ghosts,
                  codes, calls, faults, crashes>>
    BY DEF SignUp, Activate, counters
<1>3. Rise /\ hook' = hook /\ (hook.at = "delete" => ~hook.was)
    BY <1>2 DEF Rise, TypeOK, Shapes, SignUp, Activate, counters
<1>4. Shapes' /\ request' \in [Requests -> Request]
    <2>1. CASE End(q)
        BY <1>3, <2>1, EndMoves
    <2>2. CASE SignUp(q) /\ ~End(q)
        <3>1. request' = [request EXCEPT ![q].pc = "activate", ![q].n = rowIds']
              /\ rowIds' = rowIds + 1
            BY <2>2 DEF SignUp
        <3>2. rowIds' \in Nat /\ rowIds' \in 1..rowIds'
            BY <3>1 DEF TypeOK
        <3>3. "activate" \in StepsOf(request[q].op)
            BY <1>1 DEF StepsOf
        <3>. QED  BY <1>1, <1>3, <3>1, <3>2, <3>3, NumberMoves
    <2>3. CASE Activate(q)
        <3>1. Goto(q, "cleanup") /\ "cleanup" \in StepsOf(request[q].op)
            BY <1>1, <2>3 DEF Activate, StepsOf
        <3>. QED  BY <1>1, <1>3, <3>1, GotoMoves
    <2>. QED  BY <2>1, <2>2, <2>3
<1>5. account' \in [id : 0..rowIds', verified : BOOLEAN, direct : BOOLEAN]
    <2>1. CASE SignUp(q)
        <3>1. CASE account # NoAccount
            BY <2>1, <3>1 DEF SignUp, TypeOK
        <3>2. CASE account = NoAccount
            <4>1. rowIds' = rowIds + 1
                  /\ account' = [id |-> rowIds', verified |-> FALSE, direct |-> FALSE]
                BY <2>1, <3>2 DEF SignUp
            <4>2. rowIds' \in 0..rowIds'
                BY <4>1 DEF TypeOK
            <4>. QED  BY <4>1, <4>2
        <3>. QED  BY <3>1, <3>2
    <2>2. CASE Activate(q)
        <3>1. account' = account \/ account' = [account EXCEPT !.verified = TRUE]
            BY <2>2 DEF Activate, Activated
        <3>2. rowIds' = rowIds
            BY <2>2 DEF Activate, counters
        <3>. QED  BY <3>1, <3>2 DEF TypeOK
    <2>. QED  BY <2>1, <2>2
<1>6. abandoned' \subseteq 1..rowIds'
    BY <1>2, <1>3 DEF TypeOK, Rise, ghosts
<1>. QED  BY <1>2, <1>3, <1>4, <1>5, <1>6 DEF TypeOK, ghosts, Rise

LEMMA HookTypes ==
    ASSUME TypeOK, Shapes, HookRead \/ HookDelete \/ DirectInsert \/ HookFails
    PROVE  TypeOK' /\ Shapes'
<1>1. UNCHANGED <<pending, attempts, window, request, mailed, wrong, ghosts, codes, calls, crashes>>
    BY DEF HookRead, HookDelete, DirectInsert, HookFails, counters
<1>2. Rise
    BY <1>1 DEF Rise, HookRead, HookDelete, DirectInsert, HookFails, counters, TypeOK
<1>3. /\ hook' \in [at : {"none", "delete", "insert"}, id : 0..rowIds, was : BOOLEAN,
                    n : 0..MaxSignUps]
      /\ hook'.at = "delete" => ~hook'.was
    <2>1. CASE HookRead
        <3>1. /\ hook'.at = "delete" => ~account.verified
              /\ hook'.was = account.verified
            BY <2>1 DEF HookRead, Leftover
        <3>2. hook.n + 1 \in 0..MaxSignUps /\ account.id \in 0..rowIds
              /\ account.verified \in BOOLEAN
            BY <2>1, ConstantsAssumption DEF HookRead, TypeOK
        <3>3. hook' \in [at : {"none", "delete", "insert"}, id : 0..rowIds, was : BOOLEAN,
                         n : 0..MaxSignUps]
            BY <2>1, <3>2 DEF HookRead
        <3>. QED  BY <3>1, <3>3
    <2>2. CASE HookDelete
        BY <2>2 DEF HookDelete, HookGoes, TypeOK
    <2>3. CASE DirectInsert \/ HookFails
        <3>1. hook' = [Unhooked EXCEPT !.n = hook.n] /\ hook.n \in 0..MaxSignUps
            BY <2>3 DEF DirectInsert, HookFails, HookEnds, TypeOK
        <3>. QED  BY <3>1, NoneAreTyped DEF Unhooked
    <2>. QED  BY <2>1, <2>2, <2>3
<1>4. hook' \in [at : {"none", "delete", "insert"}, id : 0..rowIds', was : BOOLEAN,
                 n : 0..MaxSignUps]
    BY <1>2, <1>3 DEF Rise, TypeOK
<1>5. account' \in [id : 0..rowIds', verified : BOOLEAN, direct : BOOLEAN]
    <2>1. CASE account' = account \/ account' = NoAccount
        <3>1. account' \in [id : 0..rowIds, verified : BOOLEAN, direct : BOOLEAN]
            BY <2>1, NoneAreTyped DEF TypeOK
        <3>2. 0..rowIds \subseteq 0..rowIds'
            BY <1>2 DEF Rise, TypeOK
        <3>. QED  BY <3>1, <3>2
    <2>2. CASE ~(account' = account \/ account' = NoAccount)
        <3>1. rowIds' = rowIds + 1
              /\ account' = [id |-> rowIds', verified |-> FALSE, direct |-> TRUE]
            BY <2>2 DEF HookRead, HookDelete, DirectInsert, HookFails
        <3>2. rowIds' \in 0..rowIds'
            BY <3>1 DEF TypeOK
        <3>. QED  BY <3>1, <3>2
    <2>. QED  BY <2>1, <2>2
<1>6. Shapes'
    <2>1. ASSUME NEW q \in Requests PROVE Shape(request[q])'
        <3>1. PICK k \in Request : k = request[q]
            BY DEF TypeOK
        <3>2. Shape(k)'
            BY <1>2, <3>1, ShapeStays DEF Shapes
        <3>. QED  BY <1>1, <3>1, <3>2
    <2>. QED  BY <1>3, <2>1 DEF Shapes
<1>7. faults' \in 0..MaxFaults
    BY ConstantsAssumption DEF HookRead, HookDelete, DirectInsert, HookFails, TypeOK, counters
<1>8. abandoned' \subseteq 1..rowIds'
    BY <1>1, <1>2 DEF TypeOK, Rise, ghosts
<1>. QED  BY <1>1, <1>2, <1>4, <1>5, <1>6, <1>7, <1>8 DEF TypeOK, ghosts, Rise

\* What time does to the session, the count and the counters.
LEMMA TickIs ==
    ASSUME TypeOK, Tick
    PROVE  /\ pending' \in {pending, NoSession, [pending EXCEPT !.fresh = FALSE]}
           /\ attempts' \in {attempts, 0}
           /\ \/ window' = window
              \/ \E c \in Counters : /\ window[c].ttl
                                     /\ window' = [window EXCEPT ![c] = [count |-> 0, ttl |-> FALSE]]
BY DEF Tick

LEMMA TickTypes ==
    ASSUME TypeOK, Shapes, Tick
    PROVE  TypeOK' /\ Shapes'
<1>1. UNCHANGED <<account, hook, request, mailed, wrong, mixed, unlimited, abandoned, counters>>
    BY DEF Tick
<1>2. Shapes'
    BY <1>1 DEF Shapes, Shape, counters
<1>3. pending' \in [code : 0..codes, fresh : BOOLEAN]
    BY TickIs, NoneAreTyped DEF TypeOK
<1>4. attempts' \in Nat
    BY TickIs DEF TypeOK
<1>5. window' \in [Counters -> [count : Nat, ttl : BOOLEAN]]
    <2>1. CASE window' = window
        BY <2>1 DEF TypeOK
    <2>2. CASE window' # window
        <3>1. PICK c \in Counters : window' = [window EXCEPT ![c] = [count |-> 0, ttl |-> FALSE]]
            BY <2>2, TickIs
        <3>2. [count |-> 0, ttl |-> FALSE] \in [count : Nat, ttl : BOOLEAN]
            OBVIOUS
        <3>. QED  BY <3>1, <3>2 DEF TypeOK
    <2>. QED  BY <2>1, <2>2
<1>6. raced' \in BOOLEAN
    BY DEF Tick
<1>. QED  BY <1>1, <1>2, <1>3, <1>4, <1>5, <1>6 DEF TypeOK, counters

LEMMA CutTypes ==
    ASSUME TypeOK, Shapes, NEW Q \in SUBSET Requests, Cut(Q),
           hook' = hook \/ HookEnds, faults' \in 0..MaxFaults, crashes' \in 0..MaxCrashes
    PROVE  TypeOK' /\ Shapes'
<1>1. UNCHANGED <<pending, attempts, window, account, mailed, wrong, codes, rowIds, calls>>
    BY DEF Cut
<1>2. Rise
    BY <1>1 DEF Rise, TypeOK
<1>3. /\ hook' \in [at : {"none", "delete", "insert"}, id : 0..rowIds, was : BOOLEAN,
                    n : 0..MaxSignUps]
      /\ hook'.at = "delete" => ~hook'.was
    <2>1. CASE hook' = hook
        BY <2>1 DEF TypeOK, Shapes
    <2>2. CASE HookEnds
        <3>1. hook' = [Unhooked EXCEPT !.n = hook.n] /\ hook.n \in 0..MaxSignUps
            BY <2>2 DEF HookEnds, TypeOK
        <3>. QED  BY <3>1, NoneAreTyped DEF Unhooked
    <2>. QED  BY <2>1, <2>2
<1>4. Shapes' /\ request' \in [Requests -> Request]
    BY <1>2, <1>3, CutMoves
<1>5. mixed' \in BOOLEAN /\ raced' \in BOOLEAN
    BY DEF Cut
<1>6. unlimited' \subseteq Counters
    BY DEF Cut, TypeOK
<1>7. abandoned' \subseteq 1..rowIds
    <2>1. abandoned' = abandoned \cup {request[q].n : q \in {p \in Q : Is(p, {"verify"}, "activate")}}
        BY DEF Cut
    <2>2. ASSUME NEW q \in Q, request[q].pc = "activate" PROVE request[q].n \in 1..rowIds
        BY <2>2 DEF Shapes, Shape
    <2>3. \A n \in abandoned' : n \in abandoned \/ \E q \in Q : request[q].pc = "activate" /\ n = request[q].n
        BY <2>1 DEF Is
    <2>4. abandoned \subseteq 1..rowIds
        BY DEF TypeOK
    <2>. QED  BY <2>2, <2>3, <2>4
<1>. QED  BY <1>1, <1>3, <1>4, <1>5, <1>6, <1>7 DEF TypeOK

LEMMA FaultTypes ==
    ASSUME TypeOK, Shapes, Crash \/ \E q \in Requests : CallFails(q) \/ ReadFails(q)
    PROVE  TypeOK' /\ Shapes'
<1>1. CASE Crash
    <2>1. Cut(Requests) /\ HookEnds /\ faults' = faults /\ crashes' = crashes + 1
          /\ crashes < MaxCrashes
        BY <1>1 DEF Crash
    <2>2. faults' \in 0..MaxFaults /\ crashes' \in 0..MaxCrashes
        BY <2>1, ConstantsAssumption DEF TypeOK
    <2>. QED  BY <2>1, <2>2, CutTypes
<1>2. ASSUME NEW q \in Requests, CallFails(q) PROVE TypeOK' /\ Shapes'
    <2>1. Cut({q}) /\ hook' = hook /\ faults' = faults + 1 /\ crashes' = crashes
          /\ faults < MaxFaults
        BY <1>2 DEF CallFails
    <2>2. faults' \in 0..MaxFaults /\ crashes' \in 0..MaxCrashes
        BY <2>1, ConstantsAssumption DEF TypeOK
    <2>. QED  BY <2>1, <2>2, CutTypes
<1>3. ASSUME NEW q \in Requests, ReadFails(q) PROVE TypeOK' /\ Shapes'
    <2>1. UNCHANGED <<hook, pending, attempts, window, account, mailed, wrong, mixed, unlimited,
                      abandoned, codes, rowIds, calls, crashes>>
        BY <1>3 DEF ReadFails
    <2>2. faults' \in 0..MaxFaults /\ raced' \in BOOLEAN
        BY <1>3, ConstantsAssumption DEF ReadFails, TypeOK
    <2>3. Rise /\ (hook'.at = "delete" => ~hook'.was)
        BY <2>1 DEF Rise, TypeOK, Shapes
    <2>4. Shapes' /\ request' \in [Requests -> Request]
        <3>1. CASE request[q].op = "register" /\ Goto(q, "limit")
            <4>1. "limit" \in StepsOf(request[q].op) /\ request[q].op # "none"
                BY <3>1 DEF StepsOf
            <4>. QED  BY <2>3, <3>1, <4>1, GotoMoves
        <3>2. CASE request[q].op = "verify"
                   /\ request' = [request EXCEPT ![q].pc = "write", ![q].n = 1]
            <4>1. "write" \in StepsOf(request[q].op) /\ request[q].op # "none"
                BY <3>2 DEF StepsOf
            <4>. QED  BY <2>3, <3>2, <4>1, NumberMoves
        <3>. QED  BY <1>3, <3>1, <3>2 DEF ReadFails, Is
    <2>. QED  BY <2>1, <2>2, <2>4 DEF TypeOK
<1>. QED  BY <1>1, <1>2, <1>3

LEMMA StepTypes == TypeOK /\ Shapes /\ [Next]_vars => TypeOK' /\ Shapes'
<1> SUFFICES ASSUME TypeOK, Shapes, [Next]_vars PROVE TypeOK' /\ Shapes'
    OBVIOUS
<1>1. ASSUME NEW q \in Requests, Register(q) \/ Resend(q) \/ Verify(q) PROVE TypeOK' /\ Shapes'
    BY <1>1, BeginTypes DEF Register, Resend, Verify
<1>2. CASE UNCHANGED vars
    BY <1>2 DEF vars, TypeOK, Shapes, Shape, counters, ghosts
<1>. QED  BY <1>1, <1>2, CountTypes, FailTypes, ReadTypes, SendTypes, VerifyTypes, AccountTypes,
             HookTypes, TickTypes, FaultTypes DEF Next

LEMMA InitTypes == Init => TypeOK /\ Shapes
<1> SUFFICES ASSUME Init PROVE TypeOK /\ Shapes
    OBVIOUS
<1>1. codes = 0 /\ rowIds = 0
    BY DEF Init
<1>2. NoSession \in [code : 0..codes, fresh : BOOLEAN]
    BY <1>1 DEF NoSession
<1>3. NoAccount \in [id : 0..rowIds, verified : BOOLEAN, direct : BOOLEAN]
    BY <1>1 DEF NoAccount
<1>4. Unhooked \in [at : {"none", "delete", "insert"}, id : 0..rowIds, was : BOOLEAN,
                    n : 0..MaxSignUps]
    BY <1>1, ConstantsAssumption DEF Unhooked
<1>5. request \in [Requests -> Request] /\ \A q \in Requests : request[q] = Free
    BY FreeIs DEF Init
<1>6. window \in [Counters -> [count : Nat, ttl : BOOLEAN]]
    BY DEF Init
<1>7. TypeOK
    <2>1. pending = NoSession /\ account = NoAccount /\ hook = Unhooked
        BY DEF Init
    <2>2. /\ attempts = 0 /\ mailed = 0 /\ wrong = 0 /\ mixed = FALSE /\ raced = FALSE
          /\ unlimited = {} /\ abandoned = {} /\ calls = 0 /\ faults = 0 /\ crashes = 0
        BY DEF Init
    <2>3. /\ attempts \in Nat /\ wrong \in Nat /\ mailed \in 0..codes
          /\ codes \in Nat /\ rowIds \in Nat /\ calls \in 0..MaxCalls
          /\ faults \in 0..MaxFaults /\ crashes \in 0..MaxCrashes
        BY <1>1, <2>2, ConstantsAssumption
    <2>. QED  BY <1>2, <1>3, <1>4, <1>5, <1>6, <2>1, <2>2, <2>3 DEF TypeOK
<1>8. Shapes
    BY <1>1, <1>5, FreeIs DEF Shapes, Shape, StepsOf, Init, Unhooked
<1>. QED  BY <1>7, <1>8

\* The state, each request and the hook are always of their types, and a request
\* is only at a call of its own route (users.service.ts:276-480).
THEOREM TypeCorrect == Spec => []TypeOK
<1>. QED  BY InitTypes, StepTypes, PTL DEF Spec

LEMMA Typed == Spec => [](TypeOK /\ Shapes)
<1>. QED  BY InitTypes, StepTypes, PTL DEF Spec

-----------------------------------------------------------------------------
(* What a step of one request leaves alone. *)

\* The calls that neither count nor lease, and do not fail.
Calls(q) ==
    \/ FindUser(q) \/ HasPending(q) \/ StorePending(q) \/ StoreAttempts(q) \/ MailNew(q)
    \/ ResendRead(q) \/ ResendMail(q) \/ ResendStore(q)
    \/ Guess(q, TRUE) \/ Guess(q, FALSE) \/ Discard(q)
    \/ Count(q) \/ CountWrite(q) \/ DropSession(q)
    \/ ClearAttempts(q) \/ SignUp(q) \/ Activate(q) \/ Cleanup(q)
Limits(q) == Throttle(q) \/ ThrottleExpire(q) \/ Limit(q) \/ LimitExpire(q)
Starts(q) == Register(q) \/ Resend(q) \/ Verify(q)
Hooks == HookRead \/ HookDelete \/ DirectInsert \/ HookFails

LEMMA NextIs ==
    Next <=> \/ \E q \in Requests : \/ Starts(q) \/ Limits(q) \/ ThrottleFails(q) \/ Calls(q)
                                    \/ CallFails(q) \/ ReadFails(q)
             \/ Hooks \/ Tick \/ Crash
BY DEF Next, Starts, Limits, Calls, Hooks

LEMMA OthersStay ==
    ASSUME TypeOK, Shapes, NEW q \in Requests,
           \/ Starts(q) \/ Limits(q) \/ ThrottleFails(q) \/ Calls(q) \/ CallFails(q)
           \/ ReadFails(q),
           NEW o \in Requests \ {q}
    PROVE  /\ request'[o].op = request[o].op /\ request'[o].pc = request[o].pc
           /\ request'[o].code = request[o].code /\ request'[o].n = request[o].n
           /\ request'[o].clean => request[o].clean
<1>1. CASE request'[o] = request[o]
    BY <1>1
<1>2. CASE \E pc \in {"attempts", "mail", "store"}, code \in Nat : Sent(q, pc, code)
    <2>1. PICK pc \in {"attempts", "mail", "store"}, code \in Nat : Sent(q, pc, code)
        BY <1>2
    <2>2. pc \in Steps
        BY DEF Steps
    <2>. QED  BY <2>1, <2>2, SentIs
<1>3. CASE Starts(q)
    BY <1>1, <1>3 DEF Starts, Register, Resend, Verify, Begin, TypeOK
<1>4. CASE Limits(q) \/ ThrottleFails(q)
    <2>1. End(q) \/ \E pc \in {"lease", "expire", Entry(request[q].op), Within(request[q].op)} : Goto(q, pc)
        BY <1>4 DEF Limits, Throttle, ThrottleExpire, Limit, LimitExpire, ThrottleFails, Counted
    <2>. QED  BY <1>1, <2>1 DEF End, Goto, TypeOK
<1>5. CASE CallFails(q)
    <2>1. Cut({q})
        BY <1>5 DEF CallFails
    <2>. QED  BY <1>1, <2>1, CutIs
<1>6. CASE ReadFails(q)
    <2>1. Goto(q, "limit") \/ request' = [request EXCEPT ![q].pc = "write", ![q].n = 1]
        BY <1>6 DEF ReadFails
    <2>. QED  BY <1>1, <2>1 DEF Goto, TypeOK
<1>7. CASE StorePending(q) \/ ResendMail(q) \/ ResendStore(q) \/ StoreAttempts(q)
    <2>1. NewCode \in Nat /\ request[q].code \in Nat
        BY DEF TypeOK, NewCode, Request
    <2>2. End(q) \/ \E pc \in {"attempts", "mail", "store"}, code \in {NewCode, request[q].code} :
                       Sent(q, pc, code)
        BY <1>7 DEF StorePending, ResendMail, ResendStore, StoreAttempts, Completed
    <2>3. CASE End(q)
        BY <1>1, <2>3 DEF End, TypeOK
    <2>. QED  BY <1>2, <2>1, <2>2, <2>3
<1>8. CASE \/ FindUser(q) \/ HasPending(q) \/ MailNew(q) \/ ResendRead(q)
           \/ Guess(q, TRUE) \/ Guess(q, FALSE) \/ Discard(q) \/ CountWrite(q)
           \/ DropSession(q) \/ ClearAttempts(q) \/ Activate(q) \/ Cleanup(q)
    <2>1. End(q) \/ \E pc \in {"pending", "limit", "mail", "discard", "clear", "count", "drop",
                               "signup", "cleanup"} : Goto(q, pc)
        BY <1>8 DEF FindUser, HasPending, MailNew, ResendRead, Guess, Discard, CountWrite,
                    DropSession, ClearAttempts, Activate, Cleanup, Completed
    <2>. QED  BY <1>1, <2>1 DEF End, Goto, TypeOK
<1>9. CASE Count(q) \/ SignUp(q)
    <2>1. \/ End(q)
          \/ request' = [request EXCEPT ![q].pc = "write", ![q].n = attempts + 1]
          \/ request' = [request EXCEPT ![q].pc = "activate", ![q].n = rowIds']
        BY <1>9 DEF Count, SignUp
    <2>. QED  BY <1>1, <2>1 DEF End, TypeOK
<1>. QED  BY <1>3, <1>4, <1>5, <1>6, <1>7, <1>8, <1>9 DEF Calls

-----------------------------------------------------------------------------
(* Counters close their window. *)

LEMMA WindowStays ==
    ASSUME TypeOK, WindowCloses, window' = window, unlimited \subseteq unlimited',
           \A o \in Requests, c \in Counters : Expiring(o, c) =>
               \/ request'[o].op = request[o].op /\ request'[o].pc = request[o].pc
               \/ c \in unlimited'
    PROVE  WindowCloses'
BY DEF WindowCloses, Expiring

\* A step of a request on counter c, after which c is accounted for.
LEMMA WindowMoves ==
    ASSUME TypeOK, WindowCloses, NEW q \in Requests, NEW c \in Counters,
           \A d \in Counters \ {c} : window'[d] = window[d],
           unlimited \subseteq unlimited',
           \A o \in Requests \ {q} : request'[o].op = request[o].op /\ request'[o].pc = request[o].pc,
           \A d \in Counters \ {c} : ~Expiring(q, d),
           window'[c].count > 0 /\ ~window'[c].ttl =>
              c \in unlimited' \/ \E o \in Requests : Expiring(o, c)'
    PROVE  WindowCloses'
<1> SUFFICES ASSUME NEW d \in Counters, window'[d].count > 0, ~window'[d].ttl
             PROVE  d \in unlimited' \/ \E o \in Requests : Expiring(o, d)'
    BY DEF WindowCloses
<1>1. CASE d = c
    BY <1>1
<1>2. CASE d # c
    <2>1. d \in unlimited \/ \E o \in Requests : Expiring(o, d)
        BY <1>2 DEF WindowCloses
    <2>2. ASSUME NEW o \in Requests, Expiring(o, d) PROVE Expiring(o, d)'
        <3>1. o # q
            BY <1>2, <2>2
        <3>. QED  BY <2>2, <3>1 DEF Expiring
    <2>. QED  BY <2>1, <2>2
<1>. QED  BY <1>1, <1>2

\* Counting a request on counter c, which only it leases at expire.
LEMMA CountWindow ==
    ASSUME TypeOK, Shapes, WindowCloses, NEW q \in Requests, NEW c \in Counters,
           NEW max \in Nat \ {0}, NEW expire \in Steps, NEW onward \in Steps,
           Counted(q, c, max, expire, onward), Limits(q), unlimited' = unlimited,
           \A d \in Counters : ~Expiring(q, d),
           \/ c = "address" /\ expire = "expire"
           \/ c = request[q].op /\ expire = "lease"
    PROVE  WindowCloses'
<1>1. /\ window'[c].count = window[c].count + 1 /\ window'[c].ttl = window[c].ttl
      /\ \A d \in Counters \ {c} : window'[d] = window[d]
      /\ \/ End(q) /\ window[c].count > 0
         \/ Goto(q, expire)
         \/ Goto(q, onward) /\ window[c].count > 0
    BY CountedIs
<1>2. \A o \in Requests \ {q} : request'[o].op = request[o].op /\ request'[o].pc = request[o].pc
    BY OthersStay
<1>3. ASSUME ~window'[c].ttl PROVE c \in unlimited' \/ \E o \in Requests : Expiring(o, c)'
    <2>1. CASE Goto(q, expire)
        <3>1. request'[q].op = request[q].op /\ request'[q].pc = expire
            BY <2>1, GotoIs
        <3>. QED  BY <3>1 DEF Expiring
    <2>2. CASE window[c].count > 0
        <3>1. c \in unlimited \/ \E o \in Requests : Expiring(o, c)
            BY <1>1, <1>3, <2>2 DEF WindowCloses
        <3>2. ASSUME NEW o \in Requests, Expiring(o, c) PROVE Expiring(o, c)'
            <4>1. o # q
                BY <3>2
            <4>. QED  BY <1>2, <3>2, <4>1 DEF Expiring
        <3>. QED  BY <3>1, <3>2
    <2>. QED  BY <1>1, <2>1, <2>2
<1>. QED  BY <1>1, <1>2, <1>3, WindowMoves

LEMMA WindowStep ==
    ASSUME TypeOK, Shapes, WindowCloses, [Next]_vars
    PROVE  WindowCloses'
<1>1. CASE UNCHANGED vars
    BY <1>1 DEF vars, WindowCloses, Expiring, ghosts
<1>2. ASSUME NEW q \in Requests, Starts(q) \/ Calls(q) \/ ReadFails(q) PROVE WindowCloses'
    <2>1. window' = window /\ unlimited' = unlimited
        BY <1>2 DEF Starts, Register, Resend, Verify, Begin, Calls, ReadFails, FindUser,
            HasPending, MailNew, ResendRead, Guess, Discard, CountWrite, DropSession,
            ClearAttempts, Activate, Cleanup, Completed, StorePending, ResendMail, ResendStore,
            StoreAttempts, Count, SignUp, ghosts
    <2>2. request[q].pc \notin {"expire", "lease"}
        BY <1>2, FreeIs DEF Starts, Register, Resend, Verify, Begin, Calls, ReadFails, FindUser,
            HasPending, MailNew, ResendRead, Guess, Discard, CountWrite, DropSession,
            ClearAttempts, Activate, Cleanup, Completed, StorePending, ResendMail, ResendStore,
            StoreAttempts, Count, SignUp, Is
    <2>3. \A o \in Requests \ {q} : request'[o].op = request[o].op /\ request'[o].pc = request[o].pc
        BY <1>2, OthersStay
    <2>. QED  BY <2>1, <2>2, <2>3, WindowStays DEF Expiring
<1>3. ASSUME NEW q \in Requests, Throttle(q) PROVE WindowCloses'
    <2>1. request[q].op \in Throttled /\ request[q].op \in {"register", "resend", "verify"}
        BY <1>3, ConstantsAssumption DEF Throttle, Shape, Shapes, StepsOf, Request, TypeOK
    <2>2. request[q].op \in Counters /\ Entry(request[q].op) \in Steps /\ "lease" \in Steps
        BY <2>1, EntryIs DEF Counters, Steps
    <2>3. Counted(q, request[q].op, MaxPerRoute, "lease", Entry(request[q].op))
          /\ unlimited' = unlimited
        BY <1>3 DEF Throttle, ghosts
    <2>4. \A d \in Counters : ~Expiring(q, d)
        BY <1>3 DEF Throttle, Expiring
    <2>5. Limits(q)
        BY <1>3 DEF Limits
    <2>. QED  BY <2>2, <2>3, <2>4, <2>5, CountWindow, ConstantsAssumption
<1>4. ASSUME NEW q \in Requests, Limit(q) PROVE WindowCloses'
    <2>1. /\ "address" \in Counters /\ Within(request[q].op) \in Steps /\ "expire" \in Steps
        BY DEF Counters, Steps, Within
    <2>2. Counted(q, "address", MaxPerWindow, "expire", Within(request[q].op))
          /\ unlimited' = unlimited
        BY <1>4 DEF Limit, ghosts
    <2>3. \A d \in Counters : ~Expiring(q, d)
        BY <1>4 DEF Limit, Expiring, Is
    <2>4. Limits(q)
        BY <1>4 DEF Limits
    <2>. QED  BY <2>1, <2>2, <2>3, <2>4, CountWindow, ConstantsAssumption
<1>5. ASSUME NEW q \in Requests, ThrottleExpire(q) \/ LimitExpire(q) PROVE WindowCloses'
    <2>1. Limits(q)
        BY <1>5 DEF Limits
    <2>2. PICK c \in Counters : Leased(c) /\ \A d \in Counters \ {c} : ~Expiring(q, d)
        <3>1. CASE ThrottleExpire(q)
            <4>1. request[q].op \in Counters
                BY <3>1 DEF ThrottleExpire, Shape, Shapes, StepsOf, Request, TypeOK, Counters
            <4>. QED  BY <3>1, <4>1 DEF ThrottleExpire, Expiring
        <3>2. CASE LimitExpire(q)
            BY <3>2 DEF LimitExpire, Expiring, Is, Counters
        <3>. QED  BY <1>5, <3>1, <3>2
    <2>3. /\ window'[c].count = window[c].count /\ (window'[c].ttl <=> window[c].count > 0)
          /\ \A d \in Counters \ {c} : window'[d] = window[d]
        BY <2>2, LeasedIs
    <2>4. unlimited' = unlimited
        BY <1>5 DEF ThrottleExpire, LimitExpire, ghosts
    <2>5. \A o \in Requests \ {q} : request'[o].op = request[o].op /\ request'[o].pc = request[o].pc
        BY <2>1, OthersStay
    <2>6. ~(window'[c].count > 0 /\ ~window'[c].ttl)
        BY <2>3
    <2>. QED  BY <2>2, <2>3, <2>4, <2>5, <2>6, WindowMoves
<1>6. ASSUME NEW q \in Requests, ThrottleFails(q) PROVE WindowCloses'
    <2>1. window' = window /\ unlimited \subseteq unlimited'
          /\ (request[q].pc = "lease" => request[q].op \in unlimited')
          /\ request[q].pc # "expire"
        BY <1>6 DEF ThrottleFails
    <2>2. \A o \in Requests \ {q} : request'[o].op = request[o].op /\ request'[o].pc = request[o].pc
        BY <1>6, OthersStay
    <2>. QED  BY <2>1, <2>2, WindowStays DEF Expiring
<1>7. ASSUME NEW Q \in SUBSET Requests, Cut(Q) PROVE WindowCloses'
    <2>1. /\ window' = window
          /\ unlimited' = unlimited \cup {c \in Counters : \E q \in Q : Expiring(q, c)}
        BY <1>7 DEF Cut
    <2>2. \A q \in Requests : request'[q] = IF q \in Q THEN Free ELSE request[q]
        BY <1>7, CutIs
    <2>. QED  BY <2>1, <2>2, WindowStays
<1>8. CASE Hooks
    <2>1. UNCHANGED <<window, request, unlimited>>
        BY <1>8 DEF Hooks, HookRead, HookDelete, DirectInsert, HookFails, ghosts
    <2>. QED  BY <2>1, WindowStays
<1>9. CASE Tick
    <2>1. UNCHANGED <<request, unlimited>>
        BY <1>9 DEF Tick
    <2>2. CASE window' = window
        BY <2>1, <2>2, WindowStays
    <2>3. CASE window' # window
        <3>1. PICK c \in Counters : window' = [window EXCEPT ![c] = [count |-> 0, ttl |-> FALSE]]
            BY <1>9, <2>3, TickIs
        <3>2. ASSUME NEW d \in Counters PROVE d # c => window'[d] = window[d]
            BY <3>1 DEF TypeOK
        <3>3. window'[c].count = 0
            BY <3>1 DEF TypeOK
        <3>. QED  BY <2>1, <3>2, <3>3 DEF WindowCloses, Expiring
    <2>. QED  BY <2>2, <2>3
<1>. QED  BY <1>1, <1>2, <1>3, <1>4, <1>5, <1>6, <1>7, <1>8, <1>9, NextIs DEF Limits, CallFails, Crash

\* A counter of the address or of a route is given its time to live by the
\* request that made it, unless an error or a crash came between INCR and EXPIRE
\* (users.service.ts:596-609, rate-limit.guard.ts:58-66).
THEOREM WindowsClose == Spec => []WindowCloses
<1>1. Init => WindowCloses
    BY DEF Init, WindowCloses
<1>2. TypeOK /\ Shapes /\ WindowCloses /\ [Next]_vars => WindowCloses'
    BY WindowStep
<1>. QED  BY <1>1, <1>2, Typed, PTL DEF Spec

-----------------------------------------------------------------------------
(* The row of the address. *)

\* Steps that leave the row and the rows given up alone, and end no activation.
LEMMA CauseStays ==
    ASSUME UnverifiedHasACause, account' = account, abandoned \subseteq abandoned',
           \A o \in Requests : Is(o, {"verify"}, "activate") =>
               \/ /\ request'[o].op = request[o].op /\ request'[o].pc = request[o].pc
                  /\ request'[o].n = request[o].n
               \/ request[o].n \in abandoned'
    PROVE  UnverifiedHasACause'
BY DEF UnverifiedHasACause, Is

LEMMA CauseStep ==
    ASSUME TypeOK, Shapes, UnverifiedHasACause, [Next]_vars
    PROVE  UnverifiedHasACause'
<1>1. CASE UNCHANGED vars
    BY <1>1, CauseStays DEF vars, ghosts
<1>2. ASSUME NEW q \in Requests,
             \/ Starts(q) \/ Limits(q) \/ ThrottleFails(q) \/ ReadFails(q)
             \/ Calls(q) /\ ~SignUp(q) /\ ~Activate(q)
      PROVE  UnverifiedHasACause'
    <2>1. account' = account /\ abandoned' = abandoned
        BY <1>2 DEF Starts, Register, Resend, Verify, Begin, Limits, Throttle, ThrottleExpire,
            Limit, LimitExpire, ThrottleFails, ReadFails, Calls, FindUser, HasPending, MailNew,
            ResendRead, Guess, Discard, CountWrite, DropSession, ClearAttempts, Cleanup,
            StorePending, ResendMail, ResendStore, StoreAttempts, Count, ghosts
    <2>2. request[q].pc # "activate"
        BY <1>2, FreeIs DEF Starts, Register, Resend, Verify, Begin, Limits, Throttle,
            ThrottleExpire, Limit, LimitExpire, ThrottleFails, ReadFails, Calls, FindUser,
            HasPending, MailNew, ResendRead, Guess, Discard, CountWrite, DropSession,
            ClearAttempts, Cleanup, StorePending, ResendMail, ResendStore, StoreAttempts, Count, Is
    <2>3. \A o \in Requests \ {q} : /\ request'[o].op = request[o].op
                                    /\ request'[o].pc = request[o].pc
                                    /\ request'[o].n = request[o].n
        BY <1>2, OthersStay
    <2>. QED  BY <2>1, <2>2, <2>3, CauseStays DEF Is
<1>3. ASSUME NEW q \in Requests, SignUp(q) PROVE UnverifiedHasACause'
    <2>1. Calls(q) /\ abandoned' = abandoned /\ request[q].pc = "signup"
        BY <1>3 DEF Calls, SignUp, Is, ghosts
    <2>2. \A o \in Requests \ {q} : /\ request'[o].op = request[o].op
                                    /\ request'[o].pc = request[o].pc
                                    /\ request'[o].n = request[o].n
        BY <2>1, OthersStay
    <2>3. CASE account # NoAccount
        <3>1. account' = account
            BY <1>3, <2>3 DEF SignUp
        <3>. QED  BY <2>1, <2>2, <3>1, CauseStays DEF Is
    <2>4. CASE account = NoAccount
        <3>1. /\ account' = [id |-> rowIds', verified |-> FALSE, direct |-> FALSE]
              /\ request' = [request EXCEPT ![q].pc = "activate", ![q].n = rowIds']
              /\ rowIds' = rowIds + 1 /\ request[q].op = "verify"
            BY <1>3, <2>4 DEF SignUp, Is
        <3>2. rowIds' \in Nat /\ "activate" \in Steps
            BY <3>1 DEF TypeOK, Steps
        <3>3. /\ request'[q].op = "verify" /\ request'[q].pc = "activate"
              /\ request'[q].n = rowIds'
            BY <3>1, <3>2, NumberIs
        <3>. QED  BY <3>1, <3>3 DEF UnverifiedHasACause, Is
    <2>. QED  BY <2>3, <2>4
<1>4. ASSUME NEW q \in Requests, Activate(q) PROVE UnverifiedHasACause'
    <2>1. Calls(q) /\ abandoned' = abandoned /\ account' = Activated(account, request[q].n)
        BY <1>4 DEF Calls, Activate, ghosts
    <2>2. \A o \in Requests \ {q} : /\ request'[o].op = request[o].op
                                    /\ request'[o].pc = request[o].pc
                                    /\ request'[o].n = request[o].n
        BY <2>1, OthersStay
    <2>3. CASE account.id = request[q].n
        <3>1. account'.verified
            BY <2>1, <2>3 DEF Activated, TypeOK
        <3>. QED  BY <3>1 DEF UnverifiedHasACause
    <2>4. CASE account.id # request[q].n
        <3>1. account' = account
            BY <2>1, <2>4 DEF Activated
        <3>. QED  BY <2>1, <2>2, <2>4, <3>1 DEF UnverifiedHasACause, Is
    <2>. QED  BY <2>3, <2>4
<1>5. ASSUME NEW Q \in SUBSET Requests, Cut(Q) PROVE UnverifiedHasACause'
    <2>1. /\ account' = account
          /\ abandoned' = abandoned \cup {request[q].n : q \in {p \in Q : Is(p, {"verify"}, "activate")}}
        BY <1>5 DEF Cut
    <2>2. \A q \in Requests : request'[q] = IF q \in Q THEN Free ELSE request[q]
        BY <1>5, CutIs
    <2>. QED  BY <2>1, <2>2, CauseStays
<1>6. CASE Hooks
    <2>1. UNCHANGED <<request, abandoned>>
        BY <1>6 DEF Hooks, HookRead, HookDelete, DirectInsert, HookFails, ghosts
    <2>2. CASE account' = account
        BY <2>1, <2>2, CauseStays
    <2>3. CASE account' # account
        <3>1. account' = NoAccount \/ account'.direct
            BY <1>6, <2>3 DEF Hooks, HookRead, HookDelete, DirectInsert, HookFails
        <3>. QED  BY <3>1 DEF UnverifiedHasACause
    <2>. QED  BY <2>2, <2>3
<1>7. CASE Tick
    BY <1>7, CauseStays DEF Tick
<1>. QED  BY <1>1, <1>2, <1>3, <1>4, <1>5, <1>6, <1>7, NextIs DEF CallFails, Crash

\* An unverified row is being activated, came in through better-auth, or its
\* activation was cut short (users.service.ts:462-480).
THEOREM UnverifiedExplained == Spec => []UnverifiedHasACause
<1>1. Init => UnverifiedHasACause
    BY DEF Init, UnverifiedHasACause
<1>2. TypeOK /\ Shapes /\ UnverifiedHasACause /\ [Next]_vars => UnverifiedHasACause'
    BY CauseStep
<1>. QED  BY <1>1, <1>2, Typed, PTL DEF Spec

\* Whose row goes away.
LEMMA KeptStep ==
    ASSUME TypeOK, Shapes, [Next]_vars, account.verified, account'.id # account.id
    PROVE  hook.at = "delete" /\ hook.id = account.id /\ ~hook.was
<1>1. account # NoAccount
    BY DEF NoAccount
<1>2. ASSUME NEW q \in Requests,
             \/ Starts(q) \/ Limits(q) \/ ThrottleFails(q) \/ ReadFails(q)
             \/ Calls(q) /\ ~Activate(q)
      PROVE  account' = account
    BY <1>1, <1>2 DEF Starts, Register, Resend, Verify, Begin, Limits, Throttle, ThrottleExpire,
            Limit, LimitExpire, ThrottleFails, ReadFails, Calls, FindUser, HasPending, MailNew,
            ResendRead, Guess, Discard, CountWrite, DropSession, ClearAttempts, Cleanup, SignUp,
            StorePending, ResendMail, ResendStore, StoreAttempts, Count, ghosts
<1>3. ASSUME NEW q \in Requests, Activate(q) PROVE account'.id = account.id
    BY <1>3 DEF Activate, Activated, TypeOK
<1>4. ASSUME NEW q \in Requests, CallFails(q) PROVE account' = account
    BY <1>4 DEF CallFails, Cut
<1>5. Tick \/ Crash \/ HookRead \/ HookFails \/ DirectInsert \/ UNCHANGED vars => account' = account
    BY <1>1 DEF Tick, Crash, Cut, HookRead, HookFails, DirectInsert, vars
<1>6. HookDelete
    BY <1>2, <1>3, <1>4, <1>5, NextIs DEF Calls, Hooks
<1>. QED  BY <1>6 DEF HookDelete, Shapes

\* A verified account is only taken away by a sign-up that had read it unverified
\* (auth.ts:160-172).
THEOREM VerifiedIsKept == Spec => VerifiedAccountIsKept
<1>1. TypeOK /\ Shapes /\ [Next]_vars =>
          [account.verified /\ account'.id /= account.id =>
              hook.at = "delete" /\ hook.id = account.id /\ ~hook.was]_vars
    BY KeptStep
<1>. QED  BY <1>1, Typed, PTL DEF Spec, VerifiedAccountIsKept

-----------------------------------------------------------------------------
(* Where a request goes. *)

\* The calls that neither compare, count nor send.
Quiet(q) ==
    \/ Starts(q) \/ Limits(q) \/ ThrottleFails(q)
    \/ FindUser(q) \/ HasPending(q) \/ ResendRead(q) \/ SignUp(q) \/ Activate(q)

LEMMA QuietIs ==
    ASSUME TypeOK, Shapes, NEW q \in Requests, Quiet(q)
    PROVE  /\ ~Counting(q) /\ ~Counting(q)' /\ ~Midway(request[q]) /\ ~Midway(request'[q])
           /\ UNCHANGED <<pending, attempts, mailed, wrong, mixed, raced>>
<1>1. UNCHANGED <<pending, attempts, mailed, wrong, mixed, raced>>
    BY DEF Quiet, Starts, Register, Resend, Verify, Begin, Limits, Throttle, ThrottleExpire,
           Limit, LimitExpire, ThrottleFails, FindUser, HasPending, ResendRead, SignUp, Activate,
           ghosts
<1>2. ~Counting(q) /\ ~Midway(request[q])
    BY FreeIs DEF Quiet, Starts, Register, Resend, Verify, Begin, Limits, Throttle,
           ThrottleExpire, Limit, LimitExpire, ThrottleFails, FindUser, HasPending, ResendRead,
           SignUp, Activate, Is, Counting, Midway
<1>3. ~Counting(q)' /\ ~Midway(request'[q])
    <2>1. CASE End(q)
        BY <2>1, EndIs, FreeIs DEF Counting, Midway
    <2>2. CASE Starts(q)
        <3>1. PICK op \in {"register", "resend", "verify"} : Begin(q, op)
            BY <2>2 DEF Starts, Register, Resend, Verify
        <3>2. request'[q].pc \in {"throttle", "user", "limit", "guess"}
            BY <3>1, BeginIs DEF Entry
        <3>. QED  BY <3>2 DEF Counting, Midway
    <2>3. CASE Limits(q) \/ ThrottleFails(q)
        <3>1. End(q) \/ \E pc \in {"lease", "expire", Entry(request[q].op), Within(request[q].op)} : Goto(q, pc)
            BY <2>3 DEF Limits, Throttle, ThrottleExpire, Limit, LimitExpire, ThrottleFails, Counted
        <3>2. Within(request[q].op) \in {"read", "store"}
            BY DEF Within
        <3>3. CASE ~End(q) /\ ~Goto(q, Entry(request[q].op))
            <4>1. PICK pc \in {"lease", "expire", "read", "store"} :
                     Goto(q, pc) /\ (pc = "store" => request[q].op = "register")
                BY <3>1, <3>2, <3>3 DEF Within
            <4>2. request'[q].pc = pc /\ request'[q].op = request[q].op
                BY <4>1, GotoIs DEF Steps
            <4>. QED  BY <4>1, <4>2 DEF Counting, Midway
        <3>4. CASE Goto(q, Entry(request[q].op)) /\ ~End(q)
            <4>1. CASE request[q].op \in {"register", "resend", "verify"}
                <5>1. PICK pc \in {"user", "limit", "guess"} : Goto(q, pc)
                    BY <3>4, <4>1 DEF Entry
                <5>2. request'[q].pc = pc
                    BY <5>1, GotoIs DEF Steps
                <5>. QED  BY <5>2 DEF Counting, Midway
            <4>2. CASE request[q].op \notin {"register", "resend", "verify"}
                <5>1. request[q] = Free
                    BY <4>2 DEF TypeOK, Request, Shapes, Shape
                <5>2. request[q].pc # "done"
                    BY <2>3 DEF Limits, Throttle, ThrottleExpire, Limit, LimitExpire,
                                ThrottleFails, Is
                <5>. QED  BY <5>1, <5>2, FreeIs
            <4>. QED  BY <4>1, <4>2
        <3>. QED  BY <2>1, <3>3, <3>4
    <2>4. CASE (FindUser(q) \/ HasPending(q) \/ ResendRead(q) \/ Activate(q)) /\ ~End(q)
        <3>1. PICK pc \in {"pending", "limit", "mail", "cleanup"} :
                 Goto(q, pc) /\ (pc = "mail" => request[q].op = "resend")
            BY <2>4 DEF FindUser, HasPending, ResendRead, Activate, Is
        <3>2. request'[q].pc = pc /\ request'[q].op = request[q].op
            BY <3>1, GotoIs DEF Steps
        <3>. QED  BY <3>1, <3>2 DEF Counting, Midway
    <2>5. CASE SignUp(q) /\ ~End(q)
        <3>1. request' = [request EXCEPT ![q].pc = "activate", ![q].n = rowIds']
              /\ rowIds' = rowIds + 1
            BY <2>5 DEF SignUp
        <3>2. rowIds' \in Nat /\ "activate" \in Steps
            BY <3>1 DEF TypeOK, Steps
        <3>3. request'[q].pc = "activate"
            BY <3>1, <3>2, NumberIs
        <3>. QED  BY <3>3 DEF Counting, Midway
    <2>. QED  BY <2>1, <2>2, <2>3, <2>4, <2>5 DEF Quiet
<1>. QED  BY <1>1, <1>2, <1>3

LEMMA QuietOthers ==
    ASSUME TypeOK, Shapes, NEW q \in Requests, Quiet(q), NEW o \in Requests \ {q}
    PROVE  /\ request'[o].op = request[o].op /\ request'[o].pc = request[o].pc
           /\ request'[o].code = request[o].code /\ request'[o].n = request[o].n
           /\ request'[o].clean => request[o].clean
BY OthersStay DEF Quiet, Calls

-----------------------------------------------------------------------------
(* Wrong codes. *)

\* The request of the step counts nothing.
LEMMA GuessesStay ==
    ASSUME TypeOK, Guesses, NEW q \in Requests, ~Counting(q), ~Counting(q)',
           \A o \in Requests \ {q} : request'[o].pc = request[o].pc /\ request'[o].n = request[o].n,
           pending' = pending, attempts' = attempts, wrong' = wrong, raced => raced'
    PROVE  Guesses'
BY DEF Guesses, Counting

\* Nobody counts, and the count says enough.
LEMMA GuessesStart ==
    ASSUME pending' # NoSession /\ ~raced' =>
              /\ \A o \in Requests : ~Counting(o)'
              /\ wrong' < MaxAttempts /\ attempts' >= wrong'
    PROVE  Guesses'
BY DEF Guesses, Counting

\* The request that stores a session or clears the count does not count, and
\* the others stay where they are.
LEMMA ResetIs ==
    ASSUME TypeOK, Shapes, NEW q \in Requests,
           \/ StorePending(q) \/ ResendStore(q) \/ StoreAttempts(q) \/ ClearAttempts(q)
           \/ MailNew(q) \/ ResendMail(q)
    PROVE  /\ ~Counting(q) /\ ~Counting(q)'
           /\ \A o \in Requests \ {q} : request'[o].pc = request[o].pc /\ request'[o].n = request[o].n
<1>1. ~Counting(q)
    BY DEF StorePending, ResendStore, StoreAttempts, ClearAttempts, MailNew, ResendMail, Is, Counting
<1>2. \A o \in Requests \ {q} : request'[o].pc = request[o].pc /\ request'[o].n = request[o].n
    BY OthersStay DEF Calls
<1>3. ~Counting(q)'
    <2>1. CASE End(q)
        BY <2>1, EndIs, FreeIs DEF Counting
    <2>2. CASE Goto(q, "signup")
        BY <2>2, GotoIs DEF Counting, Steps
    <2>3. CASE ~End(q) /\ ~Goto(q, "signup")
        <3>1. PICK pc \in {"attempts", "mail", "store"}, code \in {NewCode, request[q].code} :
                 Sent(q, pc, code)
            BY <2>3 DEF StorePending, ResendStore, StoreAttempts, ClearAttempts, MailNew,
                        ResendMail, Completed
        <3>2. code \in Nat /\ pc \in Steps
            BY <3>1 DEF TypeOK, Request, NewCode, Steps
        <3>3. request'[q].pc = pc
            BY <3>1, <3>2, SentIs
        <3>. QED  BY <3>3 DEF Counting
    <2>. QED  BY <2>1, <2>2, <2>3
<1>. QED  BY <1>1, <1>2, <1>3

LEMMA GuessStep ==
    ASSUME TypeOK, Shapes, Guesses, [Next]_vars
    PROVE  Guesses'
<1>1. CASE UNCHANGED vars
    BY <1>1 DEF vars, ghosts, Guesses, Counting
<1>2. ASSUME NEW q \in Requests, Quiet(q) PROVE Guesses'
    BY <1>2, QuietIs, QuietOthers, GuessesStay
<1>3. ASSUME NEW q \in Requests, MailNew(q) \/ ResendMail(q) PROVE Guesses'
    <2>1. UNCHANGED <<pending, attempts, wrong, raced>>
        BY <1>3 DEF MailNew, ResendMail, ghosts
    <2>. QED  BY <1>3, <2>1, ResetIs, GuessesStay
<1>4. ASSUME NEW q \in Requests, StorePending(q) \/ ResendStore(q) PROVE Guesses'
    <2>1. wrong' = 0 /\ attempts' = attempts /\ raced' = \E o \in Requests : Counting(o)
        BY <1>4 DEF StorePending, ResendStore, Store
    <2>2. ASSUME ~raced', NEW o \in Requests PROVE ~Counting(o)'
        BY <1>4, <2>1, <2>2, ResetIs DEF Counting
    <2>3. wrong' < MaxAttempts /\ attempts' >= wrong'
        BY <2>1, ConstantsAssumption DEF TypeOK
    <2>. QED  BY <2>2, <2>3, GuessesStart
<1>5. ASSUME NEW q \in Requests, StoreAttempts(q) \/ ClearAttempts(q) PROVE Guesses'
    <2>1. wrong' = wrong /\ attempts' = 0 /\ (raced' <=> raced \/ wrong > 0) /\ pending' = pending
        BY <1>5 DEF StoreAttempts, ClearAttempts, TypeOK
    <2>2. ASSUME pending' # NoSession, ~raced', NEW o \in Requests PROVE ~Counting(o)'
        <3>1. ~Counting(o)
            BY <2>1, <2>2 DEF Guesses, TypeOK
        <3>. QED  BY <1>5, <3>1, ResetIs DEF Counting
    <2>3. ~raced' => wrong' < MaxAttempts /\ attempts' >= wrong'
        BY <2>1, ConstantsAssumption DEF TypeOK
    <2>. QED  BY <2>2, <2>3, GuessesStart
<1>6. ASSUME NEW q \in Requests, Guess(q, TRUE) \/ Guess(q, FALSE) PROVE Guesses'
    <2>1. /\ pending' = pending /\ attempts' = attempts /\ ~Counting(q)
          /\ \A o \in Requests \ {q} : request'[o].pc = request[o].pc /\ request'[o].n = request[o].n
        BY <1>6, OthersStay DEF Calls, Guess, Is, Counting
    <2>2. CASE End(q)
        <3>1. ~Counting(q)'
            BY <2>2, EndIs, FreeIs DEF Counting
        <3>2. request'[q] = Free
            BY <2>2, EndIs
        <3>3. ~Goto(q, "count") /\ ~Goto(q, "discard") /\ ~Goto(q, "clear")
            BY <3>2, GotoIs, FreeIs DEF Steps
        <3>4. UNCHANGED <<wrong, raced>>
            BY <1>6, <3>3 DEF Guess
        <3>. QED  BY <2>1, <3>1, <3>4, GuessesStay
    <2>3. CASE Goto(q, "discard") \/ Goto(q, "clear")
        <3>1. request'[q].pc \in {"discard", "clear"}
            BY <2>3, GotoIs DEF Steps
        <3>2. ~Goto(q, "count")
            BY <3>1, GotoIs DEF Steps
        <3>3. UNCHANGED <<wrong, raced>> /\ ~Counting(q)'
            BY <1>6, <3>1, <3>2 DEF Guess, Counting
        <3>. QED  BY <2>1, <3>3, GuessesStay
    <2>4. CASE ~End(q) /\ ~Goto(q, "discard") /\ ~Goto(q, "clear")
        <3>1. /\ Goto(q, "count") /\ wrong' = wrong + 1 /\ pending # NoSession /\ pending.fresh
              /\ (raced' <=> raced \/ \E o \in Requests \ {q} : Counting(o))
            BY <1>6, <2>4 DEF Guess, TypeOK
        <3>2. request'[q].pc = "count"
            BY <3>1, GotoIs DEF Steps
        <3> SUFFICES ASSUME ~raced' PROVE Guesses'
            BY DEF Guesses
        <3>3. \A o \in Requests : ~Counting(o)
            BY <2>1, <3>1
        <3>4. wrong < MaxAttempts /\ attempts >= wrong
            BY <3>1, <3>3 DEF Guesses
        <3>5. \A o \in Requests \ {q} : ~Counting(o)' /\ request'[o].pc \notin {"count", "write"}
            BY <2>1, <3>3 DEF Counting
        <3>6. wrong' >= 1 /\ attempts' >= wrong' - 1 /\ Counting(q)'
            BY <2>1, <3>1, <3>2, <3>4 DEF TypeOK, Counting
        <3>. QED  BY <3>2, <3>5, <3>6 DEF Guesses
    <2>. QED  BY <2>2, <2>3, <2>4
<1>7. ASSUME NEW q \in Requests, Discard(q) \/ DropSession(q) \/ Cleanup(q) PROVE Guesses'
    BY <1>7 DEF Discard, DropSession, Cleanup, Guesses
<1>8. ASSUME NEW q \in Requests, Count(q) PROVE Guesses'
    <2>1. /\ UNCHANGED <<pending, attempts, wrong, raced>>
          /\ request' = [request EXCEPT ![q].pc = "write", ![q].n = attempts + 1]
          /\ request[q].pc = "count"
        BY <1>8 DEF Count, Is, ghosts
    <2>2. \A o \in Requests \ {q} : request'[o].pc = request[o].pc /\ request'[o].n = request[o].n
        BY <1>8, OthersStay DEF Calls
    <2>3. "write" \in Steps /\ attempts + 1 \in Nat
        BY DEF Steps, TypeOK
    <2>4. request'[q].pc = "write" /\ request'[q].n = attempts + 1
        <3>1. PICK n \in Nat : n = attempts + 1
            BY <2>3
        <3>2. request' = [request EXCEPT ![q].pc = "write", ![q].n = n]
            BY <2>1, <3>1
        <3>3. request'[q].pc = "write" /\ request'[q].n = n
            BY <2>3, <3>2, NumberIs
        <3>. QED  BY <3>1, <3>3
    <2> SUFFICES ASSUME pending # NoSession, ~raced PROVE Guesses'
        BY <2>1 DEF Guesses
    <2>5. Counting(q) /\ Counting(q)'
        BY <2>1, <2>4 DEF Counting
    <2>6. wrong >= 1 /\ attempts >= wrong - 1 /\ \A o \in Requests \ {q} : ~Counting(o)
        BY <2>1, <2>5 DEF Guesses
    <2>7. \A o \in Requests \ {q} : ~Counting(o)' /\ request'[o].pc \notin {"count", "write"}
        BY <2>2, <2>6 DEF Counting
    <2>8. wrong' >= 1 /\ request'[q].n >= wrong'
        BY <2>1, <2>4, <2>6 DEF TypeOK
    <2>. QED  BY <2>4, <2>5, <2>7, <2>8 DEF Guesses
<1>9. ASSUME NEW q \in Requests, CountWrite(q) PROVE Guesses'
    <2>1. /\ UNCHANGED <<pending, wrong, raced>> /\ attempts' = request[q].n
          /\ request[q].pc = "write"
        BY <1>9 DEF CountWrite, Is, ghosts
    <2>2. \A o \in Requests \ {q} : request'[o].pc = request[o].pc /\ request'[o].n = request[o].n
        BY <1>9, OthersStay DEF Calls
    <2> SUFFICES ASSUME pending # NoSession, ~raced PROVE Guesses'
        BY <2>1 DEF Guesses
    <2>3. wrong >= 1 /\ request[q].n >= wrong /\ \A o \in Requests \ {q} : ~Counting(o)
        BY <2>1 DEF Guesses, Counting
    <2>4. \A o \in Requests \ {q} : ~Counting(o)' /\ request'[o].pc \notin {"count", "write"}
        BY <2>2, <2>3 DEF Counting
    <2>5. CASE TooMany(request[q].n)
        <3>1. Goto(q, "drop")
            BY <1>9, <2>5 DEF CountWrite
        <3>2. request'[q].pc = "drop"
            BY <3>1, GotoIs DEF Steps
        <3>. QED  BY <2>1, <2>3, <2>4, <3>2 DEF Guesses, Counting
    <2>6. CASE ~TooMany(request[q].n)
        <3>1. End(q)
            BY <1>9, <2>6 DEF CountWrite
        <3>2. request'[q].pc = "done"
            BY <3>1, EndIs, FreeIs
        <3>3. wrong' < MaxAttempts /\ attempts' >= wrong'
            BY <2>1, <2>3, <2>6, ConstantsAssumption DEF TooMany, TypeOK, Request
        <3>4. \A o \in Requests : ~Counting(o)'
            BY <2>4, <3>2 DEF Counting
        <3>. QED  BY <3>3, <3>4, GuessesStart
    <2>. QED  BY <2>5, <2>6
<1>10. ASSUME NEW Q \in SUBSET Requests, Cut(Q) PROVE Guesses'
    <2>1. /\ UNCHANGED <<pending, attempts, wrong>>
          /\ (raced' <=> raced \/ \E q \in Q : Counting(q))
        BY <1>10 DEF Cut, TypeOK
    <2>2. \A q \in Requests : request'[q] = IF q \in Q THEN Free ELSE request[q]
        BY <1>10, CutIs
    <2> SUFFICES ASSUME pending # NoSession, ~raced' PROVE Guesses'
        BY <2>1 DEF Guesses
    <2>3. \A q \in Requests : \/ request'[q] = request[q]
                              \/ ~Counting(q) /\ ~Counting(q)' /\ request'[q].pc \notin {"count", "write"}
        BY <2>1, <2>2, FreeIs DEF Counting
    <2>4. \A q \in Requests : Counting(q) <=> Counting(q)'
        BY <2>3 DEF Counting
    <2>5. ~raced
        BY <2>1
    <2>6. \A q \in Requests :
              /\ Counting(q)' => wrong >= 1
              /\ request'[q].pc = "count" => attempts >= wrong - 1
              /\ request'[q].pc = "write" => request'[q].n >= wrong
        BY <2>3, <2>4, <2>5 DEF Guesses
    <2>7. \A q, p \in Requests : Counting(q)' /\ Counting(p)' => q = p
        BY <2>4, <2>5 DEF Guesses
    <2>8. (\A q \in Requests : ~Counting(q)') =>
              wrong < MaxAttempts /\ (pending.fresh => attempts >= wrong)
        BY <2>4, <2>5 DEF Guesses
    <2>. QED  BY <2>1, <2>6, <2>7, <2>8 DEF Guesses
<1>11. ASSUME NEW q \in Requests, ReadFails(q) PROVE Guesses'
    BY <1>11 DEF ReadFails, Guesses
<1>12. CASE Hooks
    <2>1. UNCHANGED <<pending, attempts, wrong, raced, request>>
        BY <1>12 DEF Hooks, HookRead, HookDelete, DirectInsert, HookFails, ghosts
    <2>. QED  BY <2>1 DEF Guesses, Counting
<1>13. CASE Tick
    <2>1. /\ UNCHANGED <<request, wrong>>
          /\ (raced' <=> raced \/ (attempts' < attempts /\ \E q \in Requests : Counting(q)))
        BY <1>13 DEF Tick, TypeOK
    <2> SUFFICES ASSUME pending' # NoSession, ~raced' PROVE Guesses'
        BY DEF Guesses
    <2>2. pending # NoSession /\ (pending'.fresh => pending.fresh)
        BY <1>13 DEF Tick, NoSession, TypeOK
    <2>3. CASE attempts' = attempts
        <3>1. ~raced
            BY <2>1
        <3>2. \A q, p \in Requests : Counting(q)' /\ Counting(p)' => q = p
            BY <2>1, <2>2, <3>1 DEF Guesses, Counting
        <3>3. \A q \in Requests :
                  /\ Counting(q)' => wrong' >= 1
                  /\ request'[q].pc = "count" => attempts' >= wrong' - 1
                  /\ request'[q].pc = "write" => request'[q].n >= wrong'
            BY <2>1, <2>2, <2>3, <3>1 DEF Guesses, Counting
        <3>4. (\A q \in Requests : ~Counting(q)) =>
                  wrong < MaxAttempts /\ (pending.fresh => attempts >= wrong)
            BY <2>2, <3>1 DEF Guesses
        <3>5. (\A q \in Requests : ~Counting(q)') =>
                  wrong' < MaxAttempts /\ (pending'.fresh => attempts' >= wrong')
            BY <2>1, <2>2, <2>3, <3>4 DEF Counting
        <3>. QED  BY <3>2, <3>3, <3>5 DEF Guesses
    <2>4. CASE attempts' # attempts
        <3>1. attempts' < attempts /\ ~pending.fresh /\ pending' = pending
            BY <1>13, <2>4 DEF Tick, TypeOK
        <3>2. \A q \in Requests : ~Counting(q)
            BY <2>1, <3>1
        <3>3. wrong < MaxAttempts
            BY <2>1, <2>2, <3>2 DEF Guesses
        <3>. QED  BY <2>1, <3>1, <3>2, <3>3 DEF Guesses, Counting
    <2>. QED  BY <2>3, <2>4
<1>. QED  BY <1>1, <1>2, <1>3, <1>4, <1>5, <1>6, <1>7, <1>8, <1>9, <1>10, <1>11, <1>12, <1>13,
             NextIs DEF Calls, Quiet, CallFails, Crash

\* A session does not outlive its last allowed wrong code, unless the guesses
\* overlapped or their count was cleared (users.service.ts:446-453).
THEOREM GuessesBounded == Spec => []GuessesAreBounded
<1>1. Init => Guesses
    BY DEF Init, Guesses
<1>2. TypeOK /\ Shapes /\ Guesses /\ [Next]_vars => Guesses'
    BY GuessStep
<1>3. Guesses => GuessesAreBounded
    BY DEF Guesses, GuessesAreBounded
<1>. QED  BY <1>1, <1>2, <1>3, Typed, PTL DEF Spec

-----------------------------------------------------------------------------
(* Sends. *)

LEMMA MidwaySends == ASSUME NEW q \in Requests, Midway(request[q]) PROVE Sending(q)
BY DEF Midway, Sending

\* The request of the step is midway neither before nor after it.
LEMMA SendsStay ==
    ASSUME Sends, NEW q \in Requests, ~Midway(request[q]), ~Midway(request'[q]),
           \A o \in Requests \ {q} :
              /\ request'[o].op = request[o].op /\ request'[o].pc = request[o].pc
              /\ request'[o].code = request[o].code
              /\ request'[o].clean => request[o].clean,
           pending' = NoSession \/ (pending'.code = pending.code /\ pending # NoSession)
              \/ pending' = pending,
           mailed' = mailed, mixed' = mixed
    PROVE  Sends'
<1>1. ASSUME NEW o \in Requests, request'[o].clean, Midway(request'[o])
      PROVE  /\ \A p \in Requests \ {o} : ~Midway(request'[p])
             /\ request'[o].op = "register" => Kept(request[o])'
             /\ request'[o].op = "resend" => mailed' = request'[o].code
             /\ request'[o].op = "resend" /\ request'[o].pc = "attempts" => Kept(request[o])'
    <2>1. o # q
        BY <1>1
    <2>2. request[o].clean /\ Midway(request[o])
        BY <1>1, <2>1 DEF Midway
    <2>3. Kept(request[o]) => Kept(request[o])'
        BY <2>1 DEF Kept
    <2>4. \A p \in Requests \ {o} : ~Midway(request'[p])
        BY <2>2 DEF Sends, Midway
    <2>. QED  BY <2>1, <2>2, <2>3, <2>4 DEF Sends
<1>2. ASSUME ~mixed', \A o \in Requests : ~Midway(request'[o])
      PROVE  pending' = NoSession \/ pending'.code = mailed'
    <2>1. \A o \in Requests : ~Midway(request[o])
        BY <1>2 DEF Midway
    <2>. QED  BY <1>2, <2>1 DEF Sends
<1>. QED  BY <1>1, <1>2 DEF Sends

\* A step of a send that is midway afterwards.
LEMMA SendsGoOn ==
    ASSUME TypeOK, Sends, NEW q \in Requests, NEW pc \in Steps, NEW code \in Nat,
           Sent(q, pc, code), Midway(request'[q]),
           request'[q].clean =>
              /\ request'[q].op = "register" => Kept(request[q])'
              /\ request'[q].op = "resend" => mailed' = request'[q].code
              /\ request'[q].op = "resend" /\ request'[q].pc = "attempts" => Kept(request[q])'
    PROVE  Sends'
<1>1. /\ request'[q].clean <=> request[q].clean /\ ~Others(q)
      /\ \A o \in Requests \ {q} :
            /\ request'[o].op = request[o].op /\ request'[o].pc = request[o].pc
            /\ request'[o].clean <=> request[o].clean /\ ~Sending(o)
    BY SentIs
<1>2. ASSUME NEW o \in Requests \ {q}, request'[o].clean PROVE ~Midway(request'[o])
    <2>1. ~Sending(o)
        BY <1>1, <1>2
    <2>2. ~Midway(request[o])
        BY <2>1, MidwaySends
    <2>. QED  BY <1>1, <2>2 DEF Midway
<1>3. ASSUME request'[q].clean, NEW o \in Requests \ {q} PROVE ~Midway(request'[o])
    <2>1. ~Sending(o)
        BY <1>1, <1>3 DEF Others
    <2>2. ~Midway(request[o])
        BY <2>1, MidwaySends
    <2>. QED  BY <1>1, <2>2 DEF Midway
<1>. QED  BY <1>2, <1>3 DEF Sends

\* The last step of a send.
LEMMA SendsEnd ==
    ASSUME TypeOK, Shapes, Sends, NEW q \in Requests, Midway(request[q]), End(q),
           mixed' = ~(request[q].clean /\ ~Others(q)),
           request[q].clean => pending' = NoSession \/ pending'.code = mailed'
    PROVE  Sends'
<1>1. request'[q] = Free /\ \A o \in Requests \ {q} : request'[o] = request[o]
    BY EndIs DEF Alone
<1>2. ASSUME NEW o \in Requests, request'[o].clean PROVE ~Midway(request'[o])
    <2>1. CASE o = q
        BY <1>1, <2>1, FreeIs DEF Midway
    <2>2. CASE o # q
        BY <1>1, <1>2, <2>2 DEF Sends
    <2>. QED  BY <2>1, <2>2
<1>3. ~mixed' => pending' = NoSession \/ pending'.code = mailed'
    OBVIOUS
<1>. QED  BY <1>2, <1>3 DEF Sends

LEMMA SendStep ==
    ASSUME TypeOK, Shapes, Sends, [Next]_vars
    PROVE  Sends'
<1>1. CASE UNCHANGED vars
    BY <1>1 DEF vars, ghosts, Sends, Kept, Midway
<1>2. ASSUME NEW q \in Requests, Quiet(q) PROVE Sends'
    BY <1>2, QuietIs, QuietOthers, SendsStay
<1>3. ASSUME NEW q \in Requests,
             \/ Guess(q, TRUE) \/ Guess(q, FALSE) \/ Discard(q) \/ Count(q) \/ CountWrite(q)
             \/ DropSession(q) \/ ClearAttempts(q) \/ Cleanup(q) \/ ReadFails(q)
      PROVE  Sends'
    <2>1. mailed' = mailed /\ mixed' = mixed /\ (pending' = pending \/ pending' = NoSession)
        BY <1>3 DEF Guess, Discard, Count, CountWrite, DropSession, ClearAttempts, Cleanup,
                    ReadFails, ghosts
    <2>2. request[q].op = "verify" \/ request[q].pc = "pending"
        BY <1>3 DEF Guess, Discard, Count, CountWrite, DropSession, ClearAttempts, Cleanup,
                    ReadFails, Is
    <2>3. \A o \in Requests \ {q} :
              /\ request'[o].op = request[o].op /\ request'[o].pc = request[o].pc
              /\ request'[o].code = request[o].code
              /\ request'[o].clean => request[o].clean
        BY <1>3, OthersStay DEF Calls
    <2>4. ~Midway(request'[q])
        <3>1. CASE End(q)
            BY <3>1, EndIs, FreeIs DEF Midway
        <3>2. CASE \E pc \in {"discard", "clear", "count", "drop", "signup", "limit"} : Goto(q, pc)
            <4>1. PICK pc \in {"discard", "clear", "count", "drop", "signup", "limit"} : Goto(q, pc)
                BY <3>2
            <4>2. request'[q].pc = pc
                BY <4>1, GotoIs DEF Steps
            <4>. QED  BY <4>2 DEF Midway
        <3>3. CASE \E n \in Nat : request' = [request EXCEPT ![q].pc = "write", ![q].n = n]
            <4>1. PICK n \in Nat : request' = [request EXCEPT ![q].pc = "write", ![q].n = n]
                BY <3>3
            <4>2. request'[q].pc = "write"
                BY <4>1, NumberIs DEF Steps
            <4>. QED  BY <4>2 DEF Midway
        <3>4. attempts + 1 \in Nat /\ 1 \in Nat
            BY DEF TypeOK
        <3>. QED  BY <1>3, <3>1, <3>2, <3>3, <3>4 DEF Guess, Discard, Count, CountWrite,
                     DropSession, ClearAttempts, Cleanup, ReadFails
    <2>5. ~Midway(request[q])
        BY <2>2 DEF Midway
    <2>. QED  BY <2>1, <2>3, <2>4, <2>5, SendsStay
<1>4. NewCode \in Nat /\ \A q \in Requests : request[q].code \in Nat
    BY DEF NewCode, TypeOK, Request
<1>5. {"attempts", "mail", "store"} \subseteq Steps
    BY DEF Steps
<1>6. ASSUME NEW q \in Requests, StorePending(q) PROVE Sends'
    <2>1. /\ Sent(q, "attempts", NewCode) /\ request[q].op = "register"
          /\ pending'.code = NewCode
        BY <1>6 DEF StorePending, Store, Is
    <2>2. request'[q].op = "register" /\ request'[q].pc = "attempts" /\ request'[q].code = NewCode
        BY <1>4, <1>5, <2>1, SentIs
    <2>3. Midway(request'[q]) /\ Kept(request[q])'
        BY <2>1, <2>2 DEF Midway, Kept
    <2>. QED  BY <1>4, <1>5, <2>1, <2>2, <2>3, SendsGoOn
<1>7. ASSUME NEW q \in Requests, StoreAttempts(q) PROVE Sends'
    <2>1. request[q].pc = "attempts" /\ pending' = pending /\ mailed' = mailed
        BY <1>7 DEF StoreAttempts
    <2>2. CASE request[q].op = "register"
        <3>1. Sent(q, "mail", request[q].code)
            BY <1>7, <2>2 DEF StoreAttempts
        <3>2. /\ request'[q].op = "register" /\ request'[q].pc = "mail"
              /\ request'[q].code = request[q].code /\ (request'[q].clean => request[q].clean)
            BY <1>4, <1>5, <2>2, <3>1, SentIs
        <3>3. Midway(request'[q]) /\ Midway(request[q])
            BY <2>1, <2>2, <3>2 DEF Midway
        <3>4. request'[q].clean => Kept(request[q])
            BY <2>2, <3>2, <3>3 DEF Sends
        <3>5. request'[q].clean => Kept(request[q])'
            BY <2>1, <3>2, <3>4 DEF Kept
        <3>. QED  BY <1>4, <1>5, <3>1, <3>2, <3>3, <3>5, SendsGoOn
    <2>3. CASE request[q].op # "register"
        <3>1. request[q].op = "resend"
            BY <2>1, <2>3 DEF Shapes, Shape, StepsOf, TypeOK, Request
        <3>2. Midway(request[q])
            BY <2>1, <3>1 DEF Midway
        <3>3. request[q].clean => mailed = request[q].code /\ Kept(request[q])
            BY <2>1, <3>1, <3>2 DEF Sends
        <3>4. End(q) /\ mixed' = ~(request[q].clean /\ ~Others(q))
            BY <1>7, <2>3 DEF StoreAttempts, Completed
        <3>5. request[q].clean => pending' = NoSession \/ pending'.code = mailed'
            BY <2>1, <3>3 DEF Kept
        <3>. QED  BY <3>2, <3>4, <3>5, SendsEnd
    <2>. QED  BY <2>2, <2>3
<1>8. ASSUME NEW q \in Requests, MailNew(q) PROVE Sends'
    <2>1. /\ request[q].op = "register" /\ request[q].pc = "mail" /\ pending' = pending
          /\ mailed' = request[q].code /\ End(q) /\ mixed' = ~(request[q].clean /\ ~Others(q))
        BY <1>8 DEF MailNew, Is, Completed
    <2>2. Midway(request[q])
        BY <2>1 DEF Midway
    <2>3. request[q].clean => Kept(request[q])
        BY <2>1, <2>2 DEF Sends
    <2>4. request[q].clean => pending' = NoSession \/ pending'.code = mailed'
        BY <2>1, <2>3 DEF Kept
    <2>. QED  BY <2>1, <2>2, <2>4, SendsEnd
<1>9. ASSUME NEW q \in Requests, ResendMail(q) PROVE Sends'
    <2>1. Sent(q, "store", NewCode) /\ request[q].op = "resend" /\ mailed' = NewCode
        BY <1>9 DEF ResendMail, Is
    <2>2. request'[q].op = "resend" /\ request'[q].pc = "store" /\ request'[q].code = NewCode
        BY <1>4, <1>5, <2>1, SentIs
    <2>3. Midway(request'[q])
        BY <2>2 DEF Midway
    <2>. QED  BY <1>4, <1>5, <2>1, <2>2, <2>3, SendsGoOn
<1>10. ASSUME NEW q \in Requests, ResendStore(q) PROVE Sends'
    <2>1. /\ Sent(q, "attempts", request[q].code) /\ request[q].op = "resend"
          /\ request[q].pc = "store" /\ pending'.code = request[q].code /\ mailed' = mailed
        BY <1>10 DEF ResendStore, Store, Is
    <2>2. /\ request'[q].op = "resend" /\ request'[q].pc = "attempts"
          /\ request'[q].code = request[q].code /\ (request'[q].clean => request[q].clean)
        BY <1>4, <1>5, <2>1, SentIs
    <2>3. Midway(request'[q]) /\ Midway(request[q])
        BY <2>1, <2>2 DEF Midway
    <2>4. request[q].clean => mailed = request[q].code
        BY <2>1, <2>3 DEF Sends
    <2>5. Kept(request[q])'
        BY <2>1, <2>2 DEF Kept
    <2>. QED  BY <1>4, <1>5, <2>1, <2>2, <2>3, <2>4, <2>5, SendsGoOn
<1>11. ASSUME NEW Q \in SUBSET Requests, Cut(Q) PROVE Sends'
    <2>1. /\ UNCHANGED <<pending, mailed>>
          /\ mixed' = (mixed \/ \E q \in Q : Sending(q))
        BY <1>11 DEF Cut
    <2>2. \A q \in Requests : request'[q] = IF q \in Q THEN Free ELSE request[q]
        BY <1>11, CutIs
    <2>3. \A q \in Requests : q \in Q => ~Midway(request'[q])
        BY <2>2, FreeIs DEF Midway
    <2>4. \A q \in Requests : q \notin Q => request'[q] = request[q]
        BY <2>2
    <2>5. ASSUME NEW q \in Requests, request'[q].clean, Midway(request'[q])
          PROVE  /\ \A o \in Requests \ {q} : ~Midway(request'[o])
                 /\ request'[q].op = "register" => Kept(request[q])'
                 /\ request'[q].op = "resend" => mailed' = request'[q].code
                 /\ request'[q].op = "resend" /\ request'[q].pc = "attempts" => Kept(request[q])'
        <3>1. request'[q] = request[q]
            BY <2>3, <2>4, <2>5
        <3>2. \A o \in Requests \ {q} : ~Midway(request[o])
            BY <2>5, <3>1 DEF Sends
        <3>3. \A o \in Requests \ {q} : ~Midway(request'[o])
            BY <2>3, <2>4, <3>2
        <3>. QED  BY <2>1, <2>5, <3>1, <3>3 DEF Sends, Kept
    <2>6. ASSUME ~mixed', \A q \in Requests : ~Midway(request'[q])
          PROVE  pending' = NoSession \/ pending'.code = mailed'
        <3>1. ~mixed /\ \A q \in Q : ~Midway(request[q])
            BY <2>1, <2>6, MidwaySends
        <3>2. \A q \in Requests : ~Midway(request[q])
            BY <2>4, <2>6, <3>1
        <3>. QED  BY <2>1, <3>1, <3>2 DEF Sends
    <2>. QED  BY <2>5, <2>6 DEF Sends
<1>12. CASE Hooks
    <2>1. UNCHANGED <<pending, mailed, mixed, request>>
        BY <1>12 DEF Hooks, HookRead, HookDelete, DirectInsert, HookFails, ghosts
    <2>. QED  BY <2>1 DEF Sends, Kept, Midway
<1>13. CASE Tick
    <2>1. UNCHANGED <<mailed, mixed, request>>
        BY <1>13 DEF Tick
    <2>2. pending' = NoSession \/ (pending # NoSession /\ pending'.code = pending.code)
             \/ pending' = pending
        BY <1>13 DEF Tick, TypeOK, NoSession
    <2>. QED  BY <2>1, <2>2 DEF Sends, Kept, Midway
<1>. QED  BY <1>1, <1>2, <1>3, <1>6, <1>7, <1>8, <1>9, <1>10, <1>11, <1>12, <1>13,
             NextIs DEF Calls, Quiet, CallFails, Crash

\* The code of the newest mail is the code the session accepts, unless sends
\* overlapped or one was cut short (users.service.ts:357-401, 489-539).
THEOREM NewestCodeWorks == Spec => []MailedCodeWorks
<1>1. Init => Sends
    BY FreeIs DEF Init, Sends, Midway
<1>2. TypeOK /\ Shapes /\ Sends /\ [Next]_vars => Sends'
    BY SendStep
<1>3. Sends => MailedCodeWorks
    BY MidwaySends DEF Sends, MailedCodeWorks
<1>. QED  BY <1>1, <1>2, <1>3, Typed, PTL DEF Spec
=============================================================================
