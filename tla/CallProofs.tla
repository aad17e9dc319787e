----------------------------- MODULE CallProofs -----------------------------
(***************************************************************************)
(* Theorems about the calls of Accounts, for every set of users, devices   *)
(* and sessions and every number of calls, failures and ticks, also when   *)
(* handlers overlap: a call is executed at most once, and without failures *)
(* a device holds the newest refresh token of its sign-in.  Both rest on   *)
(* one invariant of the exchange between a device and the server: what a   *)
(* device waits for is a request on its way, in the hands of one handler,  *)
(* or an answer, and never two of them.                                    *)
(***************************************************************************)
EXTENDS AccountsProofs

(* The request a device in state pc waits for. *)
Asked(pc) == IF pc = "retry" THEN "call" ELSE pc

Asks(d, q) ==
  /\ q.from = d /\ q.live
  /\ dev[d].pc \in Waiting /\ q.op = Asked(dev[d].pc)
  /\ q.op = "call" => q.id = dev[d].id
  /\ q.op = "refresh" => q.tok = dev[d].ref

Serves(s, d) == srv[s].msg.live /\ srv[s].msg.from = d

Tidy(d) ==
  /\ \A q \in wire[d] : wire[d] = {q} /\ Asks(d, q) /\ reply[d] = {}
  /\ \A s \in Session : Serves(s, d) =>
       /\ Asks(d, srv[s].msg) /\ wire[d] = {} /\ reply[d] = {}
       /\ \A t \in Session : Serves(t, d) => t = s
  /\ reply[d] # {} => dev[d].pc \in Waiting
  /\ dev[d].pc \in {"call", "retry"} => \A r \in reply[d] : r.ref = 0
  /\ dev[d].pc \in {"out", "login"} => dev[d].ref = 0

EInv ==
  /\ \A q \in late : ~q.live
  /\ \A s \in Session : srv[s].msg.live => srv[s].msg.from \in Device
  /\ \A d \in Device : Tidy(d)

-----------------------------------------------------------------------------
(* What a step does to the exchange. *)

(* The device's reaction to an answer: it is done, it renews its token, or *)
(* it repeats its call with the new one.                                   *)
Settles(d, r) ==
  /\ wire'[d] = {} /\ dev'[d].pc \in {"idle", "out"}
  /\ dev'[d].id = dev[d].id
  /\ \/ /\ dev'[d].ref = dev[d].ref
        /\ dev'[d].pc = "out" => dev[d].pc = "login"
        /\ dev[d].pc \in {"login", "refresh"} => r.code # "ok"
     \/ /\ dev[d].pc = "login" /\ dev'[d].pc = "idle"
        /\ r.code = "ok" /\ dev'[d].ref = r.ref

Renews(d, r) ==
  /\ dev[d].pc = "call" /\ r.code = "401"
  /\ dev'[d].pc = "refresh" /\ dev'[d].id = dev[d].id
  /\ dev'[d].ref = dev[d].ref
  /\ \E q : /\ wire'[d] = {q} /\ q.from = d /\ q.live
            /\ q.op = "refresh" /\ q.tok = dev[d].ref

Retries(d, r) ==
  /\ dev[d].pc = "refresh" /\ r.code = "ok"
  /\ dev'[d].pc = "retry" /\ dev'[d].id = dev[d].id
  /\ dev'[d].ref = r.ref
  /\ \E q : /\ wire'[d] = {q} /\ q.from = d /\ q.live
            /\ q.op = "call" /\ q.id = dev[d].id

Others(d) ==
  \A e \in Device \ {d} : dev'[e] = dev[e] /\ wire'[e] = wire[e]

LEMMA Calls ==
  ASSUME NEW d \in Device, NEW h \in Held
  PROVE  LET q == CallOf(d, h) IN q.from = d /\ q.live /\ q.op = "call" /\ q.id = h.id
<1> DEFINE p == Plain("call", d, Owner[d])
           e == h.exp
           i == h.id
<1>1. /\ p \in Message /\ p.op = "call" /\ p.from = d /\ e \in Nat /\ i \in Nat
      /\ p.live = (d # None)
  BY PlainType, AccountsAssumption DEF Held, Op, Plain
<1>2. p.live
  BY <1>1, AccountsAssumption
<1>3. CallOf(d, h) = [p EXCEPT !.exp = e, !.id = i]
  BY DEF CallOf
<1> HIDE DEF p, e, i
<1>4. LET q == [p EXCEPT !.exp = e, !.id = i]
      IN q.from = p.from /\ q.live = p.live /\ q.op = p.op /\ q.id = i
  BY <1>1 DEF Message
<1> QED
  BY <1>1, <1>2, <1>3, <1>4 DEF i

LEMMA Refreshes ==
  ASSUME NEW d \in Device, NEW h \in Held
  PROVE  LET q == RefreshOf(d, h) IN q.from = d /\ q.live /\ q.op = "refresh" /\ q.tok = h.ref
<1> DEFINE p == Plain("refresh", d, Owner[d])
           k == h.ref
<1>1. /\ p \in Message /\ p.op = "refresh" /\ p.from = d /\ k \in Nat
      /\ p.live = (d # None)
  BY PlainType, AccountsAssumption DEF Held, Op, Plain
<1>2. p.live
  BY <1>1, AccountsAssumption
<1>3. RefreshOf(d, h) = [p EXCEPT !.tok = k]
  BY DEF RefreshOf
<1> HIDE DEF p, k
<1>4. LET q == [p EXCEPT !.tok = k]
      IN q.from = p.from /\ q.live = p.live /\ q.op = p.op /\ q.tok = k
  BY <1>1 DEF Message
<1> QED
  BY <1>1, <1>2, <1>3, <1>4 DEF k

LEMMA Logins ==
  ASSUME NEW d \in Device, NEW pw \in Nat
  PROVE  LET q == [Plain("login", d, Owner[d]) EXCEPT !.pw = pw]
         IN q.from = d /\ q.live /\ q.op = "login"
<1> DEFINE p == Plain("login", d, Owner[d])
<1>1. p \in Message /\ p.op = "login" /\ p.from = d /\ p.live = (d # None)
  BY PlainType, AccountsAssumption DEF Op, Plain
<1>2. p.live
  BY <1>1, AccountsAssumption
<1> HIDE DEF p
<1>3. LET q == [p EXCEPT !.pw = pw]
      IN q.from = p.from /\ q.live = p.live /\ q.op = p.op
  BY <1>1 DEF Message
<1> QED
  BY <1>1, <1>2, <1>3 DEF p

LEMMA Becomes ==
  ASSUME TInv, NEW d \in Device, NEW h, NEW M, Become(d, h, M)
  PROVE  dev'[d] = h /\ wire'[d] = M /\ Others(d)
  BY DEF Become, Others, TInv, ClientsOK

LEMMA HeldFields ==
  ASSUME NEW x \in Held,
         NEW pc \in {"out", "login", "idle", "call", "refresh", "retry"}
  PROVE  /\ [x EXCEPT !.pc = pc] \in Held
         /\ [x EXCEPT !.pc = pc].pc = pc
         /\ [x EXCEPT !.pc = pc].id = x.id
         /\ [x EXCEPT !.pc = pc].ref = x.ref
  BY DEF Held

LEMMA KeptFields ==
  ASSUME NEW x \in Held, NEW e \in Nat, NEW r \in Nat
  PROVE  /\ [x EXCEPT !.exp = e, !.ref = r] \in Held
         /\ [x EXCEPT !.exp = e, !.ref = r].id = x.id
         /\ [x EXCEPT !.exp = e, !.ref = r].ref = r
  BY DEF Held

LEMMA Reacts ==
  ASSUME TInv, NEW d \in Device, NEW r \in Answer, React(d, r)
  PROVE  /\ Others(d) /\ dev[d].pc \in Waiting
         /\ Settles(d, r) \/ Renews(d, r) \/ Retries(d, r)
<1> DEFINE x == dev[d]
           to(pc) == [x EXCEPT !.pc = pc]
           e == r.exp
           f == r.ref
           k == [x EXCEPT !.exp = e, !.ref = f]
           kept(pc) == [k EXCEPT !.pc = pc]
<1>0. x \in Held /\ e \in Nat /\ f \in Nat
  BY DEF TInv, ClientsOK, Answer
<1>1. \A pc \in {"out", "idle", "refresh"} :
        /\ to(pc) \in Held /\ to(pc).pc = pc /\ to(pc).id = x.id
        /\ to(pc).ref = x.ref
  <2> TAKE pc \in {"out", "idle", "refresh"}
  <2>1. dev[d] \in Held /\ pc \in {"out", "login", "idle", "call", "refresh", "retry"}
    BY <1>0
  <2> QED
    BY <2>1, HeldFields
<1>2. \A pc \in {"idle", "retry"} :
        /\ kept(pc) \in Held /\ kept(pc).pc = pc /\ kept(pc).id = x.id
        /\ kept(pc).ref = f
  <2> TAKE pc \in {"idle", "retry"}
  <2> HIDE DEF x, e, f
  <2>1. /\ [x EXCEPT !.exp = e, !.ref = f] \in Held
        /\ [x EXCEPT !.exp = e, !.ref = f].id = x.id
        /\ [x EXCEPT !.exp = e, !.ref = f].ref = f
    BY <1>0, KeptFields
  <2>2. k \in Held /\ k.id = x.id /\ k.ref = f
    BY <2>1
  <2> HIDE DEF k
  <2>3. pc \in {"out", "login", "idle", "call", "refresh", "retry"}
    OBVIOUS
  <2>4. /\ [k EXCEPT !.pc = pc] \in Held /\ [k EXCEPT !.pc = pc].pc = pc
        /\ [k EXCEPT !.pc = pc].id = k.id /\ [k EXCEPT !.pc = pc].ref = k.ref
    BY <2>2, <2>3, HeldFields
  <2> QED
    BY <2>2, <2>4
<1>3. \/ x.pc = "login" /\ r.code = "ok" /\ Become(d, kept("idle"), {})
      \/ x.pc = "login" /\ r.code # "ok" /\ Become(d, to("out"), {})
      \/ x.pc = "call" /\ r.code = "401" /\ Become(d, to("refresh"), {RefreshOf(d, x)})
      \/ x.pc = "call" /\ Become(d, to("idle"), {})
      \/ x.pc = "refresh" /\ r.code = "ok" /\ Become(d, kept("retry"), {CallOf(d, kept("retry"))})
      \/ x.pc = "refresh" /\ r.code # "ok" /\ Become(d, to("idle"), {})
      \/ x.pc = "retry" /\ Become(d, to("idle"), {})
  BY DEF React, Keep, KeepRefreshed, Renew, GiveUpRetry
<1> HIDE DEF to, kept
<1>4. CASE x.pc = "login" /\ r.code = "ok" /\ Become(d, kept("idle"), {})
  BY <1>2, <1>4, Becomes DEF Settles, Waiting
<1>5. CASE x.pc = "login" /\ r.code # "ok" /\ Become(d, to("out"), {})
  BY <1>1, <1>5, Becomes DEF Settles, Waiting
<1>6. CASE x.pc = "call" /\ r.code = "401" /\ Become(d, to("refresh"), {RefreshOf(d, x)})
  <2>1. dev'[d] = to("refresh") /\ wire'[d] = {RefreshOf(d, x)} /\ Others(d)
    BY <1>6, Becomes
  <2>2. LET q == RefreshOf(d, x)
        IN q.from = d /\ q.live /\ q.op = "refresh" /\ q.tok = x.ref
    <3> HIDE DEF x
    <3> QED
      BY <1>0, Refreshes
  <2>3. Renews(d, r)
    BY <1>1, <1>6, <2>1, <2>2 DEF Renews
  <2> QED
    BY <1>6, <2>1, <2>3 DEF Waiting
<1>7. CASE x.pc = "call" /\ Become(d, to("idle"), {})
  BY <1>1, <1>7, Becomes DEF Settles, Waiting
<1>8. CASE x.pc = "refresh" /\ r.code = "ok" /\ Become(d, kept("retry"), {CallOf(d, kept("retry"))})
  <2> DEFINE h == kept("retry")
  <2>0. h \in Held /\ h.pc = "retry" /\ h.id = x.id /\ h.ref = f
    BY <1>2
  <2>1. dev'[d] = h /\ wire'[d] = {CallOf(d, h)} /\ Others(d)
    BY <1>8, Becomes
  <2> HIDE DEF h
  <2>2. LET q == CallOf(d, h)
        IN q.from = d /\ q.live /\ q.op = "call" /\ q.id = h.id
    BY <2>0, Calls
  <2>3. Retries(d, r)
    BY <1>8, <2>0, <2>1, <2>2 DEF Retries
  <2> QED
    BY <1>8, <2>1, <2>3 DEF Waiting
<1>9. CASE x.pc = "refresh" /\ r.code # "ok" /\ Become(d, to("idle"), {})
  BY <1>1, <1>9, Becomes DEF Settles, Waiting
<1>10. CASE x.pc = "retry" /\ Become(d, to("idle"), {})
  BY <1>1, <1>10, Becomes DEF Settles, Waiting
<1> QED
  BY <1>3, <1>4, <1>5, <1>6, <1>7, <1>8, <1>9, <1>10
(* The device begins something, or closes. *)
SignsIn(d) ==
  /\ dev[d].pc = "out" /\ dev'[d].pc = "login" /\ dev'[d].id = dev[d].id
  /\ dev'[d].ref = dev[d].ref
  /\ \E q : wire'[d] = {q} /\ q.from = d /\ q.live /\ q.op = "login"

Starts(d) ==
  /\ dev[d].pc = "idle" /\ dev'[d].pc = "call"
  /\ dev'[d].ref = dev[d].ref
  /\ ops' = ops + 1 /\ dev'[d].id = ops'
  /\ \E q : /\ wire'[d] = {q} /\ q.from = d /\ q.live
            /\ q.op = "call" /\ q.id = ops'

Leaves(d) ==
  /\ dev[d].pc = "idle" /\ dev'[d].pc = "out" /\ wire'[d] = wire[d]
  /\ dev'[d].id = 0 /\ dev'[d].ref = 0

Hears(d, r) ==
  /\ r \in reply[d] /\ r \in Answer /\ dev[d].pc \in Waiting
  /\ Settles(d, r) \/ Renews(d, r) \/ Retries(d, r)

LEMMA Turns ==
  ASSUME TInv, NEW d \in Device,
         SignIn(d) \/ StartCall(d) \/ Leave(d) \/ Receive(d)
  PROVE  /\ UNCHANGED <<srv, late, token, done, faults>> /\ Others(d)
         /\ ops \in Nat /\ ops' \in {ops, ops + 1}
         /\ \A e \in Device \ {d} : reply'[e] = reply[e]
         /\ \/ /\ reply'[d] = reply[d]
               /\ SignsIn(d) \/ Starts(d) \/ Leaves(d)
            \/ reply'[d] = {} /\ \E r : Hears(d, r)
<1>0. /\ dev \in [Device -> Held] /\ wire \in [Device -> SUBSET Message]
      /\ reply \in [Device -> SUBSET Answer] /\ ops \in Nat /\ dev[d] \in Held
      /\ account \in [User -> Account] /\ Owner[d] \in User
  BY AccountsAssumption DEF TInv, ClientsOK, HandlersOK, BudgetOK, TablesOK
<1>1. UNCHANGED <<srv, late, token, done, faults>>
  BY DEF SignIn, StartCall, Leave, Receive, Operate, budget, tables
<1>2. ops' \in {ops, ops + 1}
  BY DEF SignIn, StartCall, Leave, Receive, Operate, budget
<1>3. CASE SignIn(d)
  <2>1. PICK pw \in {0, account[Owner[d]].pw} :
          Send(d, [Plain("login", d, Owner[d]) EXCEPT !.pw = pw])
    BY <1>3 DEF SignIn
  <2>2. pw \in Nat
    BY <1>0 DEF Account
  <2> DEFINE q == [Plain("login", d, Owner[d]) EXCEPT !.pw = pw]
             h == [dev[d] EXCEPT !.pc = "login"]
  <2>3. q.from = d /\ q.live /\ q.op = "login"
    BY <2>2, Logins
  <2>4. h.pc = "login" /\ h.id = dev[d].id /\ h.ref = dev[d].ref
    BY <1>0, HeldFields
  <2>5. /\ dev' = [dev EXCEPT ![d] = h] /\ wire' = [wire EXCEPT ![d] = {q}]
        /\ UNCHANGED reply /\ dev[d].pc = "out"
    BY <1>0, <1>3, <2>1 DEF SignIn, Send
  <2> HIDE DEF q, h
  <2>6. SignsIn(d) /\ Others(d)
    BY <1>0, <2>3, <2>4, <2>5 DEF SignsIn, Others
  <2> QED
    BY <1>0, <1>1, <1>2, <2>5, <2>6
<1>4. CASE StartCall(d)
  <2> DEFINE n == ops + 1
             h == [dev[d] EXCEPT !.pc = "call", !.id = n]
             q == CallOf(d, h)
  <2>0. n \in Nat /\ ops' = n /\ dev[d].pc = "idle" /\ UNCHANGED reply
    BY <1>0, <1>4 DEF StartCall, Operate
  <2>1. dev' = [dev EXCEPT ![d] = h] /\ wire' = [wire EXCEPT ![d] = {q}]
    BY <1>4 DEF StartCall, Send
  <2> HIDE DEF n
  <2>2. h \in Held /\ h.ref = dev[d].ref /\ h.id = n /\ h.pc = "call"
    BY <1>0, <2>0 DEF Held
  <2> HIDE DEF h
  <2>3. q.from = d /\ q.live /\ q.op = "call" /\ q.id = n
    BY <2>2, Calls
  <2> HIDE DEF q
  <2>4. Starts(d) /\ Others(d)
    BY <1>0, <2>0, <2>1, <2>2, <2>3 DEF Starts, Others, n
  <2> QED
    BY <1>0, <1>1, <1>2, <2>0, <2>4
<1>5. CASE Leave(d)
  <2>1. Leaves(d) /\ Others(d) /\ UNCHANGED reply
    BY <1>0, <1>5 DEF Leave, Leaves, Others
  <2> QED
    BY <1>0, <1>1, <1>2, <2>1
<1>6. CASE Receive(d)
  <2>1. PICK r \in reply[d] : React(d, r)
    BY <1>6 DEF Receive
  <2>2. r \in Answer
    BY <1>0
  <2>3. Hears(d, r) /\ Others(d)
    BY <2>1, <2>2, Reacts DEF Hears
  <2>4. reply' = [reply EXCEPT ![d] = {}]
    BY <1>6 DEF Receive
  <2> QED
    BY <1>0, <1>1, <1>2, <2>3, <2>4
<1> QED
  BY <1>3, <1>4, <1>5, <1>6

(* A device whose exchange is not touched. *)
LEMMA Untouched ==
  ASSUME NEW d \in Device, Tidy(d), dev'[d] = dev[d], wire'[d] = wire[d],
         reply'[d] = reply[d],
         \A s \in Session : Serves(s, d)' =>
           Serves(s, d) /\ srv'[s].msg = srv[s].msg
  PROVE  Tidy(d)'
  BY DEF Tidy, Serves, Asks

LEMMA Resting ==
  ASSUME NEW d \in Device, Tidy(d), dev[d].pc \notin Waiting
  PROVE  wire[d] = {} /\ reply[d] = {} /\ \A s \in Session : ~Serves(s, d)
  BY DEF Tidy, Asks

LEMMA Sent ==
  ASSUME NEW d \in Device, NEW q, wire'[d] = {q}, q.from = d, q.live,
         dev'[d].pc \in Waiting \ {"login"}, q.op = Asked(dev'[d].pc),
         q.op = "call" => q.id = dev'[d].id,
         q.op = "refresh" => q.tok = dev'[d].ref,
         reply'[d] = {}, \A s \in Session : ~Serves(s, d)'
  PROVE  Tidy(d)'
  BY DEF Tidy, Asks, Waiting

LEMMA Answered ==
  ASSUME NEW d \in Device, Tidy(d), reply[d] # {}
  PROVE  wire[d] = {} /\ \A s \in Session : ~Serves(s, d)
  BY DEF Tidy

(* The device has been answered, or it has given up. *)
LEMMA GoesOnTidy ==
  ASSUME NEW d \in Device, Tidy(d), NEW r, reply'[d] = {},
         \A s \in Session : ~Serves(s, d)',
         Settles(d, r) \/ Renews(d, r) \/ Retries(d, r)
  PROVE  Tidy(d)'
<1>1. CASE Settles(d, r)
  <2>1. dev'[d].pc = "out" => dev'[d].ref = 0
    BY <1>1 DEF Settles, Tidy
  <2> QED
    BY <1>1, <2>1 DEF Settles, Tidy, Waiting
<1>2. CASE Renews(d, r)
  BY <1>2, Sent DEF Renews, Waiting, Asked
<1>3. CASE Retries(d, r)
  BY <1>3, Sent DEF Retries, Waiting, Asked
<1> QED
  BY <1>1, <1>2, <1>3

LEMMA TurnTidy ==
  ASSUME TInv, EInv, NEW d \in Device,
         SignIn(d) \/ StartCall(d) \/ Leave(d) \/ Receive(d)
  PROVE  EInv'
<1>0. /\ UNCHANGED <<srv, late, token, done, faults>> /\ Others(d) /\ Tidy(d)
      /\ \A e \in Device \ {d} : reply'[e] = reply[e]
      /\ \/ /\ reply'[d] = reply[d]
            /\ SignsIn(d) \/ Starts(d) \/ Leaves(d)
         \/ reply'[d] = {} /\ \E r : Hears(d, r)
  BY Turns DEF EInv
<1>1. ASSUME NEW e \in Device \ {d} PROVE Tidy(e)'
  BY <1>0, Untouched DEF EInv, Others, Serves
<1>2. Tidy(d)'
  <2>1. CASE reply'[d] = reply[d] /\ (SignsIn(d) \/ Starts(d) \/ Leaves(d))
    <3>1. wire[d] = {} /\ reply[d] = {} /\ \A s \in Session : ~Serves(s, d)'
      BY <1>0, <2>1, Resting DEF SignsIn, Starts, Leaves, Waiting, Serves
    <3>2. CASE SignsIn(d)
      BY <1>0, <2>1, <3>1, <3>2 DEF SignsIn, Tidy, Asks, Asked, Waiting
    <3>3. CASE Starts(d)
      BY <2>1, <3>1, <3>3, Sent DEF Starts, Waiting, Asked
    <3>4. CASE Leaves(d)
      BY <2>1, <3>1, <3>4 DEF Leaves, Tidy, Waiting
    <3> QED
      BY <2>1, <3>2, <3>3, <3>4
  <2>2. CASE reply'[d] = {} /\ \E r : Hears(d, r)
    <3>1. PICK r : Hears(d, r)
      BY <2>2
    <3>2. \A s \in Session : ~Serves(s, d)'
      BY <1>0, <3>1, Answered DEF Hears, Serves
    <3> QED
      BY <1>0, <2>2, <3>1, <3>2, GoesOnTidy DEF Hears
  <2> QED
    BY <1>0, <2>1, <2>2
<1> QED
  BY <1>0, <1>1, <1>2 DEF EInv

(* A handler is opened. *)
Opens(s, q) ==
  /\ srv[s] = Free /\ srv'[s].msg = q
  /\ \A t \in Session \ {s} : srv'[t] = srv[t]

LEMMA OpenOpens ==
  ASSUME TInv, NEW s \in Session, NEW q, Open(s, q)
  PROVE  Opens(s, q)
<1> DEFINE h == [msg |-> q, stamp |-> IF q.op = "login" THEN now ELSE 0,
                 seen |-> {}, st |-> "start"]
<1>1. /\ srv' = [srv EXCEPT ![s] = h] /\ srv \in [Session -> Handler]
      /\ srv[s] = Free /\ h.msg = q
  BY DEF Open, TInv, HandlersOK
<1> HIDE DEF h
<1> QED
  BY <1>1 DEF Opens

LEMMA FreeIdle == ~Free.msg.live /\ Free.msg.op = "none"
  BY DEF Free, Plain

LEMMA AskOpens ==
  ASSUME TInv, NEW s \in Session, Ask(s)
  PROVE  /\ \E q : /\ Opens(s, q) /\ ~q.live
                   /\ q.op \notin {"login", "refresh", "call"}
         /\ UNCHANGED <<dev, wire, late, reply, token, done, faults>>
         /\ ops' = ops + 1
<1>0. /\ UNCHANGED <<dev, wire, late, reply, token, done, faults>>
      /\ ops' = ops + 1
  BY DEF Ask, Operate, tables, client
<1>1. PICK u \in User, p \in Sample :
       LET q(op) == Plain(op, None, u)
       IN \/ Open(s, [q("register") EXCEPT !.new = {p}])
          \/ \E pw \in {0, account[u].pw} :
               Open(s, [q("change") EXCEPT !.pw = pw, !.new = {p}])
          \/ Open(s, [q("set") EXCEPT !.new = {p}])
          \/ \E i \in DOMAIN reset :
               /\ reset[i].user = u
               /\ Open(s, [q("confirm") EXCEPT !.tok = i, !.new = {p}])
          \/ \E op \in {"reset", "on", "off"} : Open(s, q(op))
  BY DEF Ask
<1>2. \A op, i, pw :
        /\ Plain(op, None, u).op = op
        /\ [Plain(op, None, u) EXCEPT !.new = {p}].op = op
        /\ [Plain(op, None, u) EXCEPT !.pw = pw, !.new = {p}].op = op
        /\ [Plain(op, None, u) EXCEPT !.tok = i, !.new = {p}].op = op
  BY DEF Plain
<1>3. \A op, i, pw :
        /\ ~Plain(op, None, u).live
        /\ ~[Plain(op, None, u) EXCEPT !.new = {p}].live
        /\ ~[Plain(op, None, u) EXCEPT !.pw = pw, !.new = {p}].live
        /\ ~[Plain(op, None, u) EXCEPT !.tok = i, !.new = {p}].live
  BY DEF Plain
<1>5. PICK q : Open(s, q) /\ ~q.live /\ q.op \notin {"login", "refresh", "call"}
  <2>1. CASE Open(s, [Plain("register", None, u) EXCEPT !.new = {p}])
    <3> DEFINE m == [Plain("register", None, u) EXCEPT !.new = {p}]
    <3>1. m.op = "register" /\ ~m.live /\ Open(s, m)
      BY <1>2, <1>3, <2>1
    <3> HIDE DEF m
    <3> QED
      BY <3>1
  <2>2. CASE Open(s, [Plain("set", None, u) EXCEPT !.new = {p}])
    <3> DEFINE m == [Plain("set", None, u) EXCEPT !.new = {p}]
    <3>1. m.op = "set" /\ ~m.live /\ Open(s, m)
      BY <1>2, <1>3, <2>2
    <3> HIDE DEF m
    <3> QED
      BY <3>1
  <2>3. CASE \E pw \in {0, account[u].pw} :
               Open(s, [Plain("change", None, u) EXCEPT !.pw = pw, !.new = {p}])
    <3>1. PICK pw \in {0, account[u].pw} :
            Open(s, [Plain("change", None, u) EXCEPT !.pw = pw, !.new = {p}])
      BY <2>3
    <3> DEFINE m == [Plain("change", None, u) EXCEPT !.pw = pw, !.new = {p}]
    <3>2. m.op = "change" /\ ~m.live /\ Open(s, m)
      BY <1>2, <1>3, <3>1
    <3> HIDE DEF m
    <3> QED
      BY <3>2
  <2>4. CASE \E i \in DOMAIN reset :
               Open(s, [Plain("confirm", None, u) EXCEPT !.tok = i, !.new = {p}])
    <3>1. PICK i \in DOMAIN reset :
            Open(s, [Plain("confirm", None, u) EXCEPT !.tok = i, !.new = {p}])
      BY <2>4
    <3> DEFINE m == [Plain("confirm", None, u) EXCEPT !.tok = i, !.new = {p}]
    <3>2. m.op = "confirm" /\ ~m.live /\ Open(s, m)
      BY <1>2, <1>3, <3>1
    <3> HIDE DEF m
    <3> QED
      BY <3>2
  <2>5. CASE \E op \in {"reset", "on", "off"} : Open(s, Plain(op, None, u))
    BY <1>2, <1>3, <2>5
  <2> QED
    BY <1>1, <2>1, <2>2, <2>3, <2>4, <2>5
<1> QED
  BY <1>0, <1>5, OpenOpens

LEMMA ServeOpens ==
  ASSUME TInv, NEW s \in Session, NEW d \in Device, Serve(s, d)
  PROVE  /\ \E q \in wire[d] : Opens(s, q)
         /\ wire'[d] = {} /\ \A e \in Device \ {d} : wire'[e] = wire[e]
         /\ UNCHANGED <<dev, late, reply, token, done, faults, ops>>
  BY OpenOpens DEF Serve, TInv, ClientsOK, budget, tables

LEMMA LateOpens ==
  ASSUME TInv, NEW s \in Session, ServeLate(s)
  PROVE  /\ \E q \in late : Opens(s, q) /\ late' = late \ {q}
         /\ UNCHANGED <<dev, wire, reply, token, done, faults, ops>>
  BY OpenOpens DEF ServeLate, budget, tables

(* A request nobody waits for is opened. *)
LEMMA UnheardTidy ==
  ASSUME EInv, NEW s \in Session, NEW q, Opens(s, q), ~q.live,
         late' \subseteq late, UNCHANGED <<dev, wire, reply>>
  PROVE  EInv'
<1>1. \A t \in Session : srv'[t].msg.live => t # s /\ srv'[t] = srv[t]
  BY DEF Opens
<1>2. \A d \in Device, t \in Session : Serves(t, d)' => Serves(t, d) /\ srv'[t] = srv[t]
  BY <1>1 DEF Serves
<1>3. ASSUME NEW d \in Device PROVE Tidy(d)'
  BY <1>2, Untouched DEF EInv
<1> QED
  BY <1>1, <1>3 DEF EInv

LEMMA ServeTidy ==
  ASSUME TInv, EInv, NEW s \in Session, NEW d \in Device, Serve(s, d)
  PROVE  EInv'
<1>0. /\ UNCHANGED <<dev, late, reply>> /\ wire'[d] = {} /\ Tidy(d)
      /\ \A e \in Device \ {d} : wire'[e] = wire[e]
  BY ServeOpens DEF EInv
<1>1. PICK q \in wire[d] : Opens(s, q)
  BY ServeOpens
<1>2. /\ Asks(d, q) /\ reply[d] = {} /\ \A t \in Session : ~Serves(t, d)
  BY <1>0, <1>1 DEF Tidy
<1>3. /\ srv'[s].msg = q /\ q.from = d /\ q.live
      /\ \A t \in Session \ {s} : srv'[t] = srv[t]
  BY <1>1, <1>2 DEF Opens, Asks
<1>4. ASSUME NEW e \in Device \ {d} PROVE Tidy(e)'
  <2>1. \A t \in Session : Serves(t, e)' => Serves(t, e) /\ srv'[t] = srv[t]
    BY <1>3 DEF Serves
  <2> QED
    BY <1>0, <2>1, Untouched DEF EInv
<1>5. Tidy(d)'
  <2>1. \A t \in Session : Serves(t, d)' => t = s
    BY <1>2, <1>3 DEF Serves
  <2> QED
    BY <1>0, <1>2, <1>3, <2>1 DEF Tidy, Asks
<1>6. \A t \in Session : srv'[t].msg.live => srv'[t].msg.from \in Device
  BY <1>3 DEF EInv
<1> QED
  BY <1>0, <1>4, <1>5, <1>6 DEF EInv

(* A handler works: it goes on, or it answers and is free again. *)
Replies(s, r) ==
  /\ srv'[s] = Free
  /\ reply' = IF ~srv[s].msg.live THEN reply
              ELSE [reply EXCEPT ![srv[s].msg.from] = {r}]

SameChains ==
  /\ DOMAIN token' = DOMAIN token
  /\ \A i \in DOMAIN token : token'[i].chain = token[i].chain

(* A token is added to chain c. *)
Adds(c) ==
  /\ DOMAIN token' = 1 .. Len(token) + 1
  /\ \A i \in DOMAIN token : token'[i].chain = token[i].chain
  /\ token'[Len(token) + 1].chain = c

GoesOnWith(s) ==
  srv'[s].msg = srv[s].msg /\ UNCHANGED <<reply, done>> /\ SameChains

Refuses(s) ==
  /\ \E c \in {"ok", "401", "error"} : Replies(s, Code(c))
  /\ UNCHANGED done /\ SameChains

Executes(s) ==
  /\ srv[s].msg.op = "call" /\ Replies(s, Code("ok"))
  /\ done' = [done EXCEPT ![srv[s].msg.id] = done[srv[s].msg.id] + 1]
  /\ SameChains

Grants(s) ==
  /\ Replies(s, Granted(Len(token) + 1)) /\ UNCHANGED done
  /\ \/ srv[s].msg.op \in {"login", "register"} /\ Adds(Len(token) + 1)
     \/ srv[s].msg.op = "refresh" /\ Adds(token[srv[s].msg.tok].chain)

LEMMA TokensSame == UNCHANGED token => SameChains
  BY DEF SameChains

LEMMA RevokeSame ==
  ASSUME TInv, NEW s \in Session, Revoke(s)
  PROVE  SameChains
<1>1. token' = [i \in DOMAIN token |->
                  [token[i] EXCEPT !.revoked = @ \/ i \in srv[s].seen]]
  BY DEF Revoke
<1>2. ASSUME NEW i \in DOMAIN token PROVE token'[i].chain = token[i].chain
  <2>1. token[i] \in Token
    BY TokenFacts
  <2>2. token'[i] = [token[i] EXCEPT !.revoked = token[i].revoked \/ i \in srv[s].seen]
    BY <1>1
  <2> DEFINE t == token[i]
             b == t.revoked \/ i \in srv[s].seen
  <2>3. token'[i] = [t EXCEPT !.revoked = b] /\ t \in Token
    BY <2>1, <2>2
  <2> HIDE DEF t, b
  <2>4. token'[i].chain = t.chain
    BY <2>3 DEF Token
  <2> QED
    BY <2>4 DEF t
<1> QED
  BY <1>1, <1>2 DEF SameChains

LEMMA MoveGoesOn ==
  ASSUME TInv, NEW s \in Session, NEW st \in {"checked", "applied"},
         Move(s, st), UNCHANGED done, SameChains
  PROVE  GoesOnWith(s)
  BY MoveFacts DEF GoesOnWith, Move

LEMMA CloseReplies ==
  ASSUME TInv, NEW s \in Session, NEW r, Close(s, r)
  PROVE  Replies(s, r)
  BY CloseFacts DEF Replies, Close

LEMMA Quietly ==
  ASSUME TInv, NEW s \in Session, UNCHANGED done, SameChains,
         \/ Move(s, "checked") \/ Move(s, "applied")
         \/ Close(s, Code("error")) \/ Close(s, Code("401"))
         \/ Close(s, Code("ok"))
  PROVE  GoesOnWith(s) \/ Refuses(s)
<1>1. CASE Move(s, "checked") \/ Move(s, "applied")
  BY <1>1, MoveGoesOn
<1>2. ASSUME NEW c \in {"ok", "401", "error"}, Close(s, Code(c))
      PROVE  Refuses(s)
  <2>1. Replies(s, Code(c))
    BY <1>2, CloseReplies
  <2> QED
    BY <2>1 DEF Refuses
<1> QED
  BY <1>1, <1>2

LEMMA IssueGrants ==
  ASSUME TInv, NEW s \in Session, IssueToken(s)
  PROVE  Grants(s)
<1> DEFINE q == srv[s].msg
           n == Len(token) + 1
           w == IF q.op = "login" THEN q.pw ELSE 1
           t == NewToken(q.user, n, w)
<1>0. /\ n \in Nat /\ Len(token) \in Nat /\ q.user \in User /\ q.pw \in Nat
      /\ DOMAIN token = 1 .. Len(token) /\ token \in Seq(Token)
  BY TokenFacts DEF Proper, Message
<1>1. /\ token' = Append(token, t) /\ Replies(s, Granted(n)) /\ UNCHANGED done
      /\ q.op \in {"login", "register"}
  BY CloseReplies DEF IssueToken, At
<1>2. t \in Token /\ t.chain = n
  BY <1>0, NewTokenType
<1> HIDE DEF t
<1>3. Adds(n)
  BY <1>0, <1>1, <1>2, AppendFacts DEF Adds
<1> QED
  BY <1>1, <1>3 DEF Grants

LEMMA RotateGrants ==
  ASSUME TInv, NEW s \in Session, Rotate(s)
  PROVE  Grants(s)
<1> DEFINE k == srv[s].msg.tok
           n == Len(token) + 1
           v == [token EXCEPT ![k] = Rotated(token[k])]
           t == NewToken(token[k].user, token[k].chain, token[k].under)
<1>0. /\ n \in Nat /\ Len(token) \in Nat /\ srv[s].msg.op = "refresh"
      /\ DOMAIN token = 1 .. Len(token) /\ token \in Seq(Token)
  BY TokenFacts DEF Rotate, At
<1>1. k \in DOMAIN token
  BY <1>0, TokenFacts DEF Proper
<1>2. token' = Append(v, t) /\ Replies(s, Granted(n)) /\ UNCHANGED done
  BY CloseReplies DEF Rotate
<1>3. /\ v \in Seq(Token) /\ Len(v) = Len(token)
      /\ \A i \in DOMAIN token : v[i].chain = token[i].chain
  BY <1>1, RotatedTable
<1>4. t \in Token /\ t.chain = token[k].chain
  BY <1>1, TokenFacts, NewTokenType
<1> HIDE DEF v, t
<1>5. Adds(token[k].chain)
  BY <1>0, <1>2, <1>3, <1>4, AppendFacts DEF Adds
<1> QED
  BY <1>0, <1>2, <1>5 DEF Grants

LEMMA HandlerWorks ==
  ASSUME TInv, NEW s \in Session, HandlerStep(s)
  PROVE  /\ UNCHANGED <<dev, wire, late, ops, faults>>
         /\ \A t \in Session \ {s} : srv'[t] = srv[t]
         /\ GoesOnWith(s) \/ Refuses(s) \/ Executes(s) \/ Grants(s)
<1>0. /\ UNCHANGED <<dev, wire, late, ops, faults>>
      /\ \A t \in Session \ {s} : srv'[t] = srv[t]
  BY StepOfOne DEF HandlerStep, client, budget
<1> SUFFICES GoesOnWith(s) \/ Refuses(s) \/ Executes(s) \/ Grants(s)
  BY <1>0
<1>1. CASE CheckEmail(s) \/ Throttle(s) \/ CheckPassword(s) \/ ReadToken(s)
           \/ CheckOldPassword(s) \/ FindUser(s) \/ ReadReset(s)
  <2>1. /\ UNCHANGED <<token, done>>
        /\ \/ Move(s, "checked") \/ Move(s, "applied")
           \/ Close(s, Code("error")) \/ Close(s, Code("401"))
    BY <1>1 DEF CheckEmail, Throttle, CheckPassword, ReadToken,
                CheckOldPassword, FindUser, ReadReset, tables
  <2> QED
    BY <2>1, TokensSame, Quietly
<1>2. CASE CreateUser(s) \/ MarkUsed(s) \/ RequestReset(s) \/ SetActive(s)
  <2>1. /\ UNCHANGED <<token, done>>
        /\ \/ Move(s, "checked") \/ Move(s, "applied")
           \/ Close(s, Code("error")) \/ Close(s, Code("ok"))
    BY <1>2 DEF CreateUser, MarkUsed, RequestReset, SetActive
  <2> QED
    BY <2>1, TokensSame, Quietly
<1>3. CASE Gather(s)
  <2>1. UNCHANGED <<token, done>>
    BY <1>3 DEF Gather, tables
  <2>2. CASE Strong(s)
    <3>1. srv'[s] # Free /\ UNCHANGED reply
      BY <1>3, <2>2, GatherFacts, FreeType DEF Gather
    <3>2. srv'[s].msg = srv[s].msg
      BY <1>3, <2>2, GatherFacts
    <3> QED
      BY <2>1, <3>1, <3>2, TokensSame DEF GoesOnWith
  <2>3. CASE ~Strong(s)
    BY <1>3, <2>1, <2>3, TokensSame, Quietly DEF Gather
  <2> QED
    BY <2>2, <2>3
<1>4. CASE ApplyPassword(s) \/ RevokeAll(s)
  <2>1. /\ UNCHANGED done /\ Revoke(s)
        /\ Move(s, "applied") \/ Close(s, Code("ok"))
    BY <1>4 DEF ApplyPassword, RevokeAll
  <2> QED
    BY <2>1, RevokeSame, Quietly
<1>5. CASE Execute(s)
  <2>1. CASE Close(s, Code("401")) /\ UNCHANGED done
    BY <1>5, <2>1, TokensSame, Quietly DEF Execute
  <2>2. CASE /\ Close(s, Code("ok"))
             /\ done' = [done EXCEPT ![srv[s].msg.id] = done[srv[s].msg.id] + 1]
    BY <1>5, <2>2, TokensSame, CloseReplies DEF Execute, Executes, At
  <2> QED
    BY <1>5, <2>1, <2>2 DEF Execute
<1> QED
  BY <1>1, <1>2, <1>3, <1>4, <1>5, IssueGrants, RotateGrants
     DEF HandlerStep

LEMMA CodeRef == \A c : Code(c).ref = 0 /\ Code(c).code = c
  BY DEF Code

LEMMA WorkTidy ==
  ASSUME TInv, EInv, NEW s \in Session, HandlerStep(s)
  PROVE  EInv'
<1>0. /\ UNCHANGED <<dev, wire, late>>
      /\ \A t \in Session \ {s} : srv'[t] = srv[t]
      /\ GoesOnWith(s) \/ Refuses(s) \/ Executes(s) \/ Grants(s)
      /\ reply \in [Device -> SUBSET Answer]
  BY HandlerWorks DEF TInv, HandlersOK
<1>1. CASE GoesOnWith(s)
  <2>1. \A t \in Session : srv'[t].msg = srv[t].msg
    BY <1>0, <1>1 DEF GoesOnWith
  <2>2. ASSUME NEW d \in Device PROVE Tidy(d)'
    BY <1>0, <1>1, <2>1, Untouched DEF EInv, GoesOnWith, Serves
  <2> QED
    BY <1>0, <2>1, <2>2 DEF EInv
<1>2. ASSUME NEW r, Replies(s, r), srv[s].msg.op = "call" => r.ref = 0
      PROVE  EInv'
  <2>1. /\ srv'[s] = Free /\ ~srv'[s].msg.live
        /\ \A t \in Session : srv'[t].msg.live => t # s /\ srv'[t] = srv[t]
    BY <1>0, <1>2, FreeIdle DEF Replies
  <2>2. \A d \in Device, t \in Session :
          Serves(t, d)' => Serves(t, d) /\ t # s /\ srv'[t] = srv[t]
    BY <2>1 DEF Serves
  <2>3. ASSUME NEW d \in Device, Serves(s, d) PROVE Tidy(d)'
    <3>1. reply'[d] = {r}
      BY <1>0, <1>2, <2>3 DEF Serves, Replies
    <3>2. /\ Asks(d, srv[s].msg) /\ wire[d] = {}
          /\ \A t \in Session : ~Serves(t, d)'
      BY <2>2, <2>3 DEF EInv, Tidy
    <3>3. dev[d].pc \in {"call", "retry"} => r.ref = 0
      BY <1>2, <3>2 DEF Asks, Asked
    <3>4. dev[d].pc \in Waiting /\ (dev[d].pc \in {"out", "login"} => dev[d].ref = 0)
      BY <3>2 DEF Asks, EInv, Tidy
    <3> QED
      BY <1>0, <3>1, <3>2, <3>3, <3>4 DEF Tidy
  <2>4. ASSUME NEW d \in Device, ~Serves(s, d) PROVE Tidy(d)'
    <3>1. reply'[d] = reply[d]
      BY <1>0, <1>2, <2>4 DEF Serves, Replies
    <3> QED
      BY <1>0, <2>2, <3>1, Untouched DEF EInv
  <2> QED
    BY <1>0, <2>1, <2>3, <2>4 DEF EInv
<1> QED
  BY <1>0, <1>1, <1>2, CodeRef DEF Refuses, Executes, Grants

(* A device hangs up. *)
LEMMA Disowned ==
  ASSUME NEW m \in Message
  PROVE  /\ ~[m EXCEPT !.live = FALSE].live
         /\ [m EXCEPT !.live = FALSE].op = m.op
         /\ [m EXCEPT !.live = FALSE].from = m.from
         /\ [m EXCEPT !.live = FALSE].id = m.id
  BY DEF Message

HandlersAbandoned(d) ==
  \A s \in Session :
    /\ srv'[s].msg.op = srv[s].msg.op /\ srv'[s].msg.id = srv[s].msg.id
    /\ srv'[s].msg.from = srv[s].msg.from
    /\ srv[s].msg.from = d => ~srv'[s].msg.live
    /\ srv[s].msg.from # d => srv'[s] = srv[s]

RequestLost(d) ==
  \/ late' = late
  \/ \E q \in wire[d], m \in Message :
       late' = late \cup {m} /\ ~m.live /\ m.op = q.op /\ m.id = q.id

LEMMA HangsUp ==
  ASSUME TInv, NEW d \in Device, Tidy(d), HangUp(d)
  PROVE  /\ Others(d) /\ dev[d].pc \in Waiting /\ Settles(d, Code("error"))
         /\ reply'[d] = {} /\ \A e \in Device \ {d} : reply'[e] = reply[e]
         /\ UNCHANGED <<token, done, ops>> /\ faults' = faults + 1
         /\ HandlersAbandoned(d) /\ RequestLost(d)
<1>0. /\ srv \in [Session -> Handler] /\ reply \in [Device -> SUBSET Answer]
      /\ wire \in [Device -> SUBSET Message]
      /\ \A s \in Session : srv[s].msg \in Message
  BY DEF TInv, HandlersOK, ClientsOK, Handler
<1>1. /\ Others(d) /\ dev[d].pc \in Waiting /\ Settles(d, Code("error"))
  <2>1. Code("error") \in Answer /\ Code("error").code = "error"
    BY CodeType, CodeRef
  <2>2. React(d, Code("error"))
    BY DEF HangUp
  <2>3. ~Renews(d, Code("error")) /\ ~Retries(d, Code("error"))
    BY <2>1 DEF Renews, Retries
  <2> QED
    BY <2>1, <2>2, <2>3, Reacts
<1>2. /\ reply'[d] = {} /\ \A e \in Device \ {d} : reply'[e] = reply[e]
      /\ UNCHANGED <<token, done, ops>> /\ faults' = faults + 1
  BY <1>0 DEF HangUp, Fault, tables
<1>3. HandlersAbandoned(d)
  <2> DEFINE f(s) == [srv[s] EXCEPT !.msg.live = FALSE]
  <2>1. \A s \in Session : srv'[s] = IF srv[s].msg.from = d THEN f(s) ELSE srv[s]
    BY DEF HangUp
  <2>2. ASSUME NEW s \in Session
        PROVE  /\ ~f(s).msg.live /\ f(s).msg.op = srv[s].msg.op
               /\ f(s).msg.from = srv[s].msg.from
               /\ f(s).msg.id = srv[s].msg.id
    <3> DEFINE x == srv[s]
               m == x.msg
    <3>1. x \in Handler /\ m \in Message
      BY <1>0
    <3> HIDE DEF m
    <3>2. f(s).msg = [m EXCEPT !.live = FALSE]
      <4> HIDE DEF x
      <4> QED
        BY <3>1, AbandonedHandler DEF x, m
    <3>3. /\ ~[m EXCEPT !.live = FALSE].live
          /\ [m EXCEPT !.live = FALSE].op = m.op
          /\ [m EXCEPT !.live = FALSE].from = m.from
          /\ [m EXCEPT !.live = FALSE].id = m.id
      BY <3>1, Disowned
    <3> HIDE DEF f
    <3> QED
      BY <3>2, <3>3 DEF m
  <2> HIDE DEF f
  <2> QED
    BY <2>1, <2>2 DEF HandlersAbandoned
<1>4. RequestLost(d)
  <2>1. CASE late' = late
    BY <2>1 DEF RequestLost
  <2>2. CASE /\ late' # late
             /\ late' = late \cup {[q EXCEPT !.live = FALSE] : q \in wire[d]}
    <3>1. PICK q \in wire[d] : TRUE
      BY <2>2
    <3>2. wire[d] = {q} /\ q \in Message
      BY <1>0, <3>1 DEF Tidy
    <3> DEFINE m == [q EXCEPT !.live = FALSE]
    <3>3. late' = late \cup {m}
      BY <2>2, <3>2
    <3>4. m \in Message /\ ~m.live /\ m.op = q.op /\ m.id = q.id
      BY <3>2, Abandoned, Disowned
    <3> HIDE DEF m
    <3> QED
      BY <3>1, <3>3, <3>4 DEF RequestLost
  <2>3. \/ late' = late
        \/ late' = late \cup {[q EXCEPT !.live = FALSE] : q \in wire[d]}
    BY DEF HangUp
  <2> QED
    BY <2>1, <2>2, <2>3
<1> QED
  BY <1>1, <1>2, <1>3, <1>4

LEMMA HangUpTidy ==
  ASSUME TInv, EInv, NEW d \in Device, HangUp(d)
  PROVE  EInv'
<1>0. /\ Others(d) /\ Settles(d, Code("error")) /\ Tidy(d)
      /\ reply'[d] = {} /\ \A e \in Device \ {d} : reply'[e] = reply[e]
      /\ HandlersAbandoned(d) /\ RequestLost(d)
  BY HangsUp DEF EInv
<1>1. ASSUME NEW e \in Device \ {d} PROVE Tidy(e)'
  <2>1. \A s \in Session : Serves(s, e)' => Serves(s, e) /\ srv'[s].msg = srv[s].msg
    BY <1>0 DEF HandlersAbandoned, Serves
  <2> QED
    BY <1>0, <2>1, Untouched DEF EInv, Others
<1>2. Tidy(d)'
  <2>1. \A s \in Session : ~Serves(s, d)'
    BY <1>0 DEF HandlersAbandoned, Serves
  <2> QED
    BY <1>0, <2>1, GoesOnTidy
<1>3. \A s \in Session : srv'[s].msg.live => srv'[s].msg.from \in Device
  BY <1>0 DEF HandlersAbandoned, EInv
<1>4. \A q \in late' : ~q.live
  BY <1>0 DEF RequestLost, EInv
<1> QED
  BY <1>1, <1>2, <1>3, <1>4 DEF EInv

(* The server ends. *)
LEMMA Crashes ==
  ASSUME TInv, ServerCrash
  PROVE  /\ UNCHANGED <<dev, wire, late, token, done, ops>>
         /\ faults' = faults + 1
         /\ \A s \in Session : srv'[s] = Free
         /\ \A d \in Device :
              reply'[d] = IF \E s \in Session : Serves(s, d)
                          THEN {Code("error")} ELSE reply[d]
<1>1. /\ UNCHANGED <<dev, wire, late, token, done, ops>>
      /\ faults' = faults + 1
      /\ \A s \in Session : srv'[s] = Free
  BY DEF ServerCrash, Fault, client, tables
<1>2. reply' = [d \in Device |->
                  IF \E s \in Session : srv[s].msg.from = d /\ srv[s].msg.live
                  THEN {Code("error")} ELSE reply[d]]
  BY DEF ServerCrash
<1>3. ASSUME NEW d \in Device
      PROVE  reply'[d] = IF \E s \in Session : Serves(s, d)
                         THEN {Code("error")} ELSE reply[d]
  BY <1>2 DEF Serves
<1> QED
  BY <1>1, <1>3

LEMMA CrashTidy ==
  ASSUME TInv, EInv, ServerCrash
  PROVE  EInv'
<1>0. /\ UNCHANGED <<dev, wire, late>>
      /\ \A s \in Session : srv'[s] = Free
      /\ \A d \in Device :
              reply'[d] = IF \E s \in Session : Serves(s, d)
                          THEN {Code("error")} ELSE reply[d]
  BY Crashes
<1>1. \A s \in Session, d \in Device : ~Serves(s, d)' /\ ~srv'[s].msg.live
  BY <1>0, FreeIdle DEF Serves
<1>2. ASSUME NEW d \in Device PROVE Tidy(d)'
  <2>1. CASE \E s \in Session : Serves(s, d)
    <3>1. reply'[d] = {Code("error")}
      BY <1>0, <2>1
    <3>2. wire[d] = {} /\ dev[d].pc \in Waiting
      BY <2>1 DEF EInv, Tidy, Asks
    <3> QED
      BY <1>0, <1>1, <3>1, <3>2, CodeRef DEF EInv, Tidy
  <2>2. CASE ~\E s \in Session : Serves(s, d)
    BY <1>0, <1>1, <2>2, Untouched DEF EInv
  <2> QED
    BY <2>1, <2>2
<1>3. \A s \in Session : ~srv'[s].msg.live
  BY <1>0, FreeIdle
<1> QED
  BY <1>0, <1>2, <1>3 DEF EInv

LEMMA EInvNext == TInv /\ EInv /\ [Next]_vars => EInv'
<1> SUFFICES ASSUME TInv, EInv, [Next]_vars PROVE EInv'
  OBVIOUS
<1>1. CASE \E d \in Device : SignIn(d) \/ StartCall(d) \/ Leave(d) \/ Receive(d)
  BY <1>1, TurnTidy
<1>2. CASE \E d \in Device : HangUp(d)
  BY <1>2, HangUpTidy
<1>3. CASE \E s \in Session, d \in Device : Serve(s, d)
  BY <1>3, ServeTidy
<1>4. CASE \E s \in Session : ServeLate(s)
  <2>1. PICK s \in Session, q \in late : Opens(s, q) /\ late' = late \ {q}
    BY <1>4, LateOpens
  <2>2. UNCHANGED <<dev, wire, reply>> /\ ~q.live
    BY <1>4, LateOpens DEF EInv
  <2> QED
    BY <2>1, <2>2, UnheardTidy
<1>5. CASE \E s \in Session : Ask(s)
  <2>1. PICK s \in Session : Ask(s)
    BY <1>5
  <2>2. PICK q : Opens(s, q) /\ ~q.live
    BY <2>1, AskOpens
  <2>3. UNCHANGED <<dev, wire, reply, late>>
    BY <2>1, AskOpens
  <2> QED
    BY <2>2, <2>3, UnheardTidy
<1>6. CASE \E s \in Session : HandlerStep(s)
  BY <1>6, WorkTidy
<1>7. CASE ServerCrash
  BY <1>7, CrashTidy
<1>8. CASE Tick \/ UNCHANGED vars
  <2>1. UNCHANGED <<srv, dev, wire, late, reply>>
    BY <1>8 DEF Tick, vars, client
  <2>2. ASSUME NEW d \in Device PROVE Tidy(d)'
    BY <2>1, Untouched DEF EInv, Serves
  <2> QED
    BY <2>1, <2>2 DEF EInv
<1> QED
  BY <1>1, <1>2, <1>3, <1>4, <1>5, <1>6, <1>7, <1>8 DEF Next

LEMMA InitE == Init => EInv
<1> SUFFICES ASSUME Init PROVE EInv
  OBVIOUS
<1>1. /\ \A s \in Session : srv[s] = Free
      /\ \A d \in Device : /\ dev[d].pc = "out" /\ dev[d].ref = 0
                           /\ wire[d] = {} /\ reply[d] = {}
      /\ late = {}
  BY DEF Init
<1> QED
  BY <1>1, FreeIdle DEF EInv, Tidy, Serves

-----------------------------------------------------------------------------
(* A call is executed at most once. *)

CallOfId(q, i) == q.op = "call" /\ q.id = i
OnWire(d, i) == \E q \in wire[d] : CallOfId(q, i)
IsLate(i) == \E q \in late : CallOfId(q, i)
InHand(s, i) == CallOfId(srv[s].msg, i)

(* Call i may still be executed. *)
Pending(i) ==
  \/ \E d \in Device : OnWire(d, i)
  \/ IsLate(i)
  \/ \E s \in Session : InHand(s, i)

(* At most one request can execute call i. *)
Single(i) ==
  /\ \A d, e \in Device : OnWire(d, i) /\ OnWire(e, i) => d = e
  /\ \A d \in Device : OnWire(d, i) => ~IsLate(i) /\ \A s \in Session : ~InHand(s, i)
  /\ IsLate(i) => \A s \in Session : ~InHand(s, i)
  /\ \A p, q \in late : CallOfId(p, i) /\ CallOfId(q, i) => p = q
  /\ \A s, t \in Session : InHand(s, i) /\ InHand(t, i) => s = t

(* Call i was not executed and no request of it is left. *)
Undone(i) == ~Pending(i) /\ (i \in DOMAIN done => done[i] = 0)

Once(i) ==
  /\ Single(i)
  /\ i > ops => Undone(i)
  /\ i \in DOMAIN done => done[i] <= 1 /\ (Pending(i) => done[i] = 0)

(* A device that renews its token, or has been told to, may repeat its     *)
(* call.                                                                   *)
Rejected(d) ==
  \/ dev[d].pc = "refresh"
  \/ dev[d].pc = "call" /\ \E r \in reply[d] : r.code = "401"

Numbered ==
  /\ \A d \in Device :
       /\ dev[d].id <= ops
       /\ dev[d].pc \in {"call", "refresh", "retry"} => dev[d].id # 0
  /\ \A d, e \in Device : d # e => dev[d].id # dev[e].id \/ dev[d].id = 0

OnceInv ==
  /\ Numbered
  /\ \A i \in Nat : Once(i)
  /\ \A d \in Device, i \in Nat : Rejected(d) /\ i = dev[d].id => Undone(i)

LEMMA IdTypes ==
  ASSUME TInv
  PROVE  /\ ops \in Nat /\ \A d \in Device : dev[d].id \in Nat
         /\ \A s \in Session : srv[s].msg.id \in Nat
         /\ \A i \in DOMAIN done : i \in Nat /\ done[i] \in Nat
         /\ done \in [1 .. MaxOps -> Nat]
<1>1. ops \in Nat /\ done \in [1 .. MaxOps -> Nat] /\ MaxOps \in Nat
  BY AccountsAssumption DEF TInv, BudgetOK, TablesOK
<1>2. \A d \in Device : dev[d].id \in Nat
  BY DEF TInv, ClientsOK, Held
<1>3. \A s \in Session : srv[s].msg.id \in Nat
  BY DEF TInv, HandlersOK, Handler, Message
<1> QED
  BY <1>1, <1>2, <1>3

(* No place gains a request of call i. *)
LEMMA Fewer ==
  ASSUME NEW i, Single(i), \A d \in Device : OnWire(d, i)' => OnWire(d, i),
         late' \subseteq late, \A s \in Session : InHand(s, i)' => InHand(s, i)
  PROVE  Single(i)' /\ (Pending(i)' => Pending(i))
  BY DEF Single, Pending, IsLate

LEMMA OnceStays ==
  ASSUME NEW i \in Nat, Once(i), ops \in Nat, ops' \in {ops, ops + 1},
         Single(i)', Pending(i)' => Pending(i), UNCHANGED done
  PROVE  Once(i)' /\ (Undone(i) => Undone(i)')
  BY DEF Once, Undone

LEMMA NumberedStays ==
  ASSUME Numbered, UNCHANGED dev, ops \in Nat, ops' \in {ops, ops + 1},
         \A d \in Device : dev[d].id \in Nat
  PROVE  Numbered'
<1>1. ops <= ops'
  OBVIOUS
<1>2. \A d \in Device : dev[d].id <= ops'
  BY <1>1 DEF Numbered
<1> QED
  BY <1>2 DEF Numbered

(* A step that moves requests without making one, and answers nobody.      *)
LEMMA MovesOnce ==
  ASSUME TInv, OnceInv, ops' \in {ops, ops + 1}, UNCHANGED <<dev, reply, done>>,
         \A i \in Nat : Single(i)' /\ (Pending(i)' => Pending(i))
  PROVE  OnceInv'
<1>0. ops \in Nat /\ \A d \in Device : dev[d].id \in Nat
  BY IdTypes
<1>1. \A i \in Nat : Once(i)' /\ (Undone(i) => Undone(i)')
  BY <1>0, OnceStays DEF OnceInv
<1>2. Numbered'
  BY <1>0, NumberedStays DEF OnceInv
<1>3. ASSUME NEW d \in Device, NEW i \in Nat, Rejected(d)', i = dev'[d].id
      PROVE  Undone(i)'
  <2>1. Rejected(d) /\ i = dev[d].id
    BY <1>3 DEF Rejected
  <2> QED
    BY <1>1, <2>1 DEF OnceInv
<1> QED
  BY <1>1, <1>2, <1>3 DEF OnceInv

LEMMA ServeOnce ==
  ASSUME TInv, EInv, OnceInv, NEW s \in Session, NEW d \in Device, Serve(s, d)
  PROVE  OnceInv'
<1>0. /\ wire'[d] = {} /\ \A e \in Device \ {d} : wire'[e] = wire[e]
      /\ UNCHANGED <<dev, late, reply, token, done, faults, ops>>
  BY ServeOpens
<1>1. PICK q \in wire[d] : Opens(s, q)
  BY ServeOpens
<1>2. ASSUME NEW i \in Nat PROVE Single(i)' /\ (Pending(i)' => Pending(i))
  <2>0. Single(i)
    BY DEF OnceInv, Once
  <2>1. /\ ~OnWire(d, i)'
        /\ \A e \in Device : OnWire(e, i)' => e # d /\ OnWire(e, i)
        /\ IsLate(i)' = IsLate(i)
    BY <1>0 DEF OnWire, IsLate
  <2>2. \A t \in Session : InHand(t, i)' => t = s \/ InHand(t, i)
    BY <1>1 DEF Opens, InHand
  <2>3. InHand(s, i)' => OnWire(d, i)
    BY <1>1 DEF Opens, InHand, OnWire
  <2>4. CASE InHand(s, i)'
    <3>1. /\ ~IsLate(i)' /\ \A t \in Session : InHand(t, i)' => t = s
          /\ \A e \in Device : ~OnWire(e, i)'
      BY <2>0, <2>1, <2>2, <2>3, <2>4 DEF Single
    <3> QED
      BY <2>3, <2>4, <3>1 DEF Single, Pending, IsLate
  <2>5. CASE ~InHand(s, i)'
    BY <1>0, <2>0, <2>1, <2>2, <2>5, Fewer
  <2> QED
    BY <2>4, <2>5
<1> QED
  BY <1>0, <1>2, MovesOnce

LEMMA LateOnce ==
  ASSUME TInv, EInv, OnceInv, NEW s \in Session, ServeLate(s)
  PROVE  OnceInv'
<1>0. UNCHANGED <<dev, wire, reply, token, done, faults, ops>>
  BY LateOpens
<1>1. PICK q \in late : Opens(s, q) /\ late' = late \ {q}
  BY LateOpens
<1>2. ASSUME NEW i \in Nat PROVE Single(i)' /\ (Pending(i)' => Pending(i))
  <2>0. Single(i)
    BY DEF OnceInv, Once
  <2>1. /\ \A e \in Device : OnWire(e, i)' = OnWire(e, i)
        /\ IsLate(i)' => IsLate(i)
    BY <1>0, <1>1 DEF OnWire, IsLate
  <2>2. \A t \in Session : InHand(t, i)' => t = s \/ InHand(t, i)
    BY <1>1 DEF Opens, InHand
  <2>3. InHand(s, i)' => CallOfId(q, i)
    BY <1>1 DEF Opens, InHand
  <2>4. CASE InHand(s, i)'
    <3>1. IsLate(i) /\ ~IsLate(i)'
      BY <1>1, <2>0, <2>3, <2>4 DEF Single, IsLate
    <3>2. /\ \A t \in Session : InHand(t, i)' => t = s
          /\ \A e \in Device : ~OnWire(e, i)'
      BY <2>0, <2>1, <2>2, <3>1 DEF Single
    <3> QED
      BY <2>4, <3>1, <3>2 DEF Single, Pending, IsLate
  <2>5. CASE ~InHand(s, i)'
    BY <1>1, <2>0, <2>1, <2>2, <2>5, Fewer
  <2> QED
    BY <2>4, <2>5
<1> QED
  BY <1>0, <1>2, MovesOnce

LEMMA AskOnce ==
  ASSUME TInv, OnceInv, NEW s \in Session, Ask(s)
  PROVE  OnceInv'
<1>0. /\ UNCHANGED <<dev, wire, late, reply, token, done, faults>>
      /\ ops' = ops + 1
  BY AskOpens
<1>1. PICK q : Opens(s, q) /\ q.op \notin {"login", "refresh", "call"}
  BY AskOpens
<1>2. ASSUME NEW i \in Nat PROVE Single(i)' /\ (Pending(i)' => Pending(i))
  <2>1. \A t \in Session : InHand(t, i)' => InHand(t, i)
    BY <1>1 DEF Opens, InHand, CallOfId
  <2> QED
    BY <1>0, <2>1, Fewer DEF OnceInv, Once, OnWire
<1> QED
  BY <1>0, <1>2, MovesOnce

LEMMA SameOnce ==
  ASSUME TInv, OnceInv, UNCHANGED <<dev, wire, late, reply, done, ops>>,
         \A s \in Session : srv'[s].msg = srv[s].msg
  PROVE  OnceInv'
<1>1. ASSUME NEW i \in Nat PROVE Single(i)' /\ (Pending(i)' => Pending(i))
  BY Fewer DEF OnceInv, Once, OnWire, InHand
<1> QED
  BY <1>1, MovesOnce

(* A handler that has answered holds no call any more. *)
LEMMA Relinquished ==
  ASSUME OnceInv, NEW s \in Session, srv'[s] = Free, UNCHANGED <<wire, late>>,
         \A t \in Session \ {s} : srv'[t] = srv[t], NEW i \in Nat
  PROVE  /\ Single(i)' /\ (Pending(i)' => Pending(i))
         /\ InHand(s, i) => Pending(i) /\ ~Pending(i)'
<1>0. Single(i)
  BY DEF OnceInv, Once
<1>1. /\ ~InHand(s, i)'
      /\ \A t \in Session \ {s} : InHand(t, i)' = InHand(t, i)
      /\ IsLate(i)' = IsLate(i) /\ \A e \in Device : OnWire(e, i)' = OnWire(e, i)
  BY FreeIdle DEF InHand, CallOfId, IsLate, OnWire
<1>2. Single(i)' /\ (Pending(i)' => Pending(i))
  BY <1>0, <1>1, Fewer
<1>3. ASSUME InHand(s, i) PROVE Pending(i) /\ ~Pending(i)'
  BY <1>0, <1>1, <1>3 DEF Single, Pending
<1> QED
  BY <1>2, <1>3

LEMMA RefusesOnce ==
  ASSUME TInv, EInv, OnceInv, NEW s \in Session, HandlerStep(s),
         Refuses(s) \/ Grants(s)
  PROVE  OnceInv'
<1>0. /\ UNCHANGED <<dev, wire, late, ops, done>>
      /\ \A t \in Session \ {s} : srv'[t] = srv[t]
      /\ reply \in [Device -> SUBSET Answer]
  BY HandlerWorks DEF Refuses, Grants, TInv, HandlersOK
<1>1. PICK r : Replies(s, r)
  BY DEF Refuses, Grants
<1>2. ASSUME NEW i \in Nat
      PROVE  /\ Single(i)' /\ (Pending(i)' => Pending(i))
             /\ InHand(s, i) => Pending(i) /\ ~Pending(i)'
  BY <1>0, <1>1, Relinquished DEF Replies
<1>3. ASSUME NEW i \in Nat PROVE Once(i)' /\ (Undone(i) => Undone(i)')
  BY <1>0, <1>2, IdTypes, OnceStays DEF OnceInv
<1>4. Numbered'
  BY <1>0, IdTypes, NumberedStays DEF OnceInv
<1>5. ASSUME NEW d \in Device, NEW i \in Nat, Rejected(d)', i = dev'[d].id
      PROVE  Undone(i)'
  <2>1. CASE Rejected(d)
    BY <1>0, <1>3, <1>5, <2>1 DEF OnceInv
  <2>2. CASE ~Rejected(d)
    <3>1. dev[d].pc = "call" /\ reply'[d] # reply[d]
      BY <1>0, <1>5, <2>2 DEF Rejected
    <3>2. Serves(s, d)
      BY <1>0, <1>1, <3>1 DEF Replies, Serves
    <3>3. InHand(s, i)
      BY <1>0, <1>5, <3>1, <3>2 DEF EInv, Tidy, Asks, Asked, InHand, CallOfId
    <3>4. Pending(i) /\ ~Pending(i)'
      BY <1>2, <3>3
    <3>5. i \in DOMAIN done => done[i] = 0
      BY <3>4 DEF OnceInv, Once
    <3> QED
      BY <1>0, <3>4, <3>5 DEF Undone
  <2> QED
    BY <2>1, <2>2
<1> QED
  BY <1>3, <1>4, <1>5 DEF OnceInv

LEMMA ExecutesOnce ==
  ASSUME TInv, EInv, OnceInv, NEW s \in Session, HandlerStep(s), Executes(s)
  PROVE  OnceInv'
<1>0. PICK k \in Nat : k = srv[s].msg.id
  BY IdTypes
<1>1. /\ UNCHANGED <<dev, wire, late, ops>>
      /\ \A t \in Session \ {s} : srv'[t] = srv[t]
      /\ reply \in [Device -> SUBSET Answer] /\ Replies(s, Code("ok"))
      /\ done' = [done EXCEPT ![k] = done[k] + 1]
  BY <1>0, HandlerWorks DEF Executes, TInv, HandlersOK
<1>2. k \in Nat /\ InHand(s, k)
  BY <1>0 DEF Executes, InHand, CallOfId
<1>3. ASSUME NEW i \in Nat
      PROVE  /\ Single(i)' /\ (Pending(i)' => Pending(i))
             /\ InHand(s, i) => Pending(i) /\ ~Pending(i)'
  BY <1>1, Relinquished DEF Replies
<1>4. /\ \A i \in Nat : Single(i)' /\ (Pending(i)' => Pending(i))
      /\ Pending(k) /\ ~Pending(k)'
  BY <1>2, <1>3
<1>5. /\ DOMAIN done' = DOMAIN done
      /\ \A i \in DOMAIN done : i # k => done'[i] = done[i]
      /\ k \in DOMAIN done => done'[k] = 1
  <2>1. k \in DOMAIN done => done[k] = 0
    BY <1>2, <1>4 DEF OnceInv, Once
  <2> QED
    BY <1>1, <2>1, IdTypes
<1>6. ASSUME NEW i \in Nat PROVE Once(i)' /\ (Undone(i) => Undone(i)')
  <2>1. CASE i = k
    <3>1. Once(i) /\ Pending(i) /\ ~Pending(i)'
      BY <1>4, <2>1 DEF OnceInv
    <3>2. ~Undone(i) /\ ~(i > ops)
      BY <3>1 DEF Undone, Once
    <3> QED
      BY <1>1, <1>4, <1>5, <2>1, <3>1, <3>2 DEF Once
  <2>2. CASE i # k
    BY <1>1, <1>4, <1>5, <2>2 DEF OnceInv, Once, Undone
  <2> QED
    BY <2>1, <2>2
<1>7. Numbered'
  BY <1>1, IdTypes, NumberedStays DEF OnceInv
<1>8. ASSUME NEW d \in Device, NEW i \in Nat, Rejected(d)', i = dev'[d].id
      PROVE  Undone(i)'
  <2>1. Rejected(d)
    BY <1>1, <1>8, CodeRef DEF Rejected, Replies
  <2> QED
    BY <1>1, <1>6, <1>8, <2>1 DEF OnceInv
<1> QED
  BY <1>6, <1>7, <1>8 DEF OnceInv

(* What a device sends: nothing of a call, or its own call that is new or  *)
(* was rejected.                                                           *)
LEMMA TurnSends ==
  ASSUME TInv, EInv, OnceInv, NEW d \in Device,
         SignIn(d) \/ StartCall(d) \/ Leave(d) \/ Receive(d),
         NEW i \in Nat, OnWire(d, i)', ~OnWire(d, i)
  PROVE  Undone(i) /\ i <= ops' /\ i = dev'[d].id /\ dev'[d].pc \in {"call", "retry"}
<1>0. /\ ops \in Nat /\ dev[d].id \in Nat /\ ops' \in {ops, ops + 1}
      /\ \/ reply'[d] = reply[d] /\ (SignsIn(d) \/ Starts(d) \/ Leaves(d))
         \/ \E r : Hears(d, r)
  BY Turns, IdTypes
<1>1. CASE SignsIn(d) \/ Leaves(d)
  BY <1>1 DEF SignsIn, Leaves, OnWire, CallOfId
<1>2. CASE Starts(d)
  <2>1. i = ops + 1 /\ i = ops' /\ i = dev'[d].id /\ dev'[d].pc = "call"
    BY <1>2 DEF Starts, OnWire, CallOfId
  <2>2. Undone(i)
    BY <1>0, <2>1 DEF OnceInv, Once
  <2> QED
    BY <1>0, <2>1, <2>2
<1>3. CASE \E r : Hears(d, r)
  <2>1. PICK r : Hears(d, r)
    BY <1>3
  <2>2. Retries(d, r)
    BY <2>1 DEF Hears, Settles, Renews, OnWire, CallOfId
  <2>3. /\ i = dev[d].id /\ i = dev'[d].id /\ dev[d].pc = "refresh"
        /\ dev'[d].pc = "retry"
    BY <2>2 DEF Retries, OnWire, CallOfId
  <2>4. Undone(i) /\ i <= ops
    BY <2>3 DEF OnceInv, Rejected, Numbered
  <2>5. i <= ops'
    BY <1>0, <2>4
  <2> QED
    BY <2>3, <2>4, <2>5
<1> QED
  BY <1>0, <1>1, <1>2, <1>3

(* The number of a call is that of one device.                             *)
LEMMA TurnNumbers ==
  ASSUME TInv, EInv, OnceInv, NEW d \in Device,
         SignIn(d) \/ StartCall(d) \/ Leave(d) \/ Receive(d)
  PROVE  /\ Numbered'
         /\ dev'[d].id = dev[d].id \/ dev'[d].id = 0 \/ dev'[d].id > ops
<1>0. /\ ops \in Nat /\ \A e \in Device : dev[e].id \in Nat
      /\ ops' \in {ops, ops + 1} /\ Others(d) /\ Numbered
      /\ \/ SignsIn(d) \/ Starts(d) \/ Leaves(d)
         \/ \E r : Hears(d, r)
  BY Turns, IdTypes DEF OnceInv
<1>1. \/ dev'[d].id = dev[d].id
      \/ dev'[d].id = 0 /\ dev'[d].pc = "out"
      \/ dev'[d].id = ops + 1 /\ ops' = ops + 1
  BY <1>0 DEF SignsIn, Starts, Leaves, Hears, Settles, Renews, Retries
<1>2. dev'[d].pc \in {"call", "refresh", "retry"} => dev'[d].id # 0
  <2>1. CASE SignsIn(d) \/ Leaves(d)
    BY <2>1 DEF SignsIn, Leaves
  <2>2. CASE Starts(d)
    BY <1>0, <2>2 DEF Starts
  <2>3. CASE \E r : Hears(d, r)
    BY <1>0, <2>3 DEF Hears, Settles, Renews, Retries, Numbered
  <2> QED
    BY <1>0, <2>1, <2>2, <2>3
<1>3. \A e \in Device : dev'[e].id <= ops'
  BY <1>0, <1>1 DEF Numbered, Others
<1>4. \A e \in Device \ {d} : dev'[e] = dev[e]
  BY <1>0 DEF Others
<1>5. \A e \in Device \ {d} : dev'[d].id # dev[e].id \/ dev'[d].id = 0 \/ dev[e].id = 0
  BY <1>0, <1>1 DEF Numbered
<1>6. \A e, f \in Device : e # f => dev'[e].id # dev'[f].id \/ dev'[e].id = 0
  BY <1>0, <1>4, <1>5 DEF Numbered
<1>7. \A e \in Device : dev'[e].pc \in {"call", "refresh", "retry"} => dev'[e].id # 0
  BY <1>0, <1>2, <1>4 DEF Numbered
<1> QED
  BY <1>0, <1>1, <1>3, <1>6, <1>7 DEF Numbered

LEMMA TurnOnce ==
  ASSUME TInv, EInv, OnceInv, NEW d \in Device,
         SignIn(d) \/ StartCall(d) \/ Leave(d) \/ Receive(d)
  PROVE  OnceInv'
<1>0. /\ UNCHANGED <<srv, late, done>> /\ Others(d)
      /\ ops \in Nat /\ ops' \in {ops, ops + 1} /\ dev[d].id \in Nat
      /\ \A e \in Device \ {d} : reply'[e] = reply[e] /\ dev'[e] = dev[e]
      /\ \/ reply'[d] = reply[d] /\ (SignsIn(d) \/ Starts(d) \/ Leaves(d))
         \/ reply'[d] = {} /\ \E r : Hears(d, r)
  BY Turns, IdTypes DEF Others
<1>1. ASSUME NEW i \in Nat
      PROVE  /\ \A e \in Device \ {d} : OnWire(e, i)' = OnWire(e, i)
             /\ IsLate(i)' = IsLate(i)
             /\ \A s \in Session : InHand(s, i)' = InHand(s, i)
  BY <1>0 DEF Others, OnWire, IsLate, InHand
<1>2. ASSUME NEW i \in Nat, OnWire(d, i)' => OnWire(d, i)
      PROVE  Once(i)' /\ (Undone(i) => Undone(i)')
  <2>1. Single(i)' /\ (Pending(i)' => Pending(i))
    BY <1>0, <1>1, <1>2, Fewer DEF OnceInv, Once
  <2> QED
    BY <1>0, <2>1, OnceStays DEF OnceInv
<1>3. ASSUME NEW i \in Nat, OnWire(d, i)', ~OnWire(d, i)
      PROVE  Once(i)'
  <2>1. Undone(i) /\ i <= ops' /\ Single(i)
    BY <1>3, TurnSends DEF OnceInv, Once
  <2>2. Single(i)'
    BY <1>0, <1>1, <2>1 DEF Single, Undone, Pending, IsLate
  <2>3. i \in DOMAIN done' => done'[i] = 0
    BY <1>0, <2>1 DEF Undone
  <2> QED
    BY <1>0, <2>1, <2>2, <2>3 DEF Once
<1>4. ASSUME NEW e \in Device, NEW i \in Nat, Rejected(e)', i = dev'[e].id
      PROVE  Undone(i)'
  <2>1. CASE e # d
    <3>1. Rejected(e) /\ i = dev[e].id
      BY <1>0, <1>4, <2>1 DEF Rejected
    <3>2. Undone(i) /\ i # 0 /\ i <= ops
      BY <3>1 DEF OnceInv, Rejected, Numbered
    <3>3. OnWire(d, i)' => OnWire(d, i)
      <4>1. SUFFICES ASSUME OnWire(d, i)', ~OnWire(d, i) PROVE FALSE
        OBVIOUS
      <4>2. i = dev'[d].id
        BY <4>1, TurnSends
      <4> QED
        BY <1>4, <2>1, <3>2, <4>2, TurnNumbers DEF Numbered
    <3> QED
      BY <1>2, <3>2, <3>3
  <2>2. CASE e = d
    <3>1. ~Starts(d)
      <4>1. SUFFICES ASSUME Starts(d) PROVE FALSE
        OBVIOUS
      <4>2. reply[d] = {} /\ Tidy(d)
        BY <4>1, Resting DEF Starts, Waiting, EInv
      <4>3. reply'[d] = {}
        BY <1>0, <4>2
      <4> QED
        BY <1>4, <2>2, <4>1, <4>3 DEF Starts, Rejected
    <3>2. PICK r : Hears(d, r) /\ reply'[d] = {}
      BY <1>0, <1>4, <2>2, <3>1 DEF SignsIn, Leaves, Rejected
    <3>3. dev'[d].pc = "refresh" /\ r \in reply[d]
      BY <1>4, <2>2, <3>2 DEF Rejected, Hears, Settles, Renews, Retries
    <3>4. Renews(d, r)
      BY <3>2, <3>3 DEF Hears, Settles, Retries
    <3>5. Undone(i)
      BY <1>4, <2>2, <3>3, <3>4 DEF Renews, Rejected, OnceInv
    <3>6. ~OnWire(d, i)'
      BY <3>4 DEF Renews, OnWire, CallOfId
    <3> QED
      BY <1>2, <3>5, <3>6
  <2> QED
    BY <2>1, <2>2
<1>5. \A i \in Nat : Once(i)'
  BY <1>2, <1>3
<1> QED
  BY <1>4, <1>5, TurnNumbers DEF OnceInv

LEMMA HangUpOnce ==
  ASSUME TInv, EInv, OnceInv, NEW d \in Device, HangUp(d)
  PROVE  OnceInv'
<1>0. /\ Others(d) /\ Settles(d, Code("error")) /\ ops' = ops
      /\ reply'[d] = {} /\ \A e \in Device \ {d} : reply'[e] = reply[e]
      /\ UNCHANGED done /\ HandlersAbandoned(d) /\ RequestLost(d)
      /\ ops \in Nat /\ \A e \in Device : dev[e].id \in Nat
  BY HangsUp, IdTypes DEF EInv
<1>1. ASSUME NEW i \in Nat PROVE Single(i)' /\ (Pending(i)' => Pending(i))
  <2>0. Single(i)
    BY DEF OnceInv, Once
  <2>1. /\ \A e \in Device : OnWire(e, i)' => e # d /\ OnWire(e, i)
        /\ \A s \in Session : InHand(s, i)' = InHand(s, i)
    BY <1>0 DEF Others, OnWire, HandlersAbandoned, InHand, CallOfId, Settles
  <2>2. CASE late' = late
    BY <2>0, <2>1, <2>2, Fewer
  <2>3. CASE late' # late
    <3>1. PICK q, m : /\ q \in wire[d] /\ m \in Message
                      /\ late' = late \cup {m} /\ ~m.live /\ m.op = q.op /\ m.id = q.id
      BY <1>0, <2>3 DEF RequestLost
    <3>2. CASE ~CallOfId(m, i)
      <4>1. /\ \A p \in late' : CallOfId(p, i) => p \in late
            /\ IsLate(i)' => IsLate(i)
        BY <3>1, <3>2 DEF IsLate
      <4> QED
        BY <2>0, <2>1, <4>1 DEF Single, Pending
    <3>3. CASE CallOfId(m, i)
      <4>1. OnWire(d, i)
        BY <3>1, <3>3 DEF OnWire, CallOfId
      <4>2. /\ ~IsLate(i) /\ \A s \in Session : ~InHand(s, i)'
            /\ \A e \in Device : ~OnWire(e, i)'
        BY <2>0, <2>1, <4>1 DEF Single
      <4>3. \A p \in late' : CallOfId(p, i) => p = m
        BY <3>1, <4>2 DEF IsLate
      <4>4. Single(i)'
        BY <4>2, <4>3 DEF Single
      <4>5. Pending(i)
        BY <4>1 DEF Pending
      <4> QED
        BY <4>4, <4>5
    <3> QED
      BY <3>2, <3>3
  <2> QED
    BY <2>2, <2>3
<1>2. ASSUME NEW i \in Nat PROVE Once(i)' /\ (Undone(i) => Undone(i)')
  BY <1>0, <1>1, OnceStays DEF OnceInv
<1>3. Numbered'
  <2>1. \A e \in Device : dev'[e].id = dev[e].id
    BY <1>0 DEF Settles, Others
  <2>2. \A e \in Device : dev'[e].pc \in {"call", "refresh", "retry"} =>
          dev'[e].pc = dev[e].pc
    BY <1>0 DEF Settles, Others
  <2> QED
    BY <1>0, <2>1, <2>2 DEF OnceInv, Numbered
<1>4. ASSUME NEW e \in Device, NEW i \in Nat, Rejected(e)', i = dev'[e].id
      PROVE  Undone(i)'
  <2>1. e # d
    BY <1>0, <1>4 DEF Rejected, Settles
  <2>2. Rejected(e) /\ i = dev[e].id
    BY <1>0, <1>4, <2>1 DEF Rejected, Others
  <2> QED
    BY <1>2, <2>2 DEF OnceInv
<1> QED
  BY <1>2, <1>3, <1>4 DEF OnceInv

LEMMA CrashOnce ==
  ASSUME TInv, EInv, OnceInv, ServerCrash
  PROVE  OnceInv'
<1>0. /\ UNCHANGED <<dev, wire, late, done, ops>>
      /\ \A s \in Session : srv'[s] = Free
      /\ \A d \in Device : reply'[d] = {Code("error")} \/ reply'[d] = reply[d]
      /\ ops \in Nat /\ \A e \in Device : dev[e].id \in Nat
  BY Crashes, IdTypes
<1>1. ASSUME NEW i \in Nat PROVE Single(i)' /\ (Pending(i)' => Pending(i))
  BY <1>0, FreeIdle, Fewer DEF OnceInv, Once, OnWire, InHand, CallOfId
<1>2. ASSUME NEW i \in Nat PROVE Once(i)' /\ (Undone(i) => Undone(i)')
  BY <1>0, <1>1, OnceStays DEF OnceInv
<1>3. Numbered'
  BY <1>0, NumberedStays DEF OnceInv
<1>4. ASSUME NEW e \in Device, NEW i \in Nat, Rejected(e)', i = dev'[e].id
      PROVE  Undone(i)'
  <2>1. Rejected(e) /\ i = dev[e].id
    BY <1>0, <1>4, CodeRef DEF Rejected
  <2> QED
    BY <1>2, <2>1 DEF OnceInv
<1> QED
  BY <1>2, <1>3, <1>4 DEF OnceInv

LEMMA OnceNext == TInv /\ EInv /\ OnceInv /\ [Next]_vars => OnceInv'
<1> SUFFICES ASSUME TInv, EInv, OnceInv, [Next]_vars PROVE OnceInv'
  OBVIOUS
<1>1. CASE \E d \in Device : SignIn(d) \/ StartCall(d) \/ Leave(d) \/ Receive(d)
  BY <1>1, TurnOnce
<1>2. CASE \E d \in Device : HangUp(d)
  BY <1>2, HangUpOnce
<1>3. CASE \E s \in Session : (\E d \in Device : Serve(s, d)) \/ ServeLate(s) \/ Ask(s)
  BY <1>3, ServeOnce, LateOnce, AskOnce
<1>4. CASE \E s \in Session : HandlerStep(s)
  <2>1. PICK s \in Session : HandlerStep(s)
    BY <1>4
  <2>2. CASE GoesOnWith(s)
    BY <2>1, <2>2, HandlerWorks, SameOnce DEF GoesOnWith
  <2>3. CASE Refuses(s) \/ Grants(s)
    BY <2>1, <2>3, RefusesOnce
  <2>4. CASE Executes(s)
    BY <2>1, <2>4, ExecutesOnce
  <2> QED
    BY <2>1, <2>2, <2>3, <2>4, HandlerWorks
<1>5. CASE ServerCrash
  BY <1>5, CrashOnce
<1>6. CASE Tick \/ UNCHANGED vars
  <2>1. UNCHANGED <<dev, wire, late, reply, done, ops, srv>>
    BY <1>6 DEF Tick, vars, client, tables, budget
  <2> QED
    BY <2>1, SameOnce
<1> QED
  BY <1>1, <1>2, <1>3, <1>4, <1>5, <1>6 DEF Next

LEMMA InitOnce == Init => OnceInv
<1> SUFFICES ASSUME Init PROVE OnceInv
  OBVIOUS
<1>1. /\ \A s \in Session : srv[s] = Free
      /\ \A d \in Device : /\ dev[d].pc = "out" /\ dev[d].id = 0
                           /\ wire[d] = {} /\ reply[d] = {}
      /\ late = {} /\ ops = 0 /\ \A i \in DOMAIN done : done[i] = 0
  BY DEF Init
<1>2. \A i \in Nat : ~Pending(i) /\ Single(i)
  BY <1>1, FreeIdle DEF Pending, Single, OnWire, IsLate, InHand, CallOfId
<1>3. \A i \in Nat : Once(i)
  BY <1>1, <1>2 DEF Once, Undone
<1>4. Numbered
  BY <1>1 DEF Numbered
<1> QED
  BY <1>1, <1>3, <1>4 DEF OnceInv, Rejected

LEMMA AlwaysOnce == Spec => [](TInv /\ EInv /\ OnceInv)
<1>1. Init => TInv /\ EInv /\ OnceInv
  BY InitTInv, InitE, InitOnce
<1>2. TInv /\ EInv /\ OnceInv /\ [Next]_vars => (TInv /\ EInv /\ OnceInv)'
  BY TInvNext, EInvNext, OnceNext
<1> QED
  BY <1>1, <1>2, PTL DEF Spec

(* Refresh-and-retry executes no call twice, whatever is lost, late or     *)
(* overlapping: a call is repeated only after it was rejected, and then no *)
(* other request of it is left.                                            *)
THEOREM NoCallTwice == Spec => []ExecutedOnce
<1>1. TInv /\ OnceInv => ExecutedOnce
  BY IdTypes DEF OnceInv, Once, ExecutedOnce
<1> QED
  BY <1>1, AlwaysOnce, PTL

-----------------------------------------------------------------------------
(* Without failures a device holds the newest token of its sign-in. *)

Newest(k) == \A i \in DOMAIN token : token[i].chain = token[k].chain => i <= k

(* The token a device holds, or is about to be told of. *)
Owns(d, k) ==
  \/ \E r \in reply[d] : r.ref = k
  \/ k = dev[d].ref /\ \A r \in reply[d] : r.ref = 0

(* Every chain has one holder. *)
OneHolder ==
  \A d, e \in Device : \A j, k \in DOMAIN token :
    d # e /\ Owns(d, j) /\ Owns(e, k) => token[j].chain # token[k].chain

OneAnswer ==
  \A d \in Device : \A q, r \in reply[d] :
    q = r /\ (r.ref # 0 => r.code = "ok")

(* Nobody renews a token without waiting for the answer. *)
Attended ==
  late = {} /\ \A s \in Session : srv[s].msg.op = "refresh" => srv[s].msg.live

NewInv ==
  faults = 0 =>
    /\ OneAnswer /\ Attended /\ OneHolder
    /\ \A d \in Device : \A k \in DOMAIN token : Owns(d, k) => Newest(k)

(* Nothing is added to the tokens, and no device gets another one. *)
LEMMA SameHolders ==
  ASSUME NewInv, SameChains, faults = 0, Attended', OneAnswer',
         \A d \in Device, k \in DOMAIN token : Owns(d, k)' => Owns(d, k)
  PROVE  NewInv'
<1>1. OneHolder'
  BY DEF NewInv, OneHolder, SameChains
<1>2. \A d \in Device, k \in DOMAIN token' : Owns(d, k)' => Newest(k)'
  BY DEF NewInv, Newest, SameChains
<1> QED
  BY <1>1, <1>2 DEF NewInv

LEMMA TurnHolders ==
  ASSUME TInv, EInv, NewInv, NEW d \in Device, faults' = 0,
         SignIn(d) \/ StartCall(d) \/ Leave(d) \/ Receive(d)
  PROVE  NewInv'
<1>0. /\ UNCHANGED <<srv, late, token, faults>> /\ Others(d)
      /\ \A e \in Device \ {d} : reply'[e] = reply[e]
      /\ \/ reply'[d] = reply[d] /\ (SignsIn(d) \/ Starts(d) \/ Leaves(d))
         \/ reply'[d] = {} /\ \E r : Hears(d, r)
      /\ \A k \in DOMAIN token : k # 0
  BY Turns, TokenFacts
<1>1. Attended' /\ OneAnswer' /\ SameChains
  <2>1. Attended' /\ SameChains
    BY <1>0 DEF NewInv, Attended, SameChains
  <2>2. OneAnswer'
    BY <1>0 DEF NewInv, OneAnswer
  <2> QED
    BY <2>1, <2>2
<1>2. ASSUME NEW e \in Device, NEW k \in DOMAIN token, Owns(e, k)'
      PROVE  Owns(e, k)
  <2>1. CASE e # d
    BY <1>0, <1>2, <2>1 DEF Others, Owns
  <2>2. CASE e = d
    <3>1. CASE SignsIn(d) \/ Starts(d)
      <4>1. dev'[d].ref = dev[d].ref
        BY <3>1 DEF SignsIn, Starts
      <4>2. reply[d] = {}
        BY <3>1, Resting DEF SignsIn, Starts, Waiting, EInv
      <4>3. reply'[d] = {}
        BY <1>0, <4>2
      <4> QED
        BY <1>2, <2>2, <4>1, <4>2, <4>3 DEF Owns
    <3>2. CASE Leaves(d)
      <4>1. reply[d] = {}
        BY <3>2, Resting DEF Leaves, Waiting, EInv
      <4>2. reply'[d] = {} /\ dev'[d].ref = 0
        BY <1>0, <3>2, <4>1 DEF Leaves
      <4> QED
        BY <1>0, <1>2, <2>2, <4>2 DEF Owns
    <3>3. ASSUME NEW r, Hears(d, r), reply'[d] = {} PROVE Owns(d, k)
      <4>1. r \in reply[d] /\ k = dev'[d].ref /\ \A q \in reply[d] : q = r
        BY <1>0, <1>2, <2>2, <3>3 DEF Hears, Owns, NewInv, OneAnswer
      <4>2. CASE dev'[d].ref = r.ref
        BY <4>1, <4>2 DEF Owns
      <4>3. CASE dev'[d].ref # r.ref
        <5>1. /\ dev'[d].ref = dev[d].ref
              /\ dev[d].pc \in {"call", "retry"} \/ r.code # "ok"
          BY <3>3, <4>3 DEF Hears, Settles, Renews, Retries, Waiting
        <5>2. r.ref = 0
          BY <1>0, <4>1, <5>1 DEF NewInv, OneAnswer, EInv, Tidy
        <5> QED
          BY <4>1, <5>1, <5>2 DEF Owns
      <4> QED
        BY <4>2, <4>3
    <3> QED
      BY <1>0, <2>2, <3>1, <3>2, <3>3
  <2> QED
    BY <2>1, <2>2
<1> QED
  BY <1>0, <1>1, <1>2, SameHolders

(* A request is opened, or a handler goes on. *)
LEMMA OpenHolders ==
  ASSUME NewInv, Attended', UNCHANGED <<dev, reply, faults>>, SameChains,
         faults = 0
  PROVE  NewInv'
<1>1. \A d \in Device, k \in DOMAIN token : Owns(d, k)' => Owns(d, k)
  BY DEF Owns
<1>2. OneAnswer'
  BY DEF NewInv, OneAnswer
<1> QED
  BY <1>1, <1>2, SameHolders

LEMMA AnswerHolders ==
  ASSUME TInv, EInv, NewInv, faults' = 0, NEW s \in Session, HandlerStep(s),
         NEW c, Replies(s, Code(c)), SameChains
  PROVE  NewInv'
<1>0. /\ UNCHANGED <<dev, late, faults>> /\ srv'[s] = Free
      /\ \A t \in Session \ {s} : srv'[t] = srv[t]
      /\ reply \in [Device -> SUBSET Answer] /\ Code(c).ref = 0
      /\ \A k \in DOMAIN token : k # 0
  BY HandlerWorks, CodeRef, TokenFacts DEF Replies, TInv, HandlersOK
<1>1. ASSUME NEW d \in Device
      PROVE  \/ reply'[d] = reply[d]
             \/ reply[d] = {} /\ reply'[d] = {Code(c)}
  BY <1>0 DEF Replies, EInv, Tidy, Serves
<1>2. \A d \in Device, k \in DOMAIN token : Owns(d, k)' => Owns(d, k)
  BY <1>0, <1>1 DEF Owns
<1>3. OneAnswer'
  BY <1>0, <1>1 DEF NewInv, OneAnswer
<1>4. Attended'
  BY <1>0, FreeIdle DEF NewInv, Attended
<1> QED
  BY <1>0, <1>2, <1>3, <1>4, SameHolders

LEMMA GrantHolders ==
  ASSUME TInv, EInv, NewInv, faults' = 0, NEW s \in Session, HandlerStep(s),
         Grants(s)
  PROVE  NewInv'
<1>n. PICK n \in Nat : n = Len(token) + 1
  BY TokenFacts
<1>0. /\ UNCHANGED <<dev, late, faults>> /\ srv'[s] = Free
      /\ \A t \in Session \ {s} : srv'[t] = srv[t]
      /\ reply \in [Device -> SUBSET Answer] /\ Replies(s, Granted(n))
      /\ faults = 0
  <2>1. Replies(s, Granted(n))
    BY <1>n DEF Grants
  <2>2. srv'[s] = Free
    BY <2>1 DEF Replies
  <2> QED
    BY <2>1, <2>2, HandlerWorks DEF TInv, HandlersOK
<1>1. /\ DOMAIN token = 1 .. n - 1 /\ DOMAIN token' = 1 .. n
      /\ \A i \in DOMAIN token : /\ token'[i].chain = token[i].chain
                                 /\ token[i].chain \in Nat /\ token[i].chain < n
  BY <1>n, TokenFacts DEF Grants, Adds
<1>2. Granted(n).ref = n /\ Granted(n).code = "ok" /\ n # 0
  BY <1>n, TokenFacts DEF Granted
<1>3. \A e \in Device, k \in DOMAIN token' : Owns(e, k) => k \in DOMAIN token
  <2>1. /\ \A e \in Device : dev[e].ref < n /\ dev[e].ref \in Nat
        /\ \A e \in Device : \A r \in reply[e] : r.ref < n /\ r.ref \in Nat
    <3>1. /\ \A e \in Device : dev[e].ref <= Len(token) /\ dev[e] \in Held
          /\ \A e \in Device : \A r \in reply[e] : r.ref <= Len(token) /\ r \in Answer
      BY DEF TInv, ClientsOK, HandlersOK
    <3> QED
      BY <1>n, <3>1, TokenFacts DEF Held, Answer
  <2> QED
    BY <1>1, <2>1 DEF Owns
(* The device that is told holds n now. *)
<1>4. ASSUME NEW d \in Device, Serves(s, d)
      PROVE  /\ reply[d] = {} /\ reply'[d] = {Granted(n)}
             /\ srv[s].msg.op = "refresh" => srv[s].msg.tok = dev[d].ref
             /\ \A k \in DOMAIN token' : Owns(d, k)' => k = n
  <2>1. reply[d] = {} /\ Asks(d, srv[s].msg)
    BY <1>4 DEF EInv, Tidy
  <2>2. reply'[d] = {Granted(n)}
    BY <1>0, <1>4 DEF Replies, Serves
  <2> QED
    BY <1>2, <2>1, <2>2 DEF Owns, Asks
<1>5. ASSUME NEW e \in Device, ~Serves(s, e)
      PROVE  /\ reply'[e] = reply[e]
             /\ \A k \in DOMAIN token' : Owns(e, k)' => Owns(e, k) /\ k \in DOMAIN token
  <2>1. reply'[e] = reply[e]
    BY <1>0, <1>5 DEF Replies, Serves
  <2> QED
    BY <1>0, <1>3, <2>1 DEF Owns
(* No other device owns a token of the chain of n. *)
<1>6. ASSUME NEW e \in Device, ~Serves(s, e), NEW k \in DOMAIN token', Owns(e, k)'
      PROVE  token'[k].chain # token'[n].chain
  <2>1. Owns(e, k) /\ k \in DOMAIN token
    BY <1>5, <1>6
  <2>2. CASE srv[s].msg.op \in {"login", "register"}
    BY <1>n, <1>1, <2>1, <2>2 DEF Grants, Adds
  <2>3. CASE srv[s].msg.op = "refresh"
    <3>1. srv[s].msg.live
      BY <1>0, <2>3 DEF NewInv, Attended
    <3>2. PICK d \in Device : Serves(s, d)
      BY <3>1 DEF EInv, Serves
    <3>3. PICK j : j = srv[s].msg.tok
      OBVIOUS
    <3>4. j \in DOMAIN token /\ token'[n].chain = token[j].chain
      BY <1>n, <2>3, <3>3, TokenFacts DEF Proper, Grants, Adds
    <3>5. Owns(d, j)
      BY <1>4, <2>3, <3>2, <3>3 DEF Owns
    <3>6. token[k].chain # token[j].chain
      BY <1>0, <1>6, <2>1, <3>2, <3>4, <3>5 DEF NewInv, OneHolder
    <3> QED
      BY <1>1, <2>1, <3>4, <3>6
  <2> QED
    BY <2>2, <2>3 DEF Grants
<1>7. OneHolder'
  <2> SUFFICES ASSUME NEW d \in Device, NEW e \in Device,
                      NEW j \in DOMAIN token', NEW k \in DOMAIN token',
                      d # e, Owns(d, j)', Owns(e, k)'
               PROVE  token'[j].chain # token'[k].chain
    BY DEF OneHolder
  <2>1. CASE Serves(s, d)
    <3>1. ~Serves(s, e) /\ j = n
      BY <1>4, <2>1 DEF Serves
    <3> QED
      BY <1>6, <3>1
  <2>2. CASE Serves(s, e)
    <3>1. ~Serves(s, d) /\ k = n
      BY <1>4, <2>2 DEF Serves
    <3> QED
      BY <1>6, <3>1
  <2>3. CASE ~Serves(s, d) /\ ~Serves(s, e)
    <3>1. Owns(d, j) /\ Owns(e, k) /\ j \in DOMAIN token /\ k \in DOMAIN token
      BY <1>5, <2>3
    <3> QED
      BY <1>0, <1>1, <3>1 DEF NewInv, OneHolder
  <2> QED
    BY <2>1, <2>2, <2>3
<1>8. ASSUME NEW d \in Device, NEW k \in DOMAIN token', Owns(d, k)'
      PROVE  Newest(k)'
  <2>1. CASE Serves(s, d)
    <3>1. k = n
      BY <1>4, <1>8, <2>1
    <3> QED
      BY <1>1, <3>1 DEF Newest
  <2>2. CASE ~Serves(s, d)
    <3>1. Owns(d, k) /\ k \in DOMAIN token /\ token'[k].chain # token'[n].chain
      BY <1>5, <1>6, <1>8, <2>2
    <3>2. Newest(k)
      BY <1>0, <3>1 DEF NewInv
    <3>3. \A i \in DOMAIN token' : i = n \/ i \in DOMAIN token
      BY <1>1
    <3> QED
      BY <1>1, <3>1, <3>2, <3>3 DEF Newest
  <2> QED
    BY <2>1, <2>2
<1>9. OneAnswer'
  <2> SUFFICES ASSUME NEW d \in Device
               PROVE  \A q, r \in reply'[d] : q = r /\ (r.ref # 0 => r.code = "ok")
    BY DEF OneAnswer
  <2>1. CASE Serves(s, d)
    BY <1>2, <1>4, <2>1
  <2>2. CASE ~Serves(s, d)
    BY <1>0, <1>5, <2>2 DEF NewInv, OneAnswer
  <2> QED
    BY <2>1, <2>2
<1>10. Attended'
  BY <1>0, FreeIdle DEF NewInv, Attended
<1> QED
  BY <1>7, <1>8, <1>9, <1>10 DEF NewInv

LEMMA NewNext == TInv /\ EInv /\ NewInv /\ [Next]_vars => NewInv'
<1> SUFFICES ASSUME TInv, EInv, NewInv, [Next]_vars, faults' = 0 PROVE NewInv'
  BY DEF NewInv
<1>0. faults \in Nat
  BY DEF TInv, BudgetOK
<1>1. CASE \E d \in Device : SignIn(d) \/ StartCall(d) \/ Leave(d) \/ Receive(d)
  BY <1>1, TurnHolders
<1>2. CASE (\E d \in Device : HangUp(d)) \/ ServerCrash
  <2>1. faults' = faults + 1
    BY <1>2 DEF HangUp, ServerCrash, Fault
  <2> QED
    BY <1>0, <2>1
<1>3. CASE \E s \in Session : (\E d \in Device : Serve(s, d)) \/ ServeLate(s) \/ Ask(s)
  <2>1. PICK s \in Session : (\E d \in Device : Serve(s, d)) \/ ServeLate(s) \/ Ask(s)
    BY <1>3
  <2>2. /\ UNCHANGED <<dev, reply, token, faults>> /\ faults = 0 /\ late' \subseteq late
    BY <2>1, ServeOpens, LateOpens, AskOpens
  <2>3. late = {} /\ \A t \in Session : srv[t].msg.op = "refresh" => srv[t].msg.live
    BY <2>2 DEF NewInv, Attended
  <2>4. \E q : Opens(s, q) /\ (q.op = "refresh" => q.live)
    <3>1. CASE \E d \in Device : Serve(s, d)
      BY <3>1, ServeOpens DEF EInv, Tidy, Asks
    <3>2. CASE ServeLate(s)
      BY <2>3, <3>2, LateOpens
    <3>3. CASE Ask(s)
      BY <3>3, AskOpens
    <3> QED
      BY <2>1, <3>1, <3>2, <3>3
  <2>5. Attended'
    BY <2>2, <2>3, <2>4 DEF Attended, Opens
  <2> QED
    BY <2>2, <2>5, TokensSame, OpenHolders
<1>4. CASE \E s \in Session : HandlerStep(s)
  <2>1. PICK s \in Session : HandlerStep(s)
    BY <1>4
  <2>2. /\ UNCHANGED <<dev, late, faults>> /\ faults = 0
        /\ \A t \in Session \ {s} : srv'[t] = srv[t]
    BY <2>1, HandlerWorks
  <2>3. CASE GoesOnWith(s)
    <3>1. Attended'
      BY <2>2, <2>3 DEF NewInv, Attended, GoesOnWith
    <3> QED
      BY <2>2, <2>3, <3>1, OpenHolders DEF GoesOnWith
  <2>4. CASE Refuses(s) \/ Executes(s)
    BY <2>1, <2>4, AnswerHolders DEF Refuses, Executes
  <2>5. CASE Grants(s)
    BY <2>1, <2>5, GrantHolders
  <2> QED
    BY <2>1, <2>3, <2>4, <2>5, HandlerWorks
<1>5. CASE Tick \/ UNCHANGED vars
  <2>1. UNCHANGED <<dev, reply, token, faults, late, srv>> /\ faults = 0
    BY <1>5 DEF Tick, vars, client, tables, budget
  <2>2. Attended'
    BY <2>1 DEF NewInv, Attended
  <2> QED
    BY <2>1, <2>2, TokensSame, OpenHolders
<1> QED
  BY <1>1, <1>2, <1>3, <1>4, <1>5 DEF Next

LEMMA InitNew == Init => NewInv
<1> SUFFICES ASSUME Init PROVE NewInv
  OBVIOUS
<1>1. /\ \A s \in Session : srv[s] = Free
      /\ \A d \in Device : reply[d] = {}
      /\ late = {} /\ DOMAIN token = {}
  BY DEF Init
<1> QED
  BY <1>1, FreeIdle DEF NewInv, OneAnswer, Attended, OneHolder

LEMMA AlwaysNew == Spec => [](TInv /\ EInv /\ NewInv)
<1>1. Init => TInv /\ EInv /\ NewInv
  BY InitTInv, InitE, InitNew
<1>2. TInv /\ EInv /\ NewInv /\ [Next]_vars => (TInv /\ EInv /\ NewInv)'
  BY TInvNext, EInvNext, NewNext
<1> QED
  BY <1>1, <1>2, PTL DEF Spec

(* Rotation never strands a device with a spent token, when nobody hangs   *)
(* up and the server lives: whoever rotates a chain is its one holder, and *)
(* it hears of the new token.                                              *)
THEOREM NeverStranded == Spec => []HoldsNewest
<1>1. ASSUME TInv, EInv, NewInv PROVE HoldsNewest
  <2> SUFFICES ASSUME faults = 0, NEW d \in Device,
                      dev[d].pc \in {"idle", "call", "retry"}, dev[d].ref # 0
               PROVE  \A i \in DOMAIN token :
                        token[i].chain = token[dev[d].ref].chain => i <= dev[d].ref
    BY DEF HoldsNewest
  <2>0. Tidy(d)
    BY <1>1 DEF EInv
  <2>1. \A r \in reply[d] : r.ref = 0
    <3>1. CASE dev[d].pc = "idle"
      BY <2>0, <3>1 DEF Tidy, Waiting
    <3>2. CASE dev[d].pc \in {"call", "retry"}
      BY <2>0, <3>2 DEF Tidy
    <3> QED
      BY <3>1, <3>2
  <2>2. dev[d].ref \in DOMAIN token
    <3>1. dev[d].ref \in Nat /\ dev[d].ref <= Len(token)
      BY <1>1 DEF TInv, ClientsOK, Held
    <3> QED
      BY <1>1, <3>1, TokenFacts
  <2>3. PICK k \in DOMAIN token : k = dev[d].ref
    BY <2>2
  <2>4. Owns(d, k)
    BY <2>1, <2>3 DEF Owns
  <2>5. Newest(k)
    BY <1>1, <2>4 DEF NewInv
  <2> QED
    BY <2>3, <2>5 DEF Newest
<1> QED
  BY <1>1, AlwaysNew, PTL

==============================================================================
