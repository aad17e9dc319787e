------------------------------ MODULE Accounts ------------------------------
(***************************************************************************)
(* Accounts, their tokens and the devices signed in to them: auth_routes,  *)
(* users and auth/service.py on the server, ApiBackend._req and its        *)
(* refresh-and-retry on the client.  A handler is cut at its reads and     *)
(* commits; the session factory has autoflush off, so what a handler       *)
(* assigns reaches the tables with its next commit.                        *)
(*                                                                         *)
(*   account[u]  password (counted up at each change; 0: no such user) and *)
(*               is_active                                                 *)
(*   token       rows of refresh_tokens; chain is the sign-in a token      *)
(*               descends from and under the password it was given for     *)
(*   reset       rows of password_reset_tokens; n counts the passwords     *)
(*               that were set with it                                     *)
(*   srv[s]      the request handled by session s and how far it is        *)
(*   dev[d]      what the device holds and waits for                       *)
(*   wire, late, reply   requests awaited, requests given up, answers      *)
(*   done[i]     how often call i was executed                             *)
(*   now         the clock; ops, faults bound the model                    *)
(*   overlapped  two handlers have been open at once at some time          *)
(*   crossed     users whose deactivation was cut short or ran beside the  *)
(*               granting of a token, see Noted and ServerCrash            *)
(*   torn        reset tokens whose two commits were cut apart or that     *)
(*               were confirmed twice at once, see Noted and ServerCrash   *)
(***************************************************************************)
EXTENDS LoginLimiter, FiniteSets

CONSTANTS
  User, Device,
  Owner,                             \* the account each device signs in to
  None,                              \* a caller that is none of the devices
  Session,                           \* handlers that can be open at once
  AccessTtl, RefreshTtl, ResetTtl,   \* lifetimes, in ticks
  MinLength, Classes,                \* the password policy
  Sample,                            \* shapes of the passwords people choose
  MaxTime, MaxOps, MaxFaults         \* bounds of the model

ASSUME AccountsAssumption ==
  /\ User # {} /\ Owner \in [Device -> User] /\ None \notin Device
  /\ Key = Device
  /\ {AccessTtl, RefreshTtl, ResetTtl} \subseteq Nat
  /\ {MaxTime, MaxOps, MaxFaults} \subseteq Nat

VARIABLES account, token, reset, srv, dev, wire, late, reply, done, now,
          ops, faults, overlapped, crossed, torn

tables == <<account, token, reset, done>>
client == <<dev, wire, late>>
budget == <<now, ops, faults>>
slips == <<crossed, torn>>
vars == <<limiterVars, tables, srv, client, reply, budget, overlapped, slips>>

Account == [pw : Nat, active : BOOLEAN]
Token == [user : User, chain : Nat, under : Nat, revoked : BOOLEAN, exp : Nat]
Reset == [user : User, used : BOOLEAN, n : Nat, exp : Nat]
Answer == [code : {"ok", "401", "error"}, exp : Nat, ref : Nat]
Held == [pc : {"out", "login", "idle", "call", "refresh", "retry"},
         exp : Nat, ref : Nat, id : Nat]

Op == {"none", "register", "login", "refresh", "call", "change", "reset",
       "confirm", "off", "on", "set"}
Message == [op : Op, from : Device \cup {None}, live : BOOLEAN, user : User,
            pw : Nat, tok : Nat, exp : Nat, id : Nat, new : SUBSET Sample]
Handler == [msg : Message, stamp : Nat, seen : SUBSET Nat,
            st : {"free", "start", "checked", "gathered", "applied"}]

Plain(op, d, u) ==
  [op |-> op, from |-> d, live |-> d # None, user |-> u, pw |-> 0, tok |-> 0,
   exp |-> 0, id |-> 0, new |-> {}]

Free == [msg |-> Plain("none", None, CHOOSE u \in User : TRUE),
         stamp |-> 0, seen |-> {}, st |-> "free"]

TypeOK ==
  /\ LimiterTypeOK
  /\ account \in [User -> Account]
  /\ token \in Seq(Token) /\ reset \in Seq(Reset)
  /\ srv \in [Session -> Handler]
  /\ dev \in [Device -> Held]
  /\ wire \in [Device -> SUBSET Message] /\ late \in SUBSET Message
  /\ reply \in [Device -> SUBSET Answer]
  /\ done \in [1 .. MaxOps -> Nat]
  /\ now \in Nat /\ ops \in Nat /\ faults \in Nat /\ overlapped \in BOOLEAN
  /\ crossed \subseteq User /\ torn \subseteq Nat

Init ==
  /\ Empty
  /\ account \in [User -> {[pw |-> 0, active |-> FALSE],
                           [pw |-> 1, active |-> TRUE]}]
  /\ token = << >> /\ reset = << >>
  /\ srv = [s \in Session |-> Free]
  /\ dev = [d \in Device |-> [pc |-> "out", exp |-> 0, ref |-> 0, id |-> 0]]
  /\ wire = [d \in Device |-> {}] /\ late = {}
  /\ reply = [d \in Device |-> {}]
  /\ done = [i \in 1 .. MaxOps |-> 0]
  /\ now = 0 /\ ops = 0 /\ faults = 0 /\ overlapped = FALSE
  /\ crossed = {} /\ torn = {}

-----------------------------------------------------------------------------
(* Handlers. *)

At(s, op, st) == srv[s].msg.op = op /\ srv[s].st = st

(* A worker thread takes a request. *)
Open(s, q) ==
  /\ srv[s] = Free
  /\ srv' = [srv EXCEPT ![s] =
               [msg |-> q, stamp |-> IF q.op = "login" THEN now ELSE 0,
                seen |-> {}, st |-> "start"]]
  /\ overlapped' = (overlapped \/ \E t \in Session : srv[t] # Free)

Move(s, st) ==
  /\ srv' = [srv EXCEPT ![s].st = st, ![s].stamp = 0, ![s].seen = {}]
  /\ UNCHANGED reply

(* The handler returns or raises; r goes to the device that still waits. *)
Close(s, r) ==
  /\ srv' = [srv EXCEPT ![s] = Free]
  /\ reply' = IF ~srv[s].msg.live THEN reply
              ELSE [reply EXCEPT ![srv[s].msg.from] = {r}]

Code(c) == [code |-> c, exp |-> 0, ref |-> 0]
Granted(ref) == [code |-> "ok", exp |-> now + AccessTtl, ref |-> ref]

Issues(p) ==
  (IF p.len < MinLength THEN {"short"} ELSE {}) \cup (Classes \ p.has)

Strong(s) == \A p \in srv[s].msg.new : Issues(p) = {}

NewToken(u, chain, under) ==
  [user |-> u, chain |-> chain, under |-> under, revoked |-> FALSE,
   exp |-> now + RefreshTtl]

(* register: look for the address, commit the user, commit a token. *)
CheckEmail(s) ==
  /\ At(s, "register", "start")
  /\ IF account[srv[s].msg.user].pw = 0 /\ Strong(s)
     THEN Move(s, "checked") ELSE Close(s, Code("error"))
  /\ UNCHANGED <<limiterVars, tables>>

CreateUser(s) ==
  /\ At(s, "register", "checked")
  /\ LET u == srv[s].msg.user
     IN IF account[u].pw = 0
        THEN /\ account' = [account EXCEPT ![u] = [pw |-> 1, active |-> TRUE]]
             /\ Move(s, "applied")
        ELSE Close(s, Code("error")) /\ UNCHANGED account
  /\ UNCHANGED <<limiterVars, token, reset, done>>

(* login: the limiter, the password, a token. *)
Throttle(s) ==
  /\ At(s, "login", "start")
  /\ \/ Admit(srv[s].msg.from, srv[s].stamp) /\ Move(s, "checked")
     \/ TurnAway(srv[s].msg.from, srv[s].stamp) /\ Close(s, Code("error"))
  /\ UNCHANGED tables

(* Mutant of Knows: is_active is not looked at. *)
KnowsAnyway(u, pw) == account[u].pw # 0 /\ account[u].pw = pw

Knows(u, pw) ==
  account[u].pw # 0 /\ account[u].active /\ account[u].pw = pw

CheckPassword(s) ==
  /\ At(s, "login", "checked")
  /\ IF Knows(srv[s].msg.user, srv[s].msg.pw)
     THEN Move(s, "applied") ELSE Close(s, Code("401"))
  /\ UNCHANGED <<limiterVars, tables>>

IssueToken(s) ==
  /\ At(s, "login", "applied") \/ At(s, "register", "applied")
  /\ LET q == srv[s].msg
     IN token' = Append(token, NewToken(q.user, Len(token) + 1,
                                        IF q.op = "login" THEN q.pw ELSE 1))
  /\ Close(s, Granted(Len(token) + 1))
  /\ UNCHANGED <<limiterVars, account, reset, done>>

(* refresh: read the token, then revoke it and add its successor in one    *)
(* commit.                                                                 *)
ReadToken(s) ==
  /\ At(s, "refresh", "start")
  /\ LET rt == token[srv[s].msg.tok]
     IN IF ~rt.revoked /\ rt.exp > now
        THEN Move(s, "checked") ELSE Close(s, Code("401"))
  /\ UNCHANGED <<limiterVars, tables>>

(* Mutant of Rotated: the old token stays valid. *)
Kept(rt) == rt

(* Mutant of Rotated: the old token is taken from its user. *)
RotatedAway(rt) == [rt EXCEPT !.revoked = TRUE, !.user = None]

Rotated(rt) == [rt EXCEPT !.revoked = TRUE]

Rotate(s) ==
  /\ At(s, "refresh", "checked")
  /\ LET k == srv[s].msg.tok
         rt == token[k]
     IN token' = Append([token EXCEPT ![k] = Rotated(rt)],
                        NewToken(rt.user, rt.chain, rt.under))
  /\ Close(s, Granted(Len(token) + 1))
  /\ UNCHANGED <<limiterVars, account, reset, done>>

(* Any other endpoint, behind get_current_user. *)
Execute(s) ==
  /\ At(s, "call", "start")
  /\ LET q == srv[s].msg
     IN IF q.exp >= now /\ account[q.user].active
        THEN /\ done' = [done EXCEPT ![q.id] = @ + 1]
             /\ Close(s, Code("ok"))
        ELSE Close(s, Code("401")) /\ UNCHANGED done
  /\ UNCHANGED <<limiterVars, account, token, reset>>

(* change_password, admin_set_password, confirm_password_reset: who may. *)
CheckOldPassword(s) ==
  /\ At(s, "change", "start")
  /\ IF Knows(srv[s].msg.user, srv[s].msg.pw)
     THEN Move(s, "checked") ELSE Close(s, Code("401"))
  /\ UNCHANGED <<limiterVars, tables>>

FindUser(s) ==
  /\ At(s, "set", "start")
  /\ IF account[srv[s].msg.user].pw # 0
     THEN Move(s, "checked") ELSE Close(s, Code("error"))
  /\ UNCHANGED <<limiterVars, tables>>

(* Mutant of Redeemable: used_at is not looked at. *)
RedeemableAgain(pr) == pr.exp > now /\ account[pr.user].active

Redeemable(pr) == ~pr.used /\ pr.exp > now /\ account[pr.user].active

ReadReset(s) ==
  /\ At(s, "confirm", "start")
  /\ IF Redeemable(reset[srv[s].msg.tok])
     THEN Move(s, "checked") ELSE Close(s, Code("error"))
  /\ UNCHANGED <<limiterVars, tables>>

Active(u) == {i \in DOMAIN token : token[i].user = u /\ ~token[i].revoked}

(* _apply_new_password and revoke_user_refresh_tokens: the policy, the     *)
(* list of active tokens, and one commit of the password and of their      *)
(* revocation.                                                             *)
Gather(s) ==
  /\ srv[s].st = "checked"
  /\ srv[s].msg.op \in {"change", "set", "confirm", "off"}
  /\ IF Strong(s)
     THEN /\ srv' = [srv EXCEPT ![s].st = "gathered",
                                ![s].seen = Active(srv[s].msg.user)]
          /\ UNCHANGED reply
     ELSE Close(s, Code("error"))
  /\ UNCHANGED <<limiterVars, tables>>

(* Mutant of Revoke: nothing is revoked. *)
RevokeNothing(s) == UNCHANGED token

Revoke(s) ==
  token' = [i \in DOMAIN token |->
              [token[i] EXCEPT !.revoked = @ \/ i \in srv[s].seen]]

ApplyPassword(s) ==
  /\ srv[s].st = "gathered" /\ srv[s].msg.op # "off"
  /\ Revoke(s)
  /\ account' = [account EXCEPT ![srv[s].msg.user].pw = @ + 1]
  /\ IF srv[s].msg.op = "confirm"
     THEN /\ reset' = [reset EXCEPT ![srv[s].msg.tok].n = @ + 1]
          /\ Move(s, "applied")
     ELSE Close(s, Code("ok")) /\ UNCHANGED reset
  /\ UNCHANGED <<limiterVars, done>>

MarkUsed(s) ==
  /\ At(s, "confirm", "applied")
  /\ reset' = [reset EXCEPT ![srv[s].msg.tok].used = TRUE]
  /\ Close(s, Code("ok"))
  /\ UNCHANGED <<limiterVars, account, token, done>>

(* request_password_reset. *)
RequestReset(s) ==
  /\ At(s, "reset", "start")
  /\ LET u == srv[s].msg.user
     IN reset' = IF account[u].active
                 THEN Append(reset, [user |-> u, used |-> FALSE, n |-> 0,
                                     exp |-> now + ResetTtl])
                 ELSE reset
  /\ Close(s, Code("ok"))
  /\ UNCHANGED <<limiterVars, account, token, done>>

(* admin_activate_user, admin_deactivate_user; the tokens of a deactivated *)
(* account are revoked in a second commit.                                 *)
SetActive(s) ==
  /\ At(s, "on", "start") \/ At(s, "off", "start")
  /\ LET u == srv[s].msg.user
     IN IF account[u].pw # 0
        THEN /\ account' = [account EXCEPT ![u].active = srv[s].msg.op = "on"]
             /\ IF srv[s].msg.op = "off" THEN Move(s, "checked")
                ELSE Close(s, Code("ok"))
        ELSE Close(s, Code("error")) /\ UNCHANGED account
  /\ UNCHANGED <<limiterVars, token, reset, done>>

RevokeAll(s) ==
  /\ At(s, "off", "gathered")
  /\ Revoke(s)
  /\ Close(s, Code("ok"))
  /\ UNCHANGED <<limiterVars, account, reset, done>>

(* Handler s of a login, registration or refresh will give u a token.      *)
Granting(s, u) ==
  \/ At(s, "login", "applied") /\ srv[s].msg.user = u
  \/ At(s, "register", "applied") /\ srv[s].msg.user = u
  \/ At(s, "refresh", "checked") /\ token[srv[s].msg.tok].user = u

(* Handler s has committed the deactivation of u, not yet the revocation.  *)
Deactivates(s, u) ==
  /\ srv[s].msg.op = "off" /\ srv[s].msg.user = u
  /\ srv[s].st \in {"checked", "gathered"}

(* A token is being granted that the list of active tokens came too early  *)
(* for.                                                                    *)
Crosses(u) ==
  \E s, t \in Session :
    Deactivates(s, u) /\ srv[s].st = "gathered" /\ Granting(t, u)

(* Handler s has found reset token i unused.                               *)
Redeems(s, i) ==
  /\ srv[s].msg.op = "confirm" /\ srv[s].msg.tok = i
  /\ srv[s].st \in {"checked", "gathered", "applied"}

Noted ==
  /\ crossed' = crossed \cup {u \in User : Crosses(u)'}
  /\ torn' = torn \cup {i \in DOMAIN reset' :
                         \E s, t \in Session :
                           s # t /\ Redeems(s, i)' /\ Redeems(t, i)'}

HandlerStep(s) ==
  /\ \/ CheckEmail(s) \/ CreateUser(s)
     \/ Throttle(s) \/ CheckPassword(s) \/ IssueToken(s)
     \/ ReadToken(s) \/ Rotate(s)
     \/ Execute(s)
     \/ CheckOldPassword(s) \/ FindUser(s) \/ ReadReset(s)
     \/ Gather(s) \/ ApplyPassword(s) \/ MarkUsed(s)
     \/ RequestReset(s) \/ SetActive(s) \/ RevokeAll(s)
  /\ Noted
  /\ UNCHANGED <<client, budget, overlapped>>

-----------------------------------------------------------------------------
(* The client: one blocking call at a time. *)

Waiting == {"login", "call", "refresh", "retry"}

Send(d, q) == wire' = [wire EXCEPT ![d] = {q}]

CallOf(d, h) == [Plain("call", d, Owner[d]) EXCEPT !.exp = h.exp, !.id = h.id]
RefreshOf(d, h) == [Plain("refresh", d, Owner[d]) EXCEPT !.tok = h.ref]

Operate == ops < MaxOps /\ ops' = ops + 1 /\ UNCHANGED <<now, faults>>

(* ApiBackend.__init__ signs in, with the right password or a wrong one. *)
SignIn(d) ==
  /\ dev[d].pc = "out"
  /\ Operate
  /\ \E pw \in {0, account[Owner[d]].pw} :
       Send(d, [Plain("login", d, Owner[d]) EXCEPT !.pw = pw])
  /\ dev' = [dev EXCEPT ![d].pc = "login"]
  /\ UNCHANGED <<limiterVars, tables, srv, late, reply, overlapped, slips>>

StartCall(d) ==
  /\ dev[d].pc = "idle"
  /\ Operate
  /\ LET h == [dev[d] EXCEPT !.pc = "call", !.id = ops + 1]
     IN dev' = [dev EXCEPT ![d] = h] /\ Send(d, CallOf(d, h))
  /\ UNCHANGED <<limiterVars, tables, srv, late, reply, overlapped, slips>>

(* The program is closed; tokens are only in its memory. *)
Leave(d) ==
  /\ dev[d].pc = "idle"
  /\ dev' = [dev EXCEPT ![d] = [pc |-> "out", exp |-> 0, ref |-> 0, id |-> 0]]
  /\ UNCHANGED <<limiterVars, tables, srv, wire, late, reply, budget,
                 overlapped, slips>>

Become(d, h, msgs) ==
  dev' = [dev EXCEPT ![d] = h] /\ wire' = [wire EXCEPT ![d] = msgs]

(* The access token and the refresh token of an answer are kept. *)
Keep(d, r) == [dev[d] EXCEPT !.exp = r.exp, !.ref = r.ref]

(* Mutant of KeepRefreshed: only the access token is kept. *)
KeepAccess(d, r) == [dev[d] EXCEPT !.exp = r.exp]

KeepRefreshed(d, r) == Keep(d, r)

(* Mutant of Renew: any failure is worth a refresh and a retry. *)
RenewAlways(d, r) == r.code # "ok" /\ dev[d].ref # 0

(* _req: a 401 is worth a refresh and a retry. *)
Renew(d, r) == r.code = "401" /\ dev[d].ref # 0

(* Mutant of GiveUpRetry: the retry is sent again as long as it gets 401. *)
RetryAgain(d, r) ==
  IF r.code = "401" THEN Become(d, dev[d], {CallOf(d, dev[d])})
  ELSE Become(d, [dev[d] EXCEPT !.pc = "idle"], {})

(* The retry's outcome is final. *)
GiveUpRetry(d, r) == Become(d, [dev[d] EXCEPT !.pc = "idle"], {})

React(d, r) ==
  \/ /\ dev[d].pc = "login"
     /\ IF r.code = "ok" THEN Become(d, [Keep(d, r) EXCEPT !.pc = "idle"], {})
        ELSE Become(d, [dev[d] EXCEPT !.pc = "out"], {})
  \/ /\ dev[d].pc = "call"
     /\ IF Renew(d, r)
        THEN Become(d, [dev[d] EXCEPT !.pc = "refresh"],
                    {RefreshOf(d, dev[d])})
        ELSE Become(d, [dev[d] EXCEPT !.pc = "idle"], {})
  \/ /\ dev[d].pc = "refresh"
     /\ IF r.code = "ok"
        THEN LET h == [KeepRefreshed(d, r) EXCEPT !.pc = "retry"]
             IN Become(d, h, {CallOf(d, h)})
        ELSE Become(d, [dev[d] EXCEPT !.pc = "idle"], {})
  \/ /\ dev[d].pc = "retry"
     /\ GiveUpRetry(d, r)

Receive(d) ==
  /\ \E r \in reply[d] : React(d, r)
  /\ reply' = [reply EXCEPT ![d] = {}]
  /\ UNCHANGED <<limiterVars, tables, srv, late, budget, overlapped, slips>>

-----------------------------------------------------------------------------
(* The rest of the world. *)

Serve(s, d) ==
  /\ \E q \in wire[d] : Open(s, q)
  /\ wire' = [wire EXCEPT ![d] = {}]
  /\ UNCHANGED <<limiterVars, tables, dev, late, reply, budget, slips>>

ServeLate(s) ==
  /\ \E q \in late : Open(s, q) /\ late' = late \ {q}
  /\ UNCHANGED <<limiterVars, tables, dev, wire, reply, budget, slips>>

(* Requests the desktop client has no screen for: registration, password   *)
(* change and reset, and an administrator's account management.            *)
Ask(s) ==
  /\ Operate
  /\ \E u \in User, p \in Sample :
       LET q(op) == Plain(op, None, u)
       IN \/ Open(s, [q("register") EXCEPT !.new = {p}])
          \/ \E pw \in {0, account[u].pw} :
               Open(s, [q("change") EXCEPT !.pw = pw, !.new = {p}])
          \/ Open(s, [q("set") EXCEPT !.new = {p}])
          \/ \E i \in DOMAIN reset :
               /\ reset[i].user = u
               /\ Open(s, [q("confirm") EXCEPT !.tok = i, !.new = {p}])
          \/ \E op \in {"reset", "on", "off"} : Open(s, q(op))
  /\ UNCHANGED <<limiterVars, tables, client, reply, slips>>

Tick ==
  /\ now < MaxTime
  /\ now' = now + 1
  /\ UNCHANGED <<limiterVars, tables, srv, client, reply, ops, faults,
                 overlapped, slips>>

Fault == faults < MaxFaults /\ faults' = faults + 1 /\ UNCHANGED <<now, ops>>

(* Device d gives up waiting: its request is lost or served later, its     *)
(* handler goes on alone, its answer is lost.                              *)
HangUp(d) ==
  /\ dev[d].pc \in Waiting
  /\ Fault
  /\ React(d, Code("error"))
  /\ \/ late' = late
     \/ late' = late \cup {[q EXCEPT !.live = FALSE] : q \in wire[d]}
  /\ srv' = [s \in Session |-> IF srv[s].msg.from = d
                               THEN [srv[s] EXCEPT !.msg.live = FALSE]
                               ELSE srv[s]]
  /\ reply' = [reply EXCEPT ![d] = {}]
  /\ UNCHANGED <<limiterVars, tables, overlapped, slips>>

(* The server process ends: open transactions roll back, connections drop  *)
(* and the limiter forgets.                                                *)
ServerCrash ==
  /\ Fault
  /\ srv' = [s \in Session |-> Free]
  /\ reply' = [d \in Device |->
                 IF \E s \in Session : srv[s].msg.from = d /\ srv[s].msg.live
                 THEN {Code("error")} ELSE reply[d]]
  /\ Clear
  /\ crossed' = crossed \cup {u \in User : \E s \in Session : Deactivates(s, u)}
  /\ torn' = torn \cup {i \in DOMAIN reset : \E s \in Session :
                                              Redeems(s, i) /\ srv[s].st = "applied"}
  /\ UNCHANGED <<tables, client, overlapped>>

Next ==
  \/ \E d \in Device :
       SignIn(d) \/ StartCall(d) \/ Leave(d) \/ Receive(d) \/ HangUp(d)
  \/ \E s \in Session :
       \/ \E d \in Device : Serve(s, d)
       \/ ServeLate(s) \/ Ask(s) \/ HandlerStep(s)
  \/ Tick
  \/ ServerCrash

Spec == Init /\ [][Next]_vars

(* A request that arrives is served, a handler that has begun ends, and    *)
(* the client reads its answer.                                            *)
Fairness ==
  /\ \A d \in Device : WF_vars(Receive(d))
  /\ \A s \in Session :
       /\ \A d \in Device : WF_vars(Serve(s, d))
       /\ WF_vars(HandlerStep(s))

FairSpec == Spec /\ Fairness

-----------------------------------------------------------------------------
(* Safety. *)

(* rate_limit.py: as long as requests are handled one at a time, no more   *)
(* than Limit attempts of one key are admitted within any Window, wherever *)
(* the window begins.                                                      *)
WindowBound ==
  ~overlapped =>
    \A k \in Key : \A i \in DOMAIN hits[k] :
      i + Limit \in DOMAIN hits[k] => hits[k][i + Limit] - hits[k][i] > Window

(* rotate_refresh_token, "one-time use": of the tokens that descend from   *)
(* one sign-in at most one is valid, whatever was lost or crashed, unless  *)
(* two requests overlapped.                                                *)
OneLiveHeir ==
  ~overlapped =>
    \A i, j \in DOMAIN token :
      (token[i].chain = token[j].chain /\ ~token[i].revoked
         /\ ~token[j].revoked) => i = j

(* A new password ends every session that was opened with an older one:    *)
(* a token that is valid was given for the password of today, also when a  *)
(* handler died at any of its commits.                                     *)
LiveUnderPassword ==
  ~overlapped =>
    \A i \in DOMAIN token :
      ~token[i].revoked => token[i].under = account[token[i].user].pw

(* admin_deactivate_user ends all sessions of an account, and none begins  *)
(* before it is activated again, whatever crashes, gets lost or overlaps,  *)
(* with the two exceptions the code has: a crash between the two commits   *)
(* of this deactivation, and a token that was being granted when it listed *)
(* the account's tokens.                                                   *)
DeactivatedHoldsNone ==
  \A u \in User \ crossed :
    ~account[u].active /\ (\A s \in Session : ~Deactivates(s, u)) =>
      Active(u) = {}

(* "One-time password reset tokens": a token sets a second password only   *)
(* if the server died between the two commits of the first, or two         *)
(* requests had both found it unused; no other crash, failure or overlap   *)
(* makes it usable again.                                                  *)
ResetOnce == \A i \in DOMAIN reset \ torn : reset[i].n <= 1

(* Without failures a device that is signed in and renews nothing holds    *)
(* the newest refresh token of its sign-in, however many handlers overlap: *)
(* rotation never strands it with a spent one.                             *)
HoldsNewest ==
  faults = 0 =>
    \A d \in Device : dev[d].pc \in {"idle", "call", "retry"} /\ dev[d].ref # 0 =>
      \A i \in DOMAIN token :
        token[i].chain = token[dev[d].ref].chain => i <= dev[d].ref

(* Refresh-and-retry never executes a call twice, with answers lost,       *)
(* requests late and handlers overlapping.                                 *)
ExecutedOnce == \A i \in DOMAIN done : done[i] <= 1

(* Every call of the client returns: a rejected token leads to one refresh *)
(* and one retry, not to a circle of them.                                 *)
CallsReturn ==
  \A d \in Device : dev[d].pc \in Waiting ~> dev[d].pc \in {"out", "idle"}
=============================================================================
