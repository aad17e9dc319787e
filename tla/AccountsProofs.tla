--------------------------- MODULE AccountsProofs ---------------------------
(***************************************************************************)
(* Theorems about Accounts for every set of users, devices and sessions,   *)
(* every limit, window and lifetime, and every number of calls, failures   *)
(* and ticks.                                                              *)
(***************************************************************************)
EXTENDS Accounts, TLAPS

-----------------------------------------------------------------------------
(* Types, and references into the tables. *)

(* The rows a message names are there; no password comes with a request to *)
(* deactivate an account.                                                  *)
Proper(m) ==
  /\ m \in Message
  /\ m.op = "off" => m.new = {}
  /\ m.op = "login" => m.from \in Device
  /\ m.op = "refresh" => m.tok \in DOMAIN token
  /\ m.op = "confirm" => m.tok \in DOMAIN reset

(* A token descends from an older one or from itself and was not given for *)
(* a missing password.                                                     *)
TablesOK ==
  /\ account \in [User -> Account]
  /\ token \in Seq(Token) /\ reset \in Seq(Reset)
  /\ \A i \in DOMAIN token : token[i].chain <= i /\ token[i].under # 0
  /\ done \in [1 .. MaxOps -> Nat]

(* A sign-in that has succeeded did so with a password. *)
Vouched(s) ==
  srv[s].st = "applied" /\ srv[s].msg.op = "login" => srv[s].msg.pw # 0

HandlersOK ==
  /\ srv \in [Session -> Handler]
  /\ \A s \in Session : Proper(srv[s].msg) /\ Vouched(s)
  /\ reply \in [Device -> SUBSET Answer]
  /\ \A d \in Device : \A r \in reply[d] : r.ref <= Len(token)

ClientsOK ==
  /\ dev \in [Device -> Held]
  /\ \A d \in Device : dev[d].ref <= Len(token)
  /\ wire \in [Device -> SUBSET Message] /\ late \in SUBSET Message
  /\ \A d \in Device : \A m \in wire[d] : Proper(m)
  /\ \A m \in late : Proper(m)

BudgetOK ==
  now \in Nat /\ ops \in Nat /\ faults \in Nat /\ overlapped \in BOOLEAN

TInv == LimiterTypeOK /\ TablesOK /\ HandlersOK /\ ClientsOK /\ BudgetOK

(* Tokens are never deleted. *)
Grows ==
  /\ Len(token) <= Len(token')
  /\ DOMAIN token \subseteq DOMAIN token' /\ DOMAIN reset \subseteq DOMAIN reset'

LEMMA ProperStays ==
  ASSUME NEW m, Proper(m), Grows
  PROVE  Proper(m)'
  BY DEF Proper, Grows

LEMMA ClientsStay ==
  ASSUME TInv, Grows, Len(token') \in Nat, UNCHANGED client
  PROVE  ClientsOK'
<1>1. /\ UNCHANGED <<dev, wire, late>> /\ ClientsOK /\ Len(token) \in Nat
  BY DEF TInv, TablesOK, client
<1>2. \A d \in Device : dev[d].ref \in Nat
  BY <1>1 DEF ClientsOK, Held
<1>3. \A d \in Device : dev'[d].ref <= Len(token')
  BY <1>1, <1>2 DEF ClientsOK, Grows
<1>4. \A d \in Device : \A m \in wire'[d] : Proper(m)'
  BY <1>1, ProperStays DEF ClientsOK
<1>5. \A m \in late' : Proper(m)'
  BY <1>1, ProperStays DEF ClientsOK
<1> QED
  BY <1>1, <1>3, <1>4, <1>5 DEF ClientsOK

LEMMA PlainType ==
  ASSUME NEW op \in Op, NEW d \in Device \cup {None}, NEW u \in User
  PROVE  /\ Plain(op, d, u) \in Message
         /\ Plain(op, d, u).op = op /\ Plain(op, d, u).from = d
         /\ Plain(op, d, u).user = u
<1>1. (d # None) \in BOOLEAN
  OBVIOUS
<1> QED
  BY <1>1 DEF Plain, Message

LEMMA FreeType == Free \in Handler /\ Proper(Free.msg) /\ Free.st = "free"
<1>1. (CHOOSE u \in User : TRUE) \in User
  BY AccountsAssumption
<1>2. Plain("none", None, CHOOSE u \in User : TRUE) \in Message
      /\ Plain("none", None, CHOOSE u \in User : TRUE).op = "none"
  BY <1>1, PlainType DEF Op
<1> DEFINE m == Plain("none", None, CHOOSE u \in User : TRUE)
<1>3. Free = [msg |-> m, stamp |-> 0, seen |-> {}, st |-> "free"]
  BY DEF Free
<1> HIDE DEF m
<1> QED
  BY <1>2, <1>3 DEF Handler, Proper, m

LEMMA CodeType ==
  ASSUME NEW c \in {"ok", "401", "error"}
  PROVE  Code(c) \in Answer /\ Code(c).ref = 0
  BY DEF Code, Answer

LEMMA GrantedType ==
  ASSUME TInv, NEW n \in Nat
  PROVE  Granted(n) \in Answer /\ Granted(n).ref = n
<1>1. now + AccessTtl \in Nat
  BY AccountsAssumption DEF TInv, BudgetOK
<1> QED
  BY <1>1 DEF Granted, Answer

-----------------------------------------------------------------------------
(* What happens to a handler. *)

LEMMA Opened ==
  ASSUME TInv, NEW s \in Session, NEW q, Proper(q), Open(s, q),
         UNCHANGED <<token, reset, reply>>
  PROVE  /\ HandlersOK' /\ overlapped' \in BOOLEAN
         /\ srv'[s] = [msg |-> q, stamp |-> IF q.op = "login" THEN now ELSE 0,
                       seen |-> {}, st |-> "start"]
         /\ \A t \in Session \ {s} : srv'[t] = srv[t]
<1> DEFINE n == IF q.op = "login" THEN now ELSE 0
           h == [msg |-> q, stamp |-> n, seen |-> {}, st |-> "start"]
<1>0. HandlersOK /\ now \in Nat /\ overlapped \in BOOLEAN /\ q \in Message
  BY DEF TInv, BudgetOK, Proper
<1>1. n \in Nat
  BY <1>0
<1>2. srv' = [srv EXCEPT ![s] = h]
  BY DEF Open
<1> HIDE DEF n
<1>3. h \in Handler /\ h.msg = q
  BY <1>0, <1>1 DEF Handler
<1> HIDE DEF h
<1>4. /\ srv' \in [Session -> Handler] /\ srv'[s] = h
      /\ \A t \in Session \ {s} : srv'[t] = srv[t]
  BY <1>0, <1>2, <1>3 DEF HandlersOK
<1>5. Proper(srv[s].msg)' /\ Vouched(s)'
  <2>1. srv'[s].st = "start"
    BY <1>4 DEF h
  <2> QED
    BY <1>3, <1>4, <2>1 DEF Proper, Vouched
<1>6. ASSUME NEW t \in Session \ {s} PROVE Proper(srv[t].msg)' /\ Vouched(t)'
  BY <1>0, <1>4, <1>6 DEF Proper, HandlersOK, Vouched
<1>7. HandlersOK'
  BY <1>0, <1>4, <1>5, <1>6 DEF HandlersOK
<1>8. overlapped' \in BOOLEAN
  BY <1>0 DEF Open
<1> QED
  BY <1>4, <1>7, <1>8 DEF h, n

(* A handler goes on: with something else remembered, or further on. *)
LEMMA GoesOn ==
  ASSUME TInv, NEW s \in Session, NEW h \in Handler, h.msg = srv[s].msg,
         h.st = "applied" /\ h.msg.op = "login" => h.msg.pw # 0,
         srv' = [srv EXCEPT ![s] = h], UNCHANGED reply,
         Grows, Len(token') \in Nat
  PROVE  /\ HandlersOK'
         /\ srv'[s] = h /\ \A t \in Session \ {s} : srv'[t] = srv[t]
<1>0. HandlersOK /\ Len(token) \in Nat
  BY DEF TInv, TablesOK
<1>1. /\ srv' \in [Session -> Handler] /\ srv'[s] = h
      /\ \A t \in Session \ {s} : srv'[t] = srv[t]
  BY <1>0 DEF HandlersOK
<1>2. \A t \in Session : srv'[t].msg = srv[t].msg
  BY <1>1
<1>3. ASSUME NEW t \in Session PROVE Proper(srv[t].msg)'
  <2>1. Proper(srv[t].msg)
    BY <1>0 DEF HandlersOK
  <2> QED
    BY <1>2, <2>1 DEF Proper, Grows
<1>5. ASSUME NEW t \in Session PROVE Vouched(t)'
  <2>1. Vouched(t)
    BY <1>0 DEF HandlersOK
  <2> QED
    BY <1>1, <2>1 DEF Vouched
<1>4. ASSUME NEW d \in Device, NEW r \in reply[d] PROVE r.ref <= Len(token')
  <2>1. r.ref \in Nat /\ r.ref <= Len(token)
    BY <1>0 DEF HandlersOK, Answer
  <2> QED
    BY <1>0, <2>1 DEF Grows
<1> QED
  BY <1>0, <1>1, <1>3, <1>4, <1>5 DEF HandlersOK

LEMMA HandlerUpdate ==
  ASSUME NEW x \in Handler, NEW st \in {"checked", "applied"}, NEW y,
         y = [x EXCEPT !.st = st, !.stamp = 0, !.seen = {}]
  PROVE  y \in Handler /\ y.msg = x.msg /\ y.st = st
  BY DEF Handler

LEMMA Moved ==
  ASSUME TInv, NEW s \in Session, NEW st \in {"checked", "applied"},
         st = "applied" /\ srv[s].msg.op = "login" => srv[s].msg.pw # 0,
         Move(s, st), Grows, Len(token') \in Nat
  PROVE  /\ HandlersOK'
         /\ srv'[s].msg = srv[s].msg /\ srv'[s].st = st
         /\ \A t \in Session \ {s} : srv'[t] = srv[t]
<1> DEFINE h == [srv[s] EXCEPT !.st = st, !.stamp = 0, !.seen = {}]
<1>1. srv[s] \in Handler /\ srv \in [Session -> Handler]
  BY DEF TInv, HandlersOK
<1>2. srv' = [srv EXCEPT ![s] = h]
  BY <1>1 DEF Move
<1>3. h \in Handler /\ h.msg = srv[s].msg /\ h.st = st
  <2> DEFINE x == srv[s]
  <2>1. x \in Handler /\ h = [x EXCEPT !.st = st, !.stamp = 0, !.seen = {}]
    BY <1>1
  <2> HIDE DEF x, h
  <2>2. h \in Handler /\ h.msg = x.msg /\ h.st = st
    BY <2>1, HandlerUpdate
  <2> QED
    BY <2>2 DEF x
<1>4. UNCHANGED reply
  BY DEF Move
<1> HIDE DEF h
<1>5. /\ HandlersOK'
      /\ srv'[s] = h /\ \A t \in Session \ {s} : srv'[t] = srv[t]
  BY <1>2, <1>3, <1>4, GoesOn
<1> QED
  BY <1>3, <1>5

LEMMA Closed ==
  ASSUME TInv, NEW s \in Session, NEW r \in Answer, Close(s, r),
         r.ref <= Len(token'), Grows, Len(token') \in Nat
  PROVE  /\ HandlersOK'
         /\ srv'[s] = Free /\ \A t \in Session \ {s} : srv'[t] = srv[t]
<1>0. HandlersOK /\ Len(token) \in Nat
  BY DEF TInv, TablesOK
<1>1. /\ srv' \in [Session -> Handler] /\ srv'[s] = Free
      /\ \A t \in Session \ {s} : srv'[t] = srv[t]
  BY <1>0, FreeType DEF HandlersOK, Close
<1>2. ASSUME NEW t \in Session PROVE Proper(srv[t].msg)' /\ Vouched(t)'
  <2>1. CASE t = s
    <3>1. Free.msg.op = "none" /\ Free.msg \in Message
      BY FreeType, PlainType, AccountsAssumption DEF Free, Plain, Proper
    <3> QED
      BY <1>1, <2>1, <3>1 DEF Proper, Vouched
  <2>2. CASE t # s
    <3>1. Proper(srv[t].msg) /\ Vouched(t)
      BY <1>0 DEF HandlersOK
    <3> QED
      BY <1>1, <2>2, <3>1 DEF Proper, Grows, Vouched
  <2> QED
    BY <2>1, <2>2
<1>3. reply' = reply \/ \E d : reply' = [reply EXCEPT ![d] = {r}]
  BY DEF Close
<1>4. reply' \in [Device -> SUBSET Answer]
  BY <1>0, <1>3 DEF HandlersOK
<1>5. ASSUME NEW d \in Device, NEW a \in reply'[d] PROVE a.ref <= Len(token')
  <2>1. a \in reply[d] \/ a = r
    BY <1>0, <1>3 DEF HandlersOK
  <2>2. CASE a \in reply[d]
    <3>1. a.ref \in Nat /\ a.ref <= Len(token)
      BY <1>0, <2>2 DEF HandlersOK, Answer
    <3> QED
      BY <1>0, <3>1 DEF Grows
  <2> QED
    BY <2>1, <2>2
<1> QED
  BY <1>1, <1>2, <1>4, <1>5 DEF HandlersOK

-----------------------------------------------------------------------------
(* The types through each step of a handler. *)

Rest == <<client, budget, overlapped>>

LEMMA StepKeeps ==
  ASSUME TInv, LimiterTypeOK', TablesOK', HandlersOK', Grows, UNCHANGED Rest
  PROVE  TInv'
<1>1. Len(token') \in Nat
  BY DEF TablesOK
<1>2. ClientsOK'
  BY <1>1, ClientsStay DEF Rest
<1>3. BudgetOK'
  BY DEF TInv, BudgetOK, Rest, budget
<1> QED
  BY <1>2, <1>3 DEF TInv

LEMMA TablesSame ==
  ASSUME TInv, UNCHANGED <<account, token, reset>>
  PROVE  Grows /\ Len(token') \in Nat /\ (UNCHANGED done => TablesOK')
<1>1. TablesOK
  BY DEF TInv
<1>2. Len(token) \in Nat
  BY <1>1 DEF TablesOK
<1> QED
  BY <1>1, <1>2 DEF TablesOK, Grows

LEMMA LimiterSame ==
  ASSUME TInv, UNCHANGED limiterVars
  PROVE  LimiterTypeOK'
  BY DEF TInv, LimiterTypeOK, limiterVars

(* A handler that goes on or answers without writing. *)
LEMMA GoesOnOrEnds ==
  ASSUME TInv, NEW s \in Session,
         \/ Move(s, "checked")
         \/ /\ Move(s, "applied")
            /\ srv[s].msg.op = "login" => srv[s].msg.pw # 0
         \/ \E c \in {"ok", "401", "error"} : Close(s, Code(c)),
         Grows, Len(token') \in Nat
  PROVE  HandlersOK'
<1>1. CASE Move(s, "checked")
  BY <1>1, Moved
<1>2. CASE /\ Move(s, "applied")
           /\ srv[s].msg.op = "login" => srv[s].msg.pw # 0
  BY <1>2, Moved
<1>3. CASE \E c \in {"ok", "401", "error"} : Close(s, Code(c))
  <2>1. PICK c \in {"ok", "401", "error"} : Close(s, Code(c))
    BY <1>3
  <2>2. Code(c) \in Answer /\ Code(c).ref <= Len(token')
    BY CodeType
  <2> QED
    BY <2>1, <2>2, Closed
<1> QED
  BY <1>1, <1>2, <1>3

LEMMA ReadKeeps ==
  ASSUME TInv, NEW s \in Session,
         \/ Move(s, "checked")
         \/ /\ Move(s, "applied")
            /\ srv[s].msg.op = "login" => srv[s].msg.pw # 0
         \/ \E c \in {"ok", "401", "error"} : Close(s, Code(c)),
         UNCHANGED <<limiterVars, tables, Rest>>
  PROVE  TInv'
<1>1. Grows /\ Len(token') \in Nat /\ TablesOK'
  BY TablesSame DEF tables
<1>2. HandlersOK'
  BY <1>1, GoesOnOrEnds
<1>3. LimiterTypeOK'
  BY LimiterSame
<1> QED
  BY <1>1, <1>2, <1>3, StepKeeps

LEMMA ThrottleKeeps ==
  ASSUME TInv, NEW s \in Session, Throttle(s), UNCHANGED Rest
  PROVE  TInv'
<1>1. Grows /\ Len(token') \in Nat /\ TablesOK'
  BY TablesSame DEF tables, Throttle
<1>2. \/ Move(s, "checked")
      \/ \E c \in {"ok", "401", "error"} : Close(s, Code(c))
  BY DEF Throttle
<1>3. HandlersOK'
  BY <1>1, <1>2, GoesOnOrEnds
<1> DEFINE k == srv[s].msg.from
           t == srv[s].stamp
<1>4. k \in Key /\ t \in Nat
  BY AccountsAssumption DEF Throttle, At, TInv, HandlersOK, Proper, Handler
<1>5. LimiterTypeOK
  BY DEF TInv
<1>6. LimiterTypeOK'
  <2> HIDE DEF k, t
  <2>0. hits[k] \in Seq(Nat) /\ Len(hits[k]) \in Nat
    BY <1>4, <1>5 DEF LimiterTypeOK
  <2>1. CASE Admit(k, t)
    <3>1. PICK n \in 0 .. Len(hits[k]) :
            /\ cut' = [cut EXCEPT ![k] = n]
            /\ hits' = [hits EXCEPT ![k] = Append(hits[k], t)]
      BY <2>1 DEF Admit
    <3>2. /\ Append(hits[k], t) \in Seq(Nat)
          /\ Len(Append(hits[k], t)) = Len(hits[k]) + 1
      BY <1>4, <2>0
    <3>3. n <= Len(Append(hits[k], t)) /\ n \in Nat
      BY <2>0, <3>2
    <3> DEFINE h == Append(hits[k], t)
    <3> HIDE DEF h
    <3> QED
      BY <1>4, <1>5, <3>1, <3>2, <3>3 DEF LimiterTypeOK, h
  <2>2. CASE TurnAway(k, t)
    <3>1. PICK n \in 0 .. Len(hits[k]) :
            cut' = [cut EXCEPT ![k] = n] /\ UNCHANGED hits
      BY <2>2 DEF TurnAway
    <3> QED
      BY <1>4, <1>5, <2>0, <3>1 DEF LimiterTypeOK
  <2>3. Admit(k, t) \/ TurnAway(k, t)
    BY DEF Throttle, k, t
  <2> QED
    BY <2>1, <2>2, <2>3
<1> QED
  BY <1>1, <1>3, <1>6, StepKeeps

LEMMA AppendFacts ==
  ASSUME NEW S, NEW u \in Seq(S), NEW t \in S
  PROVE  /\ Append(u, t) \in Seq(S) /\ Len(Append(u, t)) = Len(u) + 1
         /\ Append(u, t)[Len(u) + 1] = t
         /\ \A i \in 1 .. Len(u) : Append(u, t)[i] = u[i]
  OBVIOUS

(* A token is added to a table that differs in marks only. *)
LEMMA TokenAdded ==
  ASSUME TInv, NEW t \in Token, t.chain <= Len(token) + 1, t.under # 0,
         NEW u \in Seq(Token), Len(u) = Len(token),
         \A i \in DOMAIN token :
           u[i].chain = token[i].chain /\ u[i].under = token[i].under,
         token' = Append(u, t), UNCHANGED <<account, reset, done>>
  PROVE  /\ TablesOK' /\ Grows /\ Len(token') = Len(token) + 1
         /\ Len(token) \in Nat /\ Len(token') \in Nat
         /\ DOMAIN token = 1 .. Len(token)
         /\ DOMAIN token' = 1 .. Len(token) + 1
         /\ token'[Len(token) + 1] = t
         /\ \A i \in DOMAIN token : token'[i] = u[i]
<1>0. TablesOK /\ token \in Seq(Token) /\ Len(token) \in Nat
  BY DEF TInv, TablesOK
<1>3. DOMAIN token = 1 .. Len(token)
  BY <1>0
<1>4. /\ token' \in Seq(Token) /\ Len(token') = Len(token) + 1
      /\ token'[Len(token) + 1] = t
      /\ \A i \in 1 .. Len(token) : token'[i] = u[i]
  BY AppendFacts
<1>5. DOMAIN token' = 1 .. Len(token) + 1
  BY <1>4
<1>6. Grows
  BY <1>0, <1>3, <1>4, <1>5 DEF Grows
<1>7. ASSUME NEW i \in DOMAIN token'
      PROVE  token'[i].chain <= i /\ token'[i].under # 0
  <2>1. CASE i \in DOMAIN token
    BY <1>0, <1>3, <1>4, <2>1 DEF TablesOK
  <2>2. CASE i = Len(token) + 1
    BY <1>4, <2>2
  <2> QED
    BY <1>0, <1>3, <1>5, <2>1, <2>2
<1>8. TablesOK'
  BY <1>0, <1>4, <1>7 DEF TablesOK
<1>9. Len(token') \in Nat
  BY <1>0, <1>4
<1> QED
  BY <1>0, <1>3, <1>4, <1>5, <1>6, <1>8, <1>9

LEMMA RotatedTable ==
  ASSUME TInv, NEW k \in DOMAIN token
  PROVE  LET u == [token EXCEPT ![k] = Rotated(token[k])]
         IN /\ u \in Seq(Token) /\ Len(u) = Len(token)
            /\ \A i \in DOMAIN token :
                 /\ u[i].chain = token[i].chain /\ u[i].under = token[i].under
                 /\ u[i].user = token[i].user
                 /\ u[i].revoked = (i = k \/ token[i].revoked)
<1> DEFINE x == Rotated(token[k])
           u == [token EXCEPT ![k] = x]
<1>0. token \in Seq(Token) /\ Len(token) \in Nat
  BY DEF TInv, TablesOK
<1>1. DOMAIN token = 1 .. Len(token) /\ \A i \in DOMAIN token : token[i] \in Token
  BY <1>0
<1>2. /\ x \in Token /\ x.chain = token[k].chain /\ x.under = token[k].under
      /\ x.user = token[k].user /\ x.revoked
  BY <1>1 DEF Rotated, Token
<1> HIDE DEF x
<1>3. u \in [1 .. Len(token) -> Token]
  BY <1>1, <1>2
<1>4. \A i \in DOMAIN token : u[i] = IF i = k THEN x ELSE token[i]
  BY <1>1
<1>5. u \in Seq(Token) /\ Len(u) = Len(token)
  <2> HIDE DEF u
  <2> QED
    BY <1>0, <1>3
<1>6. \A i \in DOMAIN token : token[i].revoked \in BOOLEAN
  BY <1>1 DEF Token
<1> QED
  BY <1>2, <1>4, <1>5, <1>6 DEF x

LEMMA NewTokenType ==
  ASSUME TInv, NEW u \in User, NEW chain \in Nat, NEW under \in Nat
  PROVE  /\ NewToken(u, chain, under) \in Token
         /\ NewToken(u, chain, under).chain = chain
         /\ NewToken(u, chain, under).under = under
<1>1. now + RefreshTtl \in Nat
  BY AccountsAssumption DEF TInv, BudgetOK
<1> QED
  BY <1>1 DEF NewToken, Token

LEMMA IssueKeeps ==
  ASSUME TInv, NEW s \in Session, IssueToken(s), UNCHANGED Rest
  PROVE  TInv'
<1> DEFINE q == srv[s].msg
           n == Len(token) + 1
           w == IF q.op = "login" THEN q.pw ELSE 1
           t == NewToken(q.user, n, w)
<1>0. TablesOK /\ HandlersOK /\ token \in Seq(Token) /\ Len(token) \in Nat
  BY DEF TInv, TablesOK
<1>1. q.user \in User /\ q.pw \in Nat /\ Vouched(s)
  BY <1>0 DEF HandlersOK, Handler, Proper, Message
<1>2. w \in Nat /\ w # 0
  BY <1>1 DEF IssueToken, At, Vouched
<1>3. token' = Append(token, t) /\ UNCHANGED <<limiterVars, account, reset, done>>
  BY DEF IssueToken
<1>4. n \in Nat
  BY <1>0
<1> HIDE DEF w, n
<1>5. t \in Token /\ t.chain = n /\ t.under = w
  BY <1>1, <1>2, <1>4, NewTokenType
<1> HIDE DEF t
<1>6. /\ TablesOK' /\ Grows /\ Len(token') = n /\ Len(token') \in Nat
  BY <1>0, <1>2, <1>3, <1>5, TokenAdded DEF n
<1>7. Granted(n) \in Answer /\ Granted(n).ref <= Len(token')
  BY <1>4, <1>6, GrantedType
<1>8. Close(s, Granted(n))
  BY DEF IssueToken, n
<1>9. HandlersOK'
  BY <1>6, <1>7, <1>8, Closed
<1>10. LimiterTypeOK'
  BY <1>3, LimiterSame
<1> QED
  BY <1>6, <1>9, <1>10, StepKeeps

LEMMA RotateKeeps ==
  ASSUME TInv, NEW s \in Session, Rotate(s), UNCHANGED Rest
  PROVE  TInv'
<1> DEFINE k == srv[s].msg.tok
           rt == token[k]
           n == Len(token) + 1
           u == [token EXCEPT ![k] = Rotated(rt)]
           t == NewToken(rt.user, rt.chain, rt.under)
<1>0. TablesOK /\ HandlersOK /\ token \in Seq(Token) /\ Len(token) \in Nat
  BY DEF TInv, TablesOK
<1>1. k \in DOMAIN token
  BY <1>0 DEF Rotate, At, HandlersOK, Proper
<1>2. /\ rt.user \in User /\ rt.chain \in Nat /\ rt.under \in Nat
      /\ rt.chain <= k /\ rt.under # 0 /\ k <= Len(token) /\ k \in Nat
  <2>1. rt \in Token /\ k \in 1 .. Len(token)
    BY <1>0, <1>1
  <2> QED
    BY <1>0, <1>1, <2>1 DEF TablesOK, Token
<1>3. token' = Append(u, t) /\ UNCHANGED <<limiterVars, account, reset, done>>
  BY DEF Rotate
<1>4. /\ u \in Seq(Token) /\ Len(u) = Len(token)
      /\ \A i \in DOMAIN token :
           u[i].chain = token[i].chain /\ u[i].under = token[i].under
  BY <1>1, RotatedTable
<1>5. t \in Token /\ t.chain = rt.chain /\ t.under = rt.under
  BY <1>2, NewTokenType
<1>6. n \in Nat /\ rt.chain <= n
  BY <1>0, <1>2
<1> HIDE DEF t, u, rt
<1>7. /\ TablesOK' /\ Grows /\ Len(token') = n /\ Len(token') \in Nat
  BY <1>2, <1>3, <1>4, <1>5, <1>6, TokenAdded
<1> HIDE DEF n
<1>8. Granted(n) \in Answer /\ Granted(n).ref <= Len(token')
  BY <1>6, <1>7, GrantedType
<1>9. Close(s, Granted(n))
  BY DEF Rotate, n
<1>10. HandlersOK'
  BY <1>7, <1>8, <1>9, Closed
<1>11. LimiterTypeOK'
  BY <1>3, LimiterSame
<1> QED
  BY <1>7, <1>10, <1>11, StepKeeps

LEMMA TablesKept ==
  ASSUME TInv, account' \in [User -> Account],
         token' \in Seq(Token), Len(token') = Len(token),
         \A i \in DOMAIN token :
           token'[i].chain = token[i].chain /\ token'[i].under = token[i].under,
         reset' \in Seq(Reset), Len(reset) <= Len(reset'),
         done' \in [1 .. MaxOps -> Nat]
  PROVE  TablesOK' /\ Grows /\ Len(token') \in Nat
<1>1. TablesOK /\ token \in Seq(Token) /\ reset \in Seq(Reset)
  BY DEF TInv, TablesOK
<1>2. /\ DOMAIN token' = 1 .. Len(token) /\ DOMAIN token = 1 .. Len(token)
      /\ Len(token) \in Nat
  BY <1>1
<1>3. /\ DOMAIN reset' = 1 .. Len(reset') /\ DOMAIN reset = 1 .. Len(reset)
      /\ Len(reset) \in Nat /\ Len(reset') \in Nat
  BY <1>1
<1>4. Grows
  BY <1>2, <1>3 DEF Grows
<1> QED
  BY <1>1, <1>2, <1>4 DEF TablesOK

LEMMA RevokedTable ==
  ASSUME TInv, NEW s \in Session, Revoke(s)
  PROVE  /\ token' \in Seq(Token) /\ Len(token') = Len(token)
         /\ DOMAIN token' = DOMAIN token
         /\ \A i \in DOMAIN token :
              /\ token'[i].chain = token[i].chain
              /\ token'[i].under = token[i].under
              /\ token'[i].user = token[i].user
              /\ token'[i].revoked = (token[i].revoked \/ i \in srv[s].seen)
<1>0. token \in Seq(Token) /\ Len(token) \in Nat
  BY DEF TInv, TablesOK
<1>1. DOMAIN token = 1 .. Len(token) /\ \A i \in DOMAIN token : token[i] \in Token
  BY <1>0
<1> DEFINE row(i) == [token[i] EXCEPT !.revoked = @ \/ i \in srv[s].seen]
<1>2. token' = [i \in DOMAIN token |-> row(i)]
  BY DEF Revoke
<1>3. ASSUME NEW i \in DOMAIN token
      PROVE  /\ row(i) \in Token
             /\ row(i).chain = token[i].chain /\ row(i).under = token[i].under
             /\ row(i).user = token[i].user
             /\ row(i).revoked = (token[i].revoked \/ i \in srv[s].seen)
  <2> DEFINE x == token[i]
             v == x.revoked \/ i \in srv[s].seen
  <2>1. x \in Token /\ v \in BOOLEAN
    BY <1>1 DEF Token
  <2>2. row(i) = [x EXCEPT !.revoked = v]
    OBVIOUS
  <2> HIDE DEF x, v, row
  <2>3. LET y == [x EXCEPT !.revoked = v]
        IN /\ y \in Token /\ y.chain = x.chain /\ y.under = x.under
           /\ y.user = x.user /\ y.revoked = v
    BY <2>1 DEF Token
  <2>4. /\ row(i) \in Token
        /\ row(i).chain = x.chain /\ row(i).under = x.under
        /\ row(i).user = x.user /\ row(i).revoked = v
    BY <2>2, <2>3
  <2> QED
    BY <2>4 DEF x, v
<1> HIDE DEF row
<1>4. token' \in [1 .. Len(token) -> Token]
  BY <1>1, <1>2, <1>3
<1>5. token' \in Seq(Token) /\ Len(token') = Len(token)
  BY <1>0, <1>4
<1>6. DOMAIN token' = DOMAIN token /\ \A i \in DOMAIN token : token'[i] = row(i)
  BY <1>2
<1> QED
  BY <1>3, <1>5, <1>6

LEMMA AccountUpdate ==
  ASSUME TInv, NEW u \in User, NEW n \in Nat, NEW b \in BOOLEAN
  PROVE  /\ [account EXCEPT ![u] = [pw |-> n, active |-> b]] \in [User -> Account]
         /\ [account EXCEPT ![u].pw = n] \in [User -> Account]
         /\ [account EXCEPT ![u].active = b] \in [User -> Account]
<1>1. account \in [User -> Account] /\ account[u] \in Account
  BY DEF TInv, TablesOK
<1>2. [pw |-> n, active |-> b] \in Account
  BY DEF Account
<1>3. /\ [account[u] EXCEPT !.pw = n] \in Account
      /\ [account[u] EXCEPT !.active = b] \in Account
  BY <1>1 DEF Account
<1> QED
  BY <1>1, <1>2, <1>3

LEMMA ResetUpdate ==
  ASSUME TInv, NEW k, NEW x, k \in DOMAIN reset => x \in Reset
  PROVE  /\ [reset EXCEPT ![k] = x] \in Seq(Reset)
         /\ Len([reset EXCEPT ![k] = x]) = Len(reset)
<1> DEFINE u == [reset EXCEPT ![k] = x]
<1>1. reset \in Seq(Reset) /\ Len(reset) \in Nat
  BY DEF TInv, TablesOK
<1>2. DOMAIN reset = 1 .. Len(reset) /\ \A i \in 1 .. Len(reset) : reset[i] \in Reset
  BY <1>1
<1>3. u \in [1 .. Len(reset) -> Reset]
  BY <1>2
<1> HIDE DEF u
<1>4. u \in Seq(Reset) /\ Len(u) = Len(reset)
  BY <1>1, <1>3
<1> QED
  BY <1>4 DEF u

LEMMA MarkedReset ==
  ASSUME NEW x \in Reset
  PROVE  /\ [x EXCEPT !.used = TRUE] \in Reset
         /\ [x EXCEPT !.n = @ + 1] \in Reset
<1>1. x.n + 1 \in Nat
  BY DEF Reset
<1> DEFINE n == x.n + 1
<1> HIDE DEF n
<1>2. [x EXCEPT !.n = n] \in Reset
  BY <1>1 DEF Reset, n
<1>3. [x EXCEPT !.used = TRUE] \in Reset
  BY DEF Reset
<1> QED
  BY <1>2, <1>3 DEF n

(* Steps that leave the tokens alone. *)
LEMMA OtherTables ==
  ASSUME TInv, NEW s \in Session,
         \/ CreateUser(s) \/ Execute(s) \/ MarkUsed(s) \/ RequestReset(s)
         \/ SetActive(s),
         UNCHANGED Rest
  PROVE  TInv'
<1> DEFINE q == srv[s].msg
           u == q.user
<1>0. /\ TablesOK /\ HandlersOK /\ token \in Seq(Token)
      /\ reset \in Seq(Reset) /\ Len(reset) \in Nat
      /\ account \in [User -> Account] /\ done \in [1 .. MaxOps -> Nat]
  BY DEF TInv, TablesOK
<1>1. u \in User /\ q.tok \in Nat
  BY <1>0 DEF HandlersOK, Handler, Proper, Message
<1>2. \/ Move(s, "checked")
      \/ Move(s, "applied") /\ (srv[s].msg.op = "login" => srv[s].msg.pw # 0)
      \/ \E c \in {"ok", "401", "error"} : Close(s, Code(c))
  BY DEF CreateUser, Execute, MarkUsed, RequestReset, SetActive, At
<1>3. UNCHANGED token /\ UNCHANGED limiterVars
  BY DEF CreateUser, Execute, MarkUsed, RequestReset, SetActive
<1>4. account' \in [User -> Account]
  <2>1. CASE CreateUser(s)
    <3>1. account' = account \/ account' = [account EXCEPT ![u] = [pw |-> 1, active |-> TRUE]]
      BY <2>1 DEF CreateUser
    <3> HIDE DEF u, q
    <3>2. [account EXCEPT ![u] = [pw |-> 1, active |-> TRUE]] \in [User -> Account]
      BY <1>1, AccountUpdate
    <3> QED
      BY <1>0, <3>1, <3>2
  <2>2. CASE SetActive(s)
    <3> DEFINE b == q.op = "on"
    <3>1. account' = account \/ account' = [account EXCEPT ![u].active = b]
      BY <2>2 DEF SetActive
    <3>2. b \in BOOLEAN
      OBVIOUS
    <3> HIDE DEF b, u, q
    <3>3. [account EXCEPT ![u].active = b] \in [User -> Account]
      BY <1>1, <3>2, AccountUpdate
    <3> QED
      BY <1>0, <3>1, <3>3
  <2>3. CASE Execute(s) \/ MarkUsed(s) \/ RequestReset(s)
    BY <1>0, <2>3 DEF Execute, MarkUsed, RequestReset
  <2> QED
    BY <2>1, <2>2, <2>3
<1>5. done' \in [1 .. MaxOps -> Nat]
  <2>1. done' = done \/ done' = [done EXCEPT ![q.id] = done[q.id] + 1]
    BY DEF CreateUser, Execute, MarkUsed, RequestReset, SetActive
  <2> HIDE DEF q
  <2> QED
    BY <1>0, <2>1
<1>6. reset' \in Seq(Reset) /\ Len(reset) <= Len(reset')
  <2>1. CASE UNCHANGED reset
    BY <1>0, <2>1
  <2>2. CASE RequestReset(s)
    <3> DEFINE r == [user |-> u, used |-> FALSE, n |-> 0, exp |-> now + ResetTtl]
    <3>1. now + ResetTtl \in Nat
      BY AccountsAssumption DEF TInv, BudgetOK
    <3>2. r \in Reset
      BY <1>1, <3>1 DEF Reset
    <3>3. reset' = reset \/ reset' = Append(reset, r)
      BY <2>2 DEF RequestReset
    <3> HIDE DEF r
    <3>4. Append(reset, r) \in Seq(Reset) /\ Len(Append(reset, r)) = Len(reset) + 1
      BY <1>0, <3>2, AppendFacts
    <3> DEFINE v == Append(reset, r)
    <3> HIDE DEF v
    <3>5. v \in Seq(Reset) /\ Len(v) = Len(reset) + 1
      BY <3>4 DEF v
    <3>6. reset' = reset \/ reset' = v
      BY <3>3 DEF v
    <3> QED
      BY <1>0, <3>5, <3>6
  <2>3. CASE MarkUsed(s)
    <3> DEFINE k == q.tok
               x == [reset[k] EXCEPT !.used = TRUE]
    <3>1. reset' = [reset EXCEPT ![k] = x]
      BY <2>3 DEF MarkUsed
    <3>2. ASSUME k \in DOMAIN reset PROVE x \in Reset
      <4>1. reset[k] \in Reset
        BY <1>0, <3>2
      <4> HIDE DEF k
      <4> QED
        BY <4>1, MarkedReset
    <3> HIDE DEF x, k
    <3>3. k \in DOMAIN reset => x \in Reset
      BY <3>2
    <3>4. LET v == [reset EXCEPT ![k] = x]
          IN v \in Seq(Reset) /\ Len(v) = Len(reset)
      BY <3>3, ResetUpdate
    <3>5. reset' \in Seq(Reset) /\ Len(reset') = Len(reset)
      BY <3>1, <3>4
    <3> QED
      BY <1>0, <3>5
  <2> QED
    BY <2>1, <2>2, <2>3 DEF CreateUser, Execute, SetActive
<1>7. TablesOK' /\ Grows /\ Len(token') \in Nat
  BY <1>0, <1>3, <1>4, <1>5, <1>6, TablesKept
<1>8. HandlersOK'
  BY <1>2, <1>7, GoesOnOrEnds
<1>9. LimiterTypeOK'
  BY <1>3, LimiterSame
<1> QED
  BY <1>7, <1>8, <1>9, StepKeeps

LEMMA ActiveNat ==
  ASSUME TInv, NEW u
  PROVE  Active(u) \in SUBSET Nat
  BY DEF TInv, TablesOK, Active

LEMMA GatheredType ==
  ASSUME NEW x \in Handler, NEW a \in SUBSET Nat
  PROVE  /\ [x EXCEPT !.st = "gathered", !.seen = a] \in Handler
         /\ [x EXCEPT !.st = "gathered", !.seen = a].msg = x.msg
         /\ [x EXCEPT !.st = "gathered", !.seen = a].st = "gathered"
         /\ [x EXCEPT !.st = "gathered", !.seen = a].seen = a
  BY DEF Handler

LEMMA GatherKeeps ==
  ASSUME TInv, NEW s \in Session, Gather(s), UNCHANGED Rest
  PROVE  TInv'
<1>1. Grows /\ Len(token') \in Nat /\ TablesOK'
  BY TablesSame DEF tables, Gather
<1>2. LimiterTypeOK'
  BY LimiterSame DEF Gather
<1>3. CASE Strong(s)
  <2> DEFINE x == srv[s]
             a == Active(x.msg.user)
             h == [x EXCEPT !.st = "gathered", !.seen = a]
  <2>1. srv' = [srv EXCEPT ![s] = h] /\ UNCHANGED reply
    <3>1. srv \in [Session -> Handler]
      BY DEF TInv, HandlersOK
    <3> QED
      BY <1>3, <3>1 DEF Gather
  <2>2. x \in Handler /\ a \in SUBSET Nat
    BY ActiveNat DEF TInv, HandlersOK
  <2> HIDE DEF x, a
  <2>3. h \in Handler /\ h.msg = x.msg /\ h.st = "gathered"
    BY <2>2, GatheredType
  <2> HIDE DEF h
  <2>4. h.msg = srv[s].msg
    BY <2>3 DEF x
  <2>5. HandlersOK'
    BY <1>1, <2>1, <2>3, <2>4, GoesOn
  <2> QED
    BY <1>1, <1>2, <2>5, StepKeeps
<1>4. CASE ~Strong(s)
  <2>1. \E c \in {"ok", "401", "error"} : Close(s, Code(c))
    BY <1>4 DEF Gather
  <2>2. HandlersOK'
    BY <1>1, <2>1, GoesOnOrEnds
  <2> QED
    BY <1>1, <1>2, <2>2, StepKeeps
<1> QED
  BY <1>3, <1>4

LEMMA ApplyKeeps ==
  ASSUME TInv, NEW s \in Session, ApplyPassword(s) \/ RevokeAll(s),
         UNCHANGED Rest
  PROVE  TInv'
<1> DEFINE q == srv[s].msg
           u == q.user
           k == q.tok
<1>0. /\ TablesOK /\ HandlersOK
      /\ reset \in Seq(Reset) /\ Len(reset) \in Nat
      /\ account \in [User -> Account] /\ done \in [1 .. MaxOps -> Nat]
  BY DEF TInv, TablesOK
<1>1. u \in User /\ q.op \in Op
  BY <1>0 DEF HandlersOK, Handler, Proper, Message
<1>2. Revoke(s) /\ UNCHANGED limiterVars /\ UNCHANGED done
  BY DEF ApplyPassword, RevokeAll
<1>3. account' \in [User -> Account]
  <2> DEFINE n == account[u].pw + 1
  <2>1. n \in Nat
    BY <1>0, <1>1 DEF Account
  <2>2. account' = account \/ account' = [account EXCEPT ![u].pw = n]
    BY DEF ApplyPassword, RevokeAll
  <2> HIDE DEF n, u
  <2>3. [account EXCEPT ![u].pw = n] \in [User -> Account]
    BY <1>1, <2>1, AccountUpdate
  <2> QED
    BY <1>0, <2>2, <2>3
<1>4. reset' \in Seq(Reset) /\ Len(reset') = Len(reset)
  <2> DEFINE x == [reset[k] EXCEPT !.n = @ + 1]
  <2>1. ASSUME k \in DOMAIN reset PROVE x \in Reset
    <3>1. reset[k] \in Reset
      BY <1>0, <2>1
    <3> HIDE DEF k
    <3> QED
      BY <3>1, MarkedReset
  <2>2. reset' = reset \/ reset' = [reset EXCEPT ![k] = x]
    BY DEF ApplyPassword, RevokeAll
  <2> HIDE DEF x, k
  <2>3. LET v == [reset EXCEPT ![k] = x]
        IN v \in Seq(Reset) /\ Len(v) = Len(reset)
    BY <2>1, ResetUpdate
  <2> QED
    BY <1>0, <2>2, <2>3
<1>5. /\ token' \in Seq(Token) /\ Len(token') = Len(token)
      /\ \A i \in DOMAIN token :
           token'[i].chain = token[i].chain /\ token'[i].under = token[i].under
  BY <1>2, RevokedTable
<1>6. TablesOK' /\ Grows /\ Len(token') \in Nat
  BY <1>0, <1>2, <1>3, <1>4, <1>5, TablesKept
<1>7. \/ Move(s, "applied") /\ (srv[s].msg.op = "login" => srv[s].msg.pw # 0)
      \/ \E c \in {"ok", "401", "error"} : Close(s, Code(c))
  BY DEF ApplyPassword, RevokeAll
<1>8. HandlersOK'
  BY <1>6, <1>7, GoesOnOrEnds
<1>9. LimiterTypeOK'
  BY <1>2, LimiterSame
<1> QED
  BY <1>6, <1>8, <1>9, StepKeeps

(* Handlers that look into a table and go on or answer. *)
Looks(s) ==
  \/ CheckEmail(s) \/ CheckPassword(s) \/ ReadToken(s)
  \/ CheckOldPassword(s) \/ FindUser(s) \/ ReadReset(s)

LEMMA LooksKeeps ==
  ASSUME TInv, NEW s \in Session, Looks(s), UNCHANGED Rest
  PROVE  TInv'
<1>1. UNCHANGED <<limiterVars, tables, Rest>>
  BY DEF Looks, CheckEmail, CheckPassword, ReadToken, CheckOldPassword,
         FindUser, ReadReset
<1>2. \/ Move(s, "checked")
      \/ /\ Move(s, "applied")
         /\ srv[s].msg.op = "login" => srv[s].msg.pw # 0
      \/ \E c \in {"ok", "401", "error"} : Close(s, Code(c))
  BY DEF Looks, CheckEmail, CheckPassword, ReadToken, CheckOldPassword,
         FindUser, ReadReset, Knows
<1> QED
  BY <1>1, <1>2, ReadKeeps

LEMMA HandlerStepKeeps ==
  ASSUME TInv, NEW s \in Session, HandlerStep(s)
  PROVE  TInv'
<1>0. UNCHANGED Rest
  BY DEF HandlerStep, Rest
<1>1. CASE Looks(s)
  BY <1>0, <1>1, LooksKeeps
<1>2. CASE Throttle(s)
  BY <1>0, <1>2, ThrottleKeeps
<1>3. CASE IssueToken(s)
  BY <1>0, <1>3, IssueKeeps
<1>4. CASE Rotate(s)
  BY <1>0, <1>4, RotateKeeps
<1>5. CASE \/ CreateUser(s) \/ Execute(s) \/ MarkUsed(s) \/ RequestReset(s)
           \/ SetActive(s)
  BY <1>0, <1>5, OtherTables
<1>6. CASE Gather(s)
  BY <1>0, <1>6, GatherKeeps
<1>7. CASE ApplyPassword(s) \/ RevokeAll(s)
  BY <1>0, <1>7, ApplyKeeps
<1> QED
  BY <1>1, <1>2, <1>3, <1>4, <1>5, <1>6, <1>7 DEF HandlerStep, Looks

-----------------------------------------------------------------------------
(* The types through each step of a client. *)

LEMMA Requests ==
  ASSUME TInv, NEW d \in Device, NEW h \in Held, h.ref <= Len(token)
  PROVE  /\ Proper(CallOf(d, h))
         /\ h.ref # 0 => Proper(RefreshOf(d, h))
         /\ \A pw \in Nat : Proper([Plain("login", d, Owner[d]) EXCEPT !.pw = pw])
<1>0. Owner[d] \in User /\ "call" \in Op /\ "refresh" \in Op /\ "login" \in Op
  BY AccountsAssumption DEF Op
<1> DEFINE c == Plain("call", d, Owner[d])
           r == Plain("refresh", d, Owner[d])
           g == Plain("login", d, Owner[d])
<1>1. /\ c \in Message /\ r \in Message /\ g \in Message
      /\ c.op = "call" /\ r.op = "refresh" /\ g.op = "login" /\ g.from = d
  BY <1>0, PlainType
<1>2. h.exp \in Nat /\ h.id \in Nat /\ h.ref \in Nat
  BY DEF Held
<1>3. DOMAIN token = 1 .. Len(token)
  BY DEF TInv, TablesOK
<1> HIDE DEF c, r, g
<1>4. Proper([c EXCEPT !.exp = h.exp, !.id = h.id])
  <2> DEFINE e == h.exp
             i == h.id
  <2>1. e \in Nat /\ i \in Nat
    BY <1>2
  <2> HIDE DEF e, i
  <2>2. /\ [c EXCEPT !.exp = e, !.id = i] \in Message
        /\ [c EXCEPT !.exp = e, !.id = i].op = "call"
    BY <1>1, <2>1 DEF Message
  <2>3. Proper([c EXCEPT !.exp = e, !.id = i])
    BY <2>2 DEF Proper
  <2> QED
    BY <2>3 DEF e, i
<1>5. ASSUME h.ref # 0 PROVE Proper([r EXCEPT !.tok = h.ref])
  <2> DEFINE k == h.ref
             m == [r EXCEPT !.tok = k]
  <2>1. k \in Nat /\ k \in DOMAIN token
    BY <1>2, <1>3, <1>5 DEF TInv, TablesOK
  <2> HIDE DEF k
  <2>2. m \in Message /\ m.op = "refresh" /\ m.tok = k
    BY <1>1, <2>1 DEF Message
  <2> HIDE DEF m
  <2>3. Proper(m)
    BY <2>1, <2>2 DEF Proper
  <2> QED
    BY <2>3 DEF m, k
<1>6. ASSUME NEW pw \in Nat PROVE Proper([g EXCEPT !.pw = pw])
  <2> DEFINE m == [g EXCEPT !.pw = pw]
  <2>1. m \in Message /\ m.op = "login" /\ m.from \in Device
    BY <1>1 DEF Message
  <2> HIDE DEF m
  <2>2. Proper(m)
    BY <2>1 DEF Proper
  <2> QED
    BY <2>2 DEF m
<1> QED
  BY <1>4, <1>5, <1>6 DEF CallOf, RefreshOf, c, r, g

LEMMA ClientTurns ==
  ASSUME TInv, NEW d \in Device, NEW h \in Held, h.ref <= Len(token),
         NEW M, \A m \in M : Proper(m), Become(d, h, M),
         \A m \in late' : Proper(m), UNCHANGED <<token, reset>>
  PROVE  ClientsOK'
<1>0. ClientsOK
  BY DEF TInv
<1>1. M \in SUBSET Message /\ late' \in SUBSET Message
  BY DEF Proper
<1>2. /\ dev' \in [Device -> Held] /\ wire' \in [Device -> SUBSET Message]
      /\ \A e \in Device : dev'[e] = IF e = d THEN h ELSE dev[e]
      /\ \A e \in Device : wire'[e] = IF e = d THEN M ELSE wire[e]
  BY <1>0, <1>1 DEF ClientsOK, Become
<1>3. \A e \in Device : dev'[e].ref <= Len(token')
  BY <1>0, <1>2 DEF ClientsOK
<1>4. \A e \in Device : \A m \in wire'[e] : Proper(m)
  BY <1>0, <1>2 DEF ClientsOK
<1>5. \A m : Proper(m) => Proper(m)'
  BY DEF Proper
<1> QED
  BY <1>1, <1>2, <1>3, <1>4, <1>5 DEF ClientsOK

LEMMA HeldUpdate ==
  ASSUME NEW x \in Held,
         NEW pc \in {"out", "login", "idle", "call", "refresh", "retry"}
  PROVE  [x EXCEPT !.pc = pc] \in Held /\ [x EXCEPT !.pc = pc].ref = x.ref
  BY DEF Held

LEMMA HeldTokens ==
  ASSUME NEW x \in Held, NEW e \in Nat, NEW r \in Nat
  PROVE  /\ [x EXCEPT !.exp = e, !.ref = r] \in Held
         /\ [x EXCEPT !.exp = e, !.ref = r].ref = r
  BY DEF Held

LEMMA ReactTurns ==
  ASSUME TInv, NEW d \in Device, NEW r \in Answer, r.ref <= Len(token),
         React(d, r)
  PROVE  \E h \in Held, M \in SUBSET {m \in Message : Proper(m)} :
           h.ref <= Len(token) /\ Become(d, h, M)
<1> DEFINE x == dev[d]
           P == SUBSET {m \in Message : Proper(m)}
           to(pc) == [x EXCEPT !.pc = pc]
           k == Keep(d, r)
<1>0. x \in Held /\ x.ref <= Len(token) /\ r.exp \in Nat /\ r.ref \in Nat
  BY DEF TInv, ClientsOK, Answer
<1>1. /\ to("out") \in Held /\ to("idle") \in Held /\ to("refresh") \in Held
      /\ to("out").ref = x.ref /\ to("idle").ref = x.ref
      /\ to("refresh").ref = x.ref
  <2> HIDE DEF x
  <2> QED
    BY <1>0, HeldUpdate
<1>2. k \in Held /\ k.ref = r.ref
  <2> DEFINE e == r.exp
             f == r.ref
  <2>1. k = [x EXCEPT !.exp = e, !.ref = f]
    BY DEF Keep
  <2>2. e \in Nat /\ f \in Nat
    BY <1>0
  <2> HIDE DEF x, e, f, k
  <2>4. x \in Held
    BY <1>0
  <2>5. LET y == [x EXCEPT !.exp = e, !.ref = f] IN y \in Held /\ y.ref = f
    BY <2>2, <2>4, HeldTokens
  <2>3. k \in Held /\ k.ref = f
    BY <2>1, <2>5
  <2> QED
    BY <2>3 DEF f
<1>3. /\ [k EXCEPT !.pc = "idle"] \in Held /\ [k EXCEPT !.pc = "idle"].ref = r.ref
      /\ [k EXCEPT !.pc = "retry"] \in Held /\ [k EXCEPT !.pc = "retry"].ref = r.ref
  <2> HIDE DEF k
  <2>1. /\ [k EXCEPT !.pc = "idle"] \in Held
        /\ [k EXCEPT !.pc = "idle"].ref = k.ref
        /\ [k EXCEPT !.pc = "retry"] \in Held
        /\ [k EXCEPT !.pc = "retry"].ref = k.ref
    BY <1>2, HeldUpdate
  <2> QED
    BY <1>2, <2>1
<1>4. {} \in P
  OBVIOUS
<1>5. CASE Become(d, [k EXCEPT !.pc = "idle"], {})
  BY <1>3, <1>4, <1>5
<1>6. CASE Become(d, to("out"), {}) \/ Become(d, to("idle"), {})
  BY <1>0, <1>1, <1>4, <1>6
<1>7. CASE x.ref # 0 /\ Become(d, to("refresh"), {RefreshOf(d, x)})
  <2>1. Proper(RefreshOf(d, x))
    <3> HIDE DEF x
    <3> QED
      BY <1>0, <1>7, Requests
  <2>2. {RefreshOf(d, x)} \in P
    BY <2>1 DEF Proper
  <2> QED
    BY <1>0, <1>1, <1>7, <2>2
<1>8. CASE LET h == [k EXCEPT !.pc = "retry"] IN Become(d, h, {CallOf(d, h)})
  <2> DEFINE h == [k EXCEPT !.pc = "retry"]
  <2>0. h \in Held /\ h.ref <= Len(token)
    BY <1>3
  <2>1. Become(d, h, {CallOf(d, h)})
    BY <1>8
  <2> HIDE DEF h
  <2>2. Proper(CallOf(d, h))
    BY <2>0, Requests
  <2>3. {CallOf(d, h)} \in P
    BY <2>2 DEF Proper
  <2> QED
    BY <2>0, <2>1, <2>3
<1> QED
  <2> HIDE DEF k
  <2>1. React(d, r) => \/ Become(d, [k EXCEPT !.pc = "idle"], {})
                       \/ Become(d, to("out"), {}) \/ Become(d, to("idle"), {})
                       \/ x.ref # 0 /\ Become(d, to("refresh"), {RefreshOf(d, x)})
                       \/ LET h == [k EXCEPT !.pc = "retry"]
                          IN Become(d, h, {CallOf(d, h)})
    BY DEF React, Renew, KeepRefreshed, GiveUpRetry, k
  <2> QED
    BY <1>5, <1>6, <1>7, <1>8, <2>1

LEMMA ClientSteps ==
  ASSUME TInv, NEW d \in Device,
         SignIn(d) \/ StartCall(d) \/ Leave(d) \/ Receive(d)
  PROVE  TInv' /\ UNCHANGED <<limiterVars, tables, srv, now, overlapped>>
<1>0. /\ HandlersOK /\ ClientsOK /\ TablesOK /\ LimiterTypeOK /\ BudgetOK
      /\ dev[d] \in Held /\ dev[d].ref <= Len(token)
  BY DEF TInv, ClientsOK
<1>1. /\ UNCHANGED <<limiterVars, tables, srv, now, overlapped, late>>
      /\ UNCHANGED <<hits, cut, account, token, reset, done>>
  BY DEF SignIn, StartCall, Leave, Receive, Operate, budget, limiterVars, tables
<1>2. BudgetOK'
  BY <1>0, <1>1
     DEF BudgetOK, SignIn, StartCall, Leave, Receive, Operate, budget
<1>3. \A m \in late' : Proper(m)
  BY <1>0, <1>1 DEF ClientsOK
<1>4. \E h \in Held, M \in SUBSET {m \in Message : Proper(m)} :
        h.ref <= Len(token) /\ Become(d, h, M)
  <2>1. CASE SignIn(d)
    <3> DEFINE h == [dev[d] EXCEPT !.pc = "login"]
    <3>1. h \in Held /\ h.ref <= Len(token)
      <4> DEFINE x == dev[d]
      <4> HIDE DEF x
      <4>1. [x EXCEPT !.pc = "login"] \in Held /\ [x EXCEPT !.pc = "login"].ref = x.ref
        BY <1>0, HeldUpdate DEF x
      <4> QED
        BY <1>0, <4>1 DEF x
    <3>2. PICK pw \in {0, account[Owner[d]].pw} :
            Send(d, [Plain("login", d, Owner[d]) EXCEPT !.pw = pw])
      BY <2>1 DEF SignIn
    <3>3. pw \in Nat
      BY <1>0, AccountsAssumption DEF TablesOK, Account
    <3> DEFINE m == [Plain("login", d, Owner[d]) EXCEPT !.pw = pw]
    <3>4. Proper(m)
      BY <1>0, <3>3, Requests
    <3>5. dev' = [dev EXCEPT ![d] = h] /\ wire' = [wire EXCEPT ![d] = {m}]
      BY <1>0, <2>1, <3>2 DEF SignIn, Send
    <3> HIDE DEF h, m
    <3>6. Become(d, h, {m}) /\ {m} \in SUBSET {n \in Message : Proper(n)}
      BY <3>4, <3>5 DEF Become, Proper
    <3> QED
      BY <3>1, <3>6
  <2>2. CASE StartCall(d)
    <3> DEFINE n == ops + 1
               h == [dev[d] EXCEPT !.pc = "call", !.id = n]
    <3>0. n \in Nat
      BY <1>0 DEF BudgetOK
    <3>1. dev' = [dev EXCEPT ![d] = h] /\ wire' = [wire EXCEPT ![d] = {CallOf(d, h)}]
      BY <2>2 DEF StartCall, Send
    <3> HIDE DEF n
    <3>2. h \in Held /\ h.ref = dev[d].ref
      BY <1>0, <3>0 DEF Held
    <3> HIDE DEF h
    <3>3. Proper(CallOf(d, h))
      BY <1>0, <3>2, Requests
    <3>4. /\ Become(d, h, {CallOf(d, h)})
          /\ {CallOf(d, h)} \in SUBSET {m \in Message : Proper(m)}
      BY <3>1, <3>3 DEF Become, Proper
    <3> QED
      BY <1>0, <3>2, <3>4
  <2>3. CASE Leave(d)
    <3> DEFINE h == [pc |-> "out", exp |-> 0, ref |-> 0, id |-> 0]
    <3>1. h \in Held /\ h.ref = 0 /\ Len(token) \in Nat
      BY <1>0 DEF Held, TablesOK
    <3>2. dev' = [dev EXCEPT ![d] = h] /\ wire' = [wire EXCEPT ![d] = wire[d]]
      BY <1>0, <2>3 DEF Leave, ClientsOK
    <3> HIDE DEF h
    <3>3. Become(d, h, wire[d]) /\ wire[d] \in SUBSET {m \in Message : Proper(m)}
      BY <1>0, <3>2 DEF Become, ClientsOK
    <3> QED
      BY <3>1, <3>3
  <2>4. CASE Receive(d)
    <3>1. PICK r \in reply[d] : React(d, r)
      BY <2>4 DEF Receive
    <3>2. r \in Answer /\ r.ref <= Len(token)
      BY <1>0 DEF HandlersOK
    <3> QED
      BY <3>1, <3>2, ReactTurns
  <2> QED
    BY <2>1, <2>2, <2>3, <2>4
<1>5. ClientsOK'
  <2>1. PICK h \in Held, M \in SUBSET {m \in Message : Proper(m)} :
          h.ref <= Len(token) /\ Become(d, h, M)
    BY <1>4
  <2>2. \A m \in M : Proper(m)
    OBVIOUS
  <2> QED
    BY <1>1, <1>3, <2>1, <2>2, ClientTurns
<1>6. HandlersOK'
  <2>1. reply' = reply \/ reply' = [reply EXCEPT ![d] = {}]
    BY DEF SignIn, StartCall, Leave, Receive
  <2>2. /\ reply' \in [Device -> SUBSET Answer]
        /\ \A e \in Device : \A r \in reply'[e] : r.ref <= Len(token)
    BY <1>0, <2>1 DEF HandlersOK
  <2>3. \A s \in Session : Proper(srv[s].msg)' /\ Vouched(s)'
    BY <1>0, <1>1 DEF HandlersOK, Proper, Vouched
  <2> QED
    BY <1>0, <1>1, <2>2, <2>3 DEF HandlersOK
<1>7. LimiterTypeOK' /\ TablesOK'
  BY <1>0, <1>1 DEF LimiterTypeOK, TablesOK
<1> QED
  BY <1>1, <1>2, <1>5, <1>6, <1>7 DEF TInv

-----------------------------------------------------------------------------
(* The types through the steps of the rest of the world. *)

(* A request is opened. *)
LEMMA OpenKeeps ==
  ASSUME TInv, NEW s \in Session, NEW q, Proper(q), Open(s, q),
         wire' = wire \/ (\E d : wire' = [wire EXCEPT ![d] = {}]),
         late' \subseteq late,
         UNCHANGED <<limiterVars, tables, dev, reply, now, faults>>, ops' \in Nat
  PROVE  TInv'
<1>0. /\ HandlersOK /\ ClientsOK /\ TablesOK /\ LimiterTypeOK /\ BudgetOK
      /\ UNCHANGED <<hits, cut, account, token, reset, done>>
  BY DEF TInv, limiterVars, tables
<1>1. HandlersOK' /\ overlapped' \in BOOLEAN
  BY <1>0, Opened
<1>2. \A m : Proper(m) => Proper(m)'
  BY <1>0 DEF Proper
<1>3. /\ wire' \in [Device -> SUBSET Message]
      /\ \A d \in Device : wire'[d] \subseteq wire[d]
  BY <1>0 DEF ClientsOK
<1>4. ClientsOK'
  BY <1>0, <1>2, <1>3 DEF ClientsOK
<1>5. LimiterTypeOK' /\ TablesOK' /\ BudgetOK'
  BY <1>0, <1>1 DEF LimiterTypeOK, TablesOK, BudgetOK
<1> QED
  BY <1>1, <1>4, <1>5 DEF TInv

LEMMA ServeKeeps ==
  ASSUME TInv, NEW s \in Session,
         (\E d \in Device : Serve(s, d)) \/ ServeLate(s)
  PROVE  TInv' /\ \E q : Proper(q) /\ Open(s, q)
<1>0. ClientsOK /\ ops \in Nat
  BY DEF TInv, BudgetOK
<1>1. PICK q : Proper(q) /\ Open(s, q)
  BY <1>0 DEF Serve, ServeLate, ClientsOK
<1>2. /\ wire' = wire \/ (\E d : wire' = [wire EXCEPT ![d] = {}])
      /\ late' \subseteq late
      /\ UNCHANGED <<limiterVars, tables, dev, reply, now, faults>>
      /\ ops' \in Nat
  BY <1>0 DEF Serve, ServeLate, budget
<1> QED
  BY <1>1, <1>2, OpenKeeps

LEMMA AskedProper ==
  ASSUME TInv, NEW u \in User, NEW op \in {"register", "change", "set", "reset", "on", "off"},
         NEW pw \in Nat, NEW new \in SUBSET Sample
  PROVE  /\ Proper(Plain(op, None, u))
         /\ op # "off" =>
              /\ Proper([Plain(op, None, u) EXCEPT !.new = new])
              /\ Proper([Plain(op, None, u) EXCEPT !.pw = pw, !.new = new])
<1> DEFINE m == Plain(op, None, u)
<1>1. m \in Message /\ m.op = op /\ m.new = {}
  BY PlainType DEF Op, Plain
<1> HIDE DEF m
<1>2. /\ [m EXCEPT !.new = new] \in Message
      /\ [m EXCEPT !.new = new].op = op
      /\ [m EXCEPT !.pw = pw, !.new = new] \in Message
      /\ [m EXCEPT !.pw = pw, !.new = new].op = op
  BY <1>1 DEF Message
<1> DEFINE x == [m EXCEPT !.new = new]
           y == [m EXCEPT !.pw = pw, !.new = new]
<1>3. x \in Message /\ x.op = op /\ y \in Message /\ y.op = op
  BY <1>2
<1> HIDE DEF x, y
<1>4. Proper(m) /\ (op # "off" => Proper(x) /\ Proper(y))
  BY <1>1, <1>3 DEF Proper
<1> QED
  BY <1>4 DEF x, y, m

LEMMA ConfirmProper ==
  ASSUME TInv, NEW u \in User, NEW i \in DOMAIN reset, NEW new \in SUBSET Sample
  PROVE  Proper([Plain("confirm", None, u) EXCEPT !.tok = i, !.new = new])
<1> DEFINE m == Plain("confirm", None, u)
<1>1. m \in Message /\ m.op = "confirm"
  BY PlainType DEF Op
<1>2. i \in Nat
  BY DEF TInv, TablesOK
<1> DEFINE x == [m EXCEPT !.tok = i, !.new = new]
<1> HIDE DEF m
<1>3. x \in Message /\ x.op = "confirm" /\ x.tok = i
  BY <1>1, <1>2 DEF Message
<1> HIDE DEF x
<1>4. Proper(x)
  BY <1>3 DEF Proper
<1> QED
  BY <1>4 DEF x, m

LEMMA AskKeeps ==
  ASSUME TInv, NEW s \in Session, Ask(s)
  PROVE  TInv' /\ \E q : Proper(q) /\ q.op # "login" /\ q.op # "refresh" /\ Open(s, q)
<1>0. account \in [User -> Account] /\ ops \in Nat
  BY DEF TInv, TablesOK, BudgetOK
<1>1. PICK u \in User, p \in Sample :
       LET q(op) == Plain(op, None, u)
       IN \/ Open(s, [q("register") EXCEPT !.new = {p}])
          \/ \E pw \in {0, account[u].pw} :
               Open(s, [q("change") EXCEPT !.pw = pw, !.new = {p}])
          \/ Open(s, [q("set") EXCEPT !.new = {p}])
          \/ \E i \in DOMAIN reset :
               /\ reset[i].user = u
               /\ Open(s, [q("confirm") EXCEPT !.tok = i, !.new = {p}])
          \/ \E op \in {"reset", "on", "off"} : Open(s, q(op))
  BY DEF Ask
<1>2. {p} \in SUBSET Sample /\ account[u].pw \in Nat /\ 0 \in Nat
  BY <1>0 DEF Account
<1>3. \E q : Proper(q) /\ q.op # "login" /\ q.op # "refresh" /\ Open(s, q)
  <2>1. /\ \A op \in {"register", "set"} :
             Proper([Plain(op, None, u) EXCEPT !.new = {p}])
        /\ \A op \in {"reset", "on", "off"} : Proper(Plain(op, None, u))
    BY <1>2, AskedProper
  <2>2. \A pw \in {0, account[u].pw} :
          Proper([Plain("change", None, u) EXCEPT !.pw = pw, !.new = {p}])
    BY <1>2, AskedProper
  <2>3. \A i \in DOMAIN reset :
          Proper([Plain("confirm", None, u) EXCEPT !.tok = i, !.new = {p}])
    BY <1>2, ConfirmProper
  <2>4. \A op, i, pw :
          /\ Plain(op, None, u).op = op
          /\ [Plain(op, None, u) EXCEPT !.new = {p}].op = op
          /\ [Plain(op, None, u) EXCEPT !.pw = pw, !.new = {p}].op = op
          /\ [Plain(op, None, u) EXCEPT !.tok = i, !.new = {p}].op = op
    BY DEF Plain
  <2>5. CASE Open(s, [Plain("register", None, u) EXCEPT !.new = {p}])
    BY <2>1, <2>4, <2>5
  <2>6. CASE Open(s, [Plain("set", None, u) EXCEPT !.new = {p}])
    BY <2>1, <2>4, <2>6
  <2>7. CASE \E pw \in {0, account[u].pw} :
               Open(s, [Plain("change", None, u) EXCEPT !.pw = pw, !.new = {p}])
    <3>1. PICK pw \in {0, account[u].pw} :
            Open(s, [Plain("change", None, u) EXCEPT !.pw = pw, !.new = {p}])
      BY <2>7
    <3> DEFINE m == [Plain("change", None, u) EXCEPT !.pw = pw, !.new = {p}]
    <3>2. Proper(m) /\ m.op = "change" /\ Open(s, m)
      BY <2>2, <2>4, <3>1
    <3> HIDE DEF m
    <3> QED
      BY <3>2
  <2>8. CASE \E i \in DOMAIN reset :
               Open(s, [Plain("confirm", None, u) EXCEPT !.tok = i, !.new = {p}])
    BY <2>3, <2>4, <2>8
  <2>9. CASE \E op \in {"reset", "on", "off"} : Open(s, Plain(op, None, u))
    BY <2>1, <2>4, <2>9
  <2> QED
    BY <1>1, <2>5, <2>6, <2>7, <2>8, <2>9
<1>4. /\ UNCHANGED <<limiterVars, tables, dev, reply, now, faults, wire, late>>
      /\ ops' \in Nat
  <2>1. Operate /\ UNCHANGED <<limiterVars, tables, client, reply>>
    BY DEF Ask
  <2> QED
    BY <1>0, <2>1 DEF Operate, client
<1>5. PICK q : Proper(q) /\ Open(s, q)
  BY <1>3
<1>6. TInv'
  BY <1>4, <1>5, OpenKeeps
<1> QED
  BY <1>3, <1>6

LEMMA Abandoned ==
  ASSUME NEW m \in Message
  PROVE  /\ [m EXCEPT !.live = FALSE] \in Message
         /\ [m EXCEPT !.live = FALSE].op = m.op
         /\ [m EXCEPT !.live = FALSE].from = m.from
         /\ [m EXCEPT !.live = FALSE].tok = m.tok
         /\ [m EXCEPT !.live = FALSE].pw = m.pw
         /\ [m EXCEPT !.live = FALSE].user = m.user
         /\ [m EXCEPT !.live = FALSE].new = m.new
  BY DEF Message

LEMMA AbandonedHandler ==
  ASSUME NEW x \in Handler
  PROVE  /\ [x EXCEPT !.msg.live = FALSE] \in Handler
         /\ [x EXCEPT !.msg.live = FALSE].msg = [x.msg EXCEPT !.live = FALSE]
         /\ [x EXCEPT !.msg.live = FALSE].st = x.st
         /\ [x EXCEPT !.msg.live = FALSE].stamp = x.stamp
         /\ [x EXCEPT !.msg.live = FALSE].seen = x.seen
<1> DEFINE m == [x.msg EXCEPT !.live = FALSE]
<1>1. m \in Message
  BY Abandoned DEF Handler
<1>2. [x EXCEPT !.msg.live = FALSE] = [x EXCEPT !.msg = m]
  BY DEF Handler
<1> HIDE DEF m
<1>3. LET y == [x EXCEPT !.msg = m]
      IN /\ y \in Handler /\ y.msg = m /\ y.st = x.st
         /\ y.stamp = x.stamp /\ y.seen = x.seen
  BY <1>1 DEF Handler
<1> QED
  BY <1>2, <1>3 DEF m

LEMMA HangUpKeeps ==
  ASSUME TInv, NEW d \in Device, HangUp(d)
  PROVE  /\ TInv'
         /\ UNCHANGED <<limiterVars, tables, now, overlapped>>
         /\ \A s \in Session :
              \/ srv'[s] = srv[s]
              \/ srv'[s] = [srv[s] EXCEPT !.msg.live = FALSE]
<1>0. /\ HandlersOK /\ ClientsOK /\ TablesOK /\ LimiterTypeOK /\ BudgetOK
      /\ UNCHANGED <<limiterVars, tables, now, overlapped>>
      /\ UNCHANGED <<hits, cut, account, token, reset, done>>
      /\ Len(token) \in Nat
  BY DEF TInv, TablesOK, HangUp, Fault, limiterVars, tables
<1>1. Code("error") \in Answer /\ Code("error").ref <= Len(token)
  BY <1>0, CodeType
<1>2. React(d, Code("error"))
  BY DEF HangUp
<1>3. PICK h \in Held, M \in SUBSET {m \in Message : Proper(m)} :
        h.ref <= Len(token) /\ Become(d, h, M)
  BY <1>1, <1>2, ReactTurns
<1>4. \A m \in late' : Proper(m)
  <2>1. ASSUME NEW q \in wire[d] PROVE Proper([q EXCEPT !.live = FALSE])
    <3>1. Proper(q) /\ q \in Message
      BY <1>0 DEF ClientsOK
    <3> DEFINE m == [q EXCEPT !.live = FALSE]
    <3>2. m \in Message /\ m.op = q.op /\ m.from = q.from /\ m.tok = q.tok
          /\ m.new = q.new
      BY <3>1, Abandoned
    <3> HIDE DEF m
    <3>3. Proper(m)
      BY <3>1, <3>2 DEF Proper
    <3> QED
      BY <3>3 DEF m
  <2>2. \/ late' = late
        \/ late' = late \cup {[q EXCEPT !.live = FALSE] : q \in wire[d]}
    BY DEF HangUp
  <2> QED
    BY <1>0, <2>1, <2>2 DEF ClientsOK
<1>5. ClientsOK'
  <2>1. \A m \in M : Proper(m)
    OBVIOUS
  <2> QED
    BY <1>0, <1>3, <1>4, <2>1, ClientTurns
<1>6. /\ srv' \in [Session -> Handler]
      /\ \A s \in Session : \/ srv'[s] = srv[s]
                            \/ srv'[s] = [srv[s] EXCEPT !.msg.live = FALSE]
  <2>1. \A s \in Session : [srv[s] EXCEPT !.msg.live = FALSE] \in Handler
    BY <1>0, AbandonedHandler DEF HandlersOK
  <2>2. srv' = [s \in Session |-> IF srv[s].msg.from = d
                               THEN [srv[s] EXCEPT !.msg.live = FALSE]
                               ELSE srv[s]]
    BY DEF HangUp
  <2> DEFINE f(s) == [srv[s] EXCEPT !.msg.live = FALSE]
  <2> HIDE DEF f
  <2>3. /\ \A s \in Session : f(s) \in Handler
        /\ srv' = [s \in Session |-> IF srv[s].msg.from = d THEN f(s) ELSE srv[s]]
    BY <2>1, <2>2 DEF f
  <2>4. /\ srv' \in [Session -> Handler]
        /\ \A s \in Session : srv'[s] = srv[s] \/ srv'[s] = f(s)
    BY <1>0, <2>3 DEF HandlersOK
  <2> QED
    BY <2>4 DEF f
<1>7. ASSUME NEW s \in Session PROVE Proper(srv[s].msg)' /\ Vouched(s)'
  <2>1. Proper(srv[s].msg) /\ Vouched(s) /\ srv[s] \in Handler /\ srv[s].msg \in Message
    BY <1>0 DEF HandlersOK, Handler
  <2>2. CASE srv'[s] = srv[s]
    BY <1>0, <2>1, <2>2 DEF Proper, Vouched
  <2>3. CASE srv'[s] = [srv[s] EXCEPT !.msg.live = FALSE]
    <3> DEFINE x == srv[s]
               m == [x.msg EXCEPT !.live = FALSE]
    <3>1. srv'[s].msg = m /\ srv'[s].st = x.st
      BY <2>1, <2>3, AbandonedHandler
    <3>2. m \in Message /\ m.op = x.msg.op /\ m.from = x.msg.from
          /\ m.tok = x.msg.tok /\ m.pw = x.msg.pw /\ m.new = x.msg.new
      BY <2>1, Abandoned
    <3> HIDE DEF m
    <3> QED
      BY <1>0, <2>1, <3>1, <3>2 DEF Proper, Vouched
  <2> QED
    BY <1>6, <2>2, <2>3
<1>8. HandlersOK'
  <2>1. reply' = [reply EXCEPT ![d] = {}]
    BY DEF HangUp
  <2>2. /\ reply' \in [Device -> SUBSET Answer]
        /\ \A e \in Device : \A r \in reply'[e] : r.ref <= Len(token')
    BY <1>0, <2>1 DEF HandlersOK
  <2> QED
    BY <1>6, <1>7, <2>2 DEF HandlersOK
<1>9. LimiterTypeOK' /\ TablesOK' /\ BudgetOK'
  <2>1. faults' = faults + 1 /\ UNCHANGED ops
    BY DEF HangUp, Fault
  <2> QED
    BY <1>0, <2>1 DEF LimiterTypeOK, TablesOK, BudgetOK
<1> QED
  BY <1>0, <1>5, <1>6, <1>8, <1>9 DEF TInv

LEMMA CrashKeeps ==
  ASSUME TInv, ServerCrash
  PROVE  TInv'
<1>0. /\ HandlersOK /\ ClientsOK /\ TablesOK /\ LimiterTypeOK /\ BudgetOK
      /\ UNCHANGED <<tables, client, overlapped, now, ops>>
      /\ UNCHANGED <<account, token, reset, done, dev, wire, late>>
      /\ Len(token) \in Nat
  BY DEF TInv, TablesOK, ServerCrash, Fault, tables, client
<1>1. LimiterTypeOK'
  <2>1. /\ hits' = [k \in Key |-> << >>] /\ cut' = [k \in Key |-> 0]
    BY DEF ServerCrash, Clear
  <2>2. << >> \in Seq(Nat) /\ Len(<< >>) = 0
    OBVIOUS
  <2>3. hits' \in [Key -> Seq(Nat)] /\ \A k \in Key : hits'[k] = << >>
    BY <2>1, <2>2
  <2>4. cut' \in [Key -> Nat] /\ \A k \in Key : cut'[k] = 0
    BY <2>1
  <2> QED
    BY <2>2, <2>3, <2>4 DEF LimiterTypeOK
<1>2. Code("error") \in Answer /\ Code("error").ref <= Len(token')
  BY <1>0, CodeType
<1>3. HandlersOK'
  <2>1. srv' = [s \in Session |-> Free]
    BY DEF ServerCrash
  <2>2. /\ srv' \in [Session -> Handler] /\ \A s \in Session : srv'[s] = Free
    BY <2>1, FreeType
  <2>3. Proper(Free.msg) /\ Free.st = "free"
    BY FreeType
  <2>4. \A s \in Session : Proper(srv[s].msg)' /\ Vouched(s)'
    BY <1>0, <2>2, <2>3 DEF Proper, Vouched
  <2> DEFINE a == Code("error")
             B(d) == \E s \in Session : srv[s].msg.from = d /\ srv[s].msg.live
  <2>5. reply' = [d \in Device |-> IF B(d) THEN {a} ELSE reply[d]]
    BY DEF ServerCrash
  <2>6. a \in Answer /\ a.ref <= Len(token')
    BY <1>2
  <2> HIDE DEF a, B
  <2>7. reply' \in [Device -> SUBSET Answer]
    BY <1>0, <2>5, <2>6 DEF HandlersOK
  <2>8. ASSUME NEW d \in Device, NEW r \in reply'[d] PROVE r.ref <= Len(token')
    BY <1>0, <2>5, <2>6, <2>8 DEF HandlersOK
  <2> QED
    BY <2>2, <2>4, <2>7, <2>8 DEF HandlersOK
<1>4. ClientsOK'
  <2>1. \A m : Proper(m) => Proper(m)'
    BY <1>0 DEF Proper
  <2> QED
    BY <1>0, <2>1 DEF ClientsOK
<1>5. TablesOK' /\ BudgetOK'
  <2>1. faults' = faults + 1
    BY DEF ServerCrash, Fault
  <2> QED
    BY <1>0, <2>1 DEF TablesOK, BudgetOK
<1> QED
  BY <1>1, <1>3, <1>4, <1>5 DEF TInv

LEMMA TickKeeps ==
  ASSUME TInv, Tick
  PROVE  TInv'
<1>0. /\ HandlersOK /\ ClientsOK /\ TablesOK /\ LimiterTypeOK /\ BudgetOK
      /\ UNCHANGED <<hits, cut, account, token, reset, done, dev, wire, late>>
      /\ UNCHANGED <<srv, reply, ops, faults, overlapped>> /\ now' = now + 1
  BY DEF TInv, Tick, limiterVars, tables, client
<1>1. \A m : Proper(m) => Proper(m)'
  BY <1>0 DEF Proper
<1>2. HandlersOK'
  <2>1. \A s \in Session : Proper(srv[s].msg)' /\ Vouched(s)'
    BY <1>0 DEF HandlersOK, Proper, Vouched
  <2> QED
    BY <1>0, <2>1 DEF HandlersOK
<1>3. ClientsOK'
  BY <1>0, <1>1 DEF ClientsOK
<1>4. LimiterTypeOK' /\ TablesOK' /\ BudgetOK'
  BY <1>0 DEF LimiterTypeOK, TablesOK, BudgetOK
<1> QED
  BY <1>2, <1>3, <1>4 DEF TInv

LEMMA IdleKeeps ==
  ASSUME TInv, UNCHANGED vars
  PROVE  TInv'
<1>0. /\ HandlersOK /\ ClientsOK /\ TablesOK /\ LimiterTypeOK /\ BudgetOK
      /\ UNCHANGED <<hits, cut, account, token, reset, done, dev, wire, late>>
      /\ UNCHANGED <<srv, reply, now, ops, faults, overlapped>>
  BY DEF TInv, vars, limiterVars, tables, client, budget
<1>1. \A m : Proper(m) => Proper(m)'
  BY <1>0 DEF Proper
<1>2. HandlersOK'
  <2>1. \A s \in Session : Proper(srv[s].msg)' /\ Vouched(s)'
    BY <1>0 DEF HandlersOK, Proper, Vouched
  <2> QED
    BY <1>0, <2>1 DEF HandlersOK
<1>3. ClientsOK'
  BY <1>0, <1>1 DEF ClientsOK
<1>4. LimiterTypeOK' /\ TablesOK' /\ BudgetOK'
  BY <1>0 DEF LimiterTypeOK, TablesOK, BudgetOK
<1> QED
  BY <1>2, <1>3, <1>4 DEF TInv

LEMMA InitTInv == Init => TInv
<1> SUFFICES ASSUME Init PROVE TInv
  OBVIOUS
<1>1. LimiterTypeOK
  <2>1. hits = [k \in Key |-> << >>] /\ cut = [k \in Key |-> 0]
    BY DEF Init, Empty
  <2>2. << >> \in Seq(Nat) /\ Len(<< >>) = 0
    OBVIOUS
  <2> QED
    BY <2>1, <2>2 DEF LimiterTypeOK
<1>2. TablesOK
  <2>1. account \in [User -> Account]
    <3>1. {[pw |-> 0, active |-> FALSE], [pw |-> 1, active |-> TRUE]} \subseteq Account
      BY DEF Account
    <3>2. account \in [User -> {[pw |-> 0, active |-> FALSE],
                                [pw |-> 1, active |-> TRUE]}]
      BY DEF Init
    <3> QED
      BY <3>1, <3>2
  <2>2. token = << >> /\ reset = << >>
    BY DEF Init
  <2>3. done \in [1 .. MaxOps -> Nat]
    BY DEF Init
  <2> QED
    BY <2>1, <2>2, <2>3 DEF TablesOK
<1>3. HandlersOK
  <2>1. /\ srv = [s \in Session |-> Free] /\ reply = [d \in Device |-> {}]
    BY DEF Init
  <2>2. Proper(Free.msg) /\ Free.st = "free" /\ Free \in Handler
    BY FreeType
  <2> QED
    BY <2>1, <2>2 DEF HandlersOK, Vouched
<1>4. ClientsOK
  <2> DEFINE h == [pc |-> "out", exp |-> 0, ref |-> 0, id |-> 0]
  <2>1. /\ dev = [d \in Device |-> h] /\ wire = [d \in Device |-> {}] /\ late = {}
    BY DEF Init
  <2>2. h \in Held /\ h.ref = 0
    BY DEF Held
  <2>3. Len(token) = 0
    BY DEF Init
  <2> HIDE DEF h
  <2> QED
    BY <2>1, <2>2, <2>3 DEF ClientsOK
<1>5. BudgetOK
  BY DEF Init, BudgetOK
<1> QED
  BY <1>1, <1>2, <1>3, <1>4, <1>5 DEF TInv

LEMMA TInvNext == TInv /\ [Next]_vars => TInv'
<1> SUFFICES ASSUME TInv, [Next]_vars PROVE TInv'
  OBVIOUS
<1>1. CASE \E d \in Device : SignIn(d) \/ StartCall(d) \/ Leave(d) \/ Receive(d)
  BY <1>1, ClientSteps
<1>2. CASE \E d \in Device : HangUp(d)
  BY <1>2, HangUpKeeps
<1>3. CASE \E s \in Session : (\E d \in Device : Serve(s, d)) \/ ServeLate(s)
  BY <1>3, ServeKeeps
<1>4. CASE \E s \in Session : Ask(s)
  BY <1>4, AskKeeps
<1>5. CASE \E s \in Session : HandlerStep(s)
  BY <1>5, HandlerStepKeeps
<1>6. CASE Tick
  BY <1>6, TickKeeps
<1>7. CASE ServerCrash
  BY <1>7, CrashKeeps
<1>8. CASE UNCHANGED vars
  BY <1>8, IdleKeeps
<1> QED
  BY <1>1, <1>2, <1>3, <1>4, <1>5, <1>6, <1>7, <1>8 DEF Next

-----------------------------------------------------------------------------
(* One handler at a time. *)

Alone ==
  \A s, t \in Session : s # t => srv[s] = Free \/ srv[t] = Free

AInv == TInv /\ (~overlapped => Alone)

LEMMA MoveFacts ==
  ASSUME TInv, NEW s \in Session, NEW st \in {"checked", "applied"}, Move(s, st)
  PROVE  /\ srv'[s].msg = srv[s].msg /\ srv'[s].st = st
         /\ \A t \in Session \ {s} : srv'[t] = srv[t]
<1> DEFINE x == srv[s]
           h == [x EXCEPT !.st = st, !.stamp = 0, !.seen = {}]
<1>1. x \in Handler /\ srv \in [Session -> Handler]
  BY DEF TInv, HandlersOK
<1>2. srv' = [srv EXCEPT ![s] = h]
  BY <1>1 DEF Move
<1> HIDE DEF x
<1>3. h.msg = x.msg /\ h.st = st
  BY <1>1, HandlerUpdate
<1> HIDE DEF h
<1> QED
  BY <1>1, <1>2, <1>3 DEF x

LEMMA CloseFacts ==
  ASSUME TInv, NEW s \in Session, NEW r, Close(s, r)
  PROVE  srv'[s] = Free /\ \A t \in Session \ {s} : srv'[t] = srv[t]
  BY DEF TInv, HandlersOK, Close

LEMMA GatherFacts ==
  ASSUME TInv, NEW s \in Session, Gather(s)
  PROVE  /\ \A t \in Session \ {s} : srv'[t] = srv[t]
         /\ \/ srv'[s] = Free /\ ~Strong(s)
            \/ /\ srv'[s].msg = srv[s].msg /\ srv'[s].st = "gathered"
               /\ srv'[s].seen = Active(srv[s].msg.user) /\ Strong(s)
<1>0. srv \in [Session -> Handler]
  BY DEF TInv, HandlersOK
<1>1. CASE Strong(s)
  <2> DEFINE x == srv[s]
             a == Active(x.msg.user)
             h == [x EXCEPT !.st = "gathered", !.seen = a]
  <2>1. srv' = [srv EXCEPT ![s] = h]
    BY <1>0, <1>1 DEF Gather
  <2>2. x \in Handler /\ a \in SUBSET Nat
    BY <1>0, ActiveNat
  <2> HIDE DEF x, a
  <2>3. h.msg = x.msg /\ h.st = "gathered" /\ h.seen = a
    BY <2>2, GatheredType
  <2> HIDE DEF h
  <2> QED
    BY <1>0, <1>1, <2>1, <2>3 DEF x, a
<1>2. CASE ~Strong(s)
  <2>1. Close(s, Code("error"))
    BY <1>2 DEF Gather
  <2> QED
    BY <1>2, <2>1, CloseFacts
<1> QED
  BY <1>1, <1>2

(* A step of a handler concerns that handler, which is open. *)
LEMMA StepOfOne ==
  ASSUME TInv, NEW s \in Session, HandlerStep(s)
  PROVE  /\ srv[s] # Free /\ UNCHANGED <<overlapped, now, faults>>
         /\ \A t \in Session \ {s} : srv'[t] = srv[t]
<1>1. srv[s].st # "free"
  BY DEF HandlerStep, CheckEmail, CreateUser, Throttle, CheckPassword,
         IssueToken, ReadToken, Rotate, Execute, CheckOldPassword, FindUser,
         ReadReset, Gather, ApplyPassword, MarkUsed, RequestReset, SetActive,
         RevokeAll, At
<1>2. \/ \E st \in {"checked", "applied"} : Move(s, st)
      \/ \E r : Close(s, r)
      \/ Gather(s)
  BY DEF HandlerStep, CheckEmail, CreateUser, Throttle, CheckPassword,
         IssueToken, ReadToken, Rotate, Execute, CheckOldPassword, FindUser,
         ReadReset, ApplyPassword, MarkUsed, RequestReset, SetActive,
         RevokeAll
<1>3. UNCHANGED <<overlapped, now, faults>>
  BY DEF HandlerStep, budget
<1> QED
  BY <1>1, <1>2, <1>3, FreeType, MoveFacts, CloseFacts, GatherFacts

LEMMA StepOfTheOnlyOne ==
  ASSUME AInv, NEW s \in Session, HandlerStep(s), ~overlapped'
  PROVE  /\ ~overlapped
         /\ \A t \in Session \ {s} : srv[t] = Free /\ srv'[t] = Free
  BY StepOfOne DEF AInv, Alone

LEMMA OpenAlone ==
  ASSUME TInv, NEW s \in Session, NEW q, Open(s, q), ~overlapped'
  PROVE  /\ \A t \in Session : srv[t] = Free
         /\ srv'[s] = [msg |-> q, stamp |-> IF q.op = "login" THEN now ELSE 0,
                       seen |-> {}, st |-> "start"]
         /\ \A t \in Session \ {s} : srv'[t] = Free
<1> DEFINE h == [msg |-> q, stamp |-> IF q.op = "login" THEN now ELSE 0,
                 seen |-> {}, st |-> "start"]
<1>1. srv' = [srv EXCEPT ![s] = h] /\ srv \in [Session -> Handler]
  BY DEF Open, TInv, HandlersOK
<1>2. \A t \in Session : srv[t] = Free
  BY DEF Open
<1> HIDE DEF h
<1> QED
  BY <1>1, <1>2 DEF h

(* A device that hangs up leaves no handler behind that was not open. *)
LEMMA HangUpHandlers ==
  ASSUME TInv, NEW d \in Device, HangUp(d), NEW s \in Session
  PROVE  /\ srv[s] = Free => srv'[s] = Free
         /\ srv'[s].st = srv[s].st /\ srv'[s].stamp = srv[s].stamp
         /\ srv'[s].seen = srv[s].seen
         /\ srv'[s].msg.op = srv[s].msg.op /\ srv'[s].msg.tok = srv[s].msg.tok
         /\ srv'[s].msg.user = srv[s].msg.user /\ srv'[s].msg.pw = srv[s].msg.pw
<1> DEFINE x == srv[s]
           m == [x.msg EXCEPT !.live = FALSE]
<1>0. x \in Handler /\ x.msg \in Message
  BY DEF TInv, HandlersOK, Handler
<1>1. srv'[s] = x \/ srv'[s] = [x EXCEPT !.msg.live = FALSE]
  BY HangUpKeeps
<1>2. CASE srv'[s] = [x EXCEPT !.msg.live = FALSE]
  <2>1. /\ srv'[s].msg = m /\ srv'[s].st = x.st
        /\ srv'[s].stamp = x.stamp /\ srv'[s].seen = x.seen
    BY <1>0, <1>2, AbandonedHandler
  <2>2. m.op = x.msg.op /\ m.tok = x.msg.tok /\ m.user = x.msg.user /\ m.pw = x.msg.pw
    BY <1>0, Abandoned
  <2>3. srv[s] = Free => srv'[s] = srv[s]
    <3>1. Free.msg.from = None /\ d # None
      BY AccountsAssumption DEF Free, Plain
    <3> QED
      BY <3>1 DEF HangUp
  <2> HIDE DEF m
  <2> QED
    BY <2>1, <2>2, <2>3
<1> QED
  BY <1>1, <1>2

LEMMA AInvNext == AInv /\ [Next]_vars => AInv'
<1> SUFFICES ASSUME AInv, [Next]_vars, ~overlapped' PROVE Alone'
  BY TInvNext DEF AInv
<1>0. TInv
  BY DEF AInv
<1>1. CASE \E d \in Device : SignIn(d) \/ StartCall(d) \/ Leave(d) \/ Receive(d)
  BY <1>0, <1>1, ClientSteps DEF AInv, Alone
<1>2. CASE \E d \in Device : HangUp(d)
  <2>1. ~overlapped
    BY <1>0, <1>2, HangUpKeeps
  <2> QED
    BY <1>0, <1>2, <2>1, HangUpHandlers DEF AInv, Alone
<1>3. CASE \E s \in Session : (\E d \in Device : Serve(s, d)) \/ ServeLate(s) \/ Ask(s)
  <2>1. PICK s \in Session : \E q : Open(s, q)
    BY <1>0, <1>3, ServeKeeps, AskKeeps
  <2>2. \A t \in Session \ {s} : srv'[t] = Free
    BY <1>0, <2>1, OpenAlone
  <2> QED
    BY <2>2 DEF Alone
<1>4. CASE \E s \in Session : HandlerStep(s)
  BY <1>4, StepOfTheOnlyOne DEF Alone
<1>5. CASE Tick \/ UNCHANGED vars
  BY <1>5 DEF Tick, vars, AInv, Alone
<1>6. CASE ServerCrash
  BY <1>6 DEF ServerCrash, Alone
<1> QED
  BY <1>1, <1>2, <1>3, <1>4, <1>5, <1>6 DEF Next

-----------------------------------------------------------------------------
(* The login window. *)

(* Seen from t, every hit is past and every pruned one out of the window. *)
HitsPast(t) ==
  \A k \in Key : \A i \in DOMAIN hits[k] :
    /\ hits[k][i] <= t
    /\ i <= cut[k] => hits[k][i] + Window < t

Paced ==
  \A k \in Key : \A i \in DOMAIN hits[k] :
    i + Limit \in DOMAIN hits[k] => hits[k][i + Limit] - hits[k][i] > Window

(* A login handler has read the clock after everything in the window. *)
ReadClock(s) ==
  At(s, "login", "start") =>
    /\ srv[s].stamp <= now
    /\ \A t \in Nat : srv[s].stamp = t => HitsPast(t)

WInv == ~overlapped => HitsPast(now) /\ Paced /\ \A s \in Session : ReadClock(s)

(* Admitting at t keeps the window. *)
LEMMA AdmitPaced ==
  ASSUME LimiterTypeOK, NEW k \in Key, NEW t \in Nat,
         HitsPast(t), Paced, Admit(k, t) \/ TurnAway(k, t)
  PROVE  Paced' /\ HitsPast(t)'
<1>0. /\ hits \in [Key -> Seq(Nat)] /\ cut \in [Key -> Nat]
      /\ Limit \in Nat \ {0} /\ Window \in Nat
      /\ \A j \in Key : Len(hits[j]) \in Nat /\ DOMAIN hits[j] = 1 .. Len(hits[j])
      /\ \A j \in Key : \A i \in DOMAIN hits[j] : hits[j][i] \in Nat
  BY LoginLimiterAssumption DEF LimiterTypeOK
<1>1. PICK n \in 0 .. Len(hits[k]) :
        /\ Prunes(k, t, n)
        /\ cut' = [cut EXCEPT ![k] = n]
        /\ \/ hits' = hits
           \/ /\ Len(hits[k]) - n < Limit
              /\ hits' = [hits EXCEPT ![k] = Append(hits[k], t)]
  BY DEF Admit, TurnAway
<1>2. \A i \in DOMAIN hits[k] : i <= n => hits[k][i] + Window < t
  <2>1. \A i \in DOMAIN hits[k] : i <= cut[k] => hits[k][i] + Window < t
    BY DEF HitsPast
  <2>2. \A i \in cut[k] + 1 .. n : hits[k][i] < t - Window
    BY <1>1 DEF Prunes
  <2> QED
    BY <1>0, <2>1, <2>2
<1>3. \A j \in Key : cut'[j] = IF j = k THEN n ELSE cut[j]
  BY <1>0, <1>1
<1>4. CASE hits' = hits
  BY <1>0, <1>2, <1>3, <1>4 DEF HitsPast, Paced
<1>5. CASE /\ Len(hits[k]) - n < Limit
           /\ hits' = [hits EXCEPT ![k] = Append(hits[k], t)]
  <2> DEFINE v == Append(hits[k], t)
             m == Len(hits[k])
  <2>1. /\ v \in Seq(Nat) /\ Len(v) = m + 1 /\ v[m + 1] = t
        /\ \A i \in 1 .. m : v[i] = hits[k][i]
    <3>1. hits[k] \in Seq(Nat)
      BY <1>0
    <3> QED
      BY <3>1, AppendFacts
  <2>2. \A j \in Key : hits'[j] = IF j = k THEN v ELSE hits[j]
    BY <1>0, <1>5
  <2> HIDE DEF v
  <2>3. DOMAIN v = 1 .. m + 1 /\ m \in Nat /\ n \in 0 .. m
    BY <1>0, <2>1
  <2>4. HitsPast(t)'
    <3>1. ASSUME NEW i \in DOMAIN v
          PROVE  v[i] <= t /\ (i <= n => v[i] + Window < t)
      <4>1. CASE i \in 1 .. m
        BY <1>0, <1>2, <2>1, <4>1 DEF HitsPast
      <4>2. CASE i = m + 1
        BY <2>1, <2>3, <4>2
      <4> QED
        BY <2>3, <4>1, <4>2
    <3> QED
      BY <1>3, <2>2, <3>1 DEF HitsPast
  <2>5. Paced'
    <3>1. ASSUME NEW i \in DOMAIN v, i + Limit \in DOMAIN v
          PROVE  v[i + Limit] - v[i] > Window
      <4>0. i \in 1 .. m
        BY <1>0, <2>3, <3>1
      <4>1. CASE i + Limit \in 1 .. m
        BY <1>0, <2>1, <4>0, <4>1 DEF Paced
      <4>2. CASE i + Limit = m + 1
        <5>1. i <= n
          BY <1>0, <1>5, <2>3, <4>0, <4>2
        <5>2. hits[k][i] + Window < t /\ hits[k][i] \in Nat
          BY <1>0, <1>2, <4>0, <5>1
        <5> DEFINE x == hits[k][i]
        <5>3. v[i] = x /\ v[i + Limit] = t
          BY <2>1, <4>0, <4>2
        <5>4. x + Window < t /\ x \in Nat
          BY <5>2
        <5> HIDE DEF x
        <5>5. t - x > Window
          BY <1>0, <5>4
        <5> QED
          BY <5>3, <5>5
      <4> QED
        BY <1>0, <2>3, <3>1, <4>1, <4>2
    <3> QED
      BY <2>2, <3>1 DEF Paced
  <2> QED
    BY <2>4, <2>5
<1> QED
  BY <1>1, <1>4, <1>5

LEMMA PastStays ==
  ASSUME LimiterTypeOK, NEW t \in Nat, NEW u \in Nat, t <= u, HitsPast(t)
  PROVE  HitsPast(u)
<1>1. /\ Window \in Nat
      /\ \A j \in Key : \A i \in DOMAIN hits[j] : hits[j][i] \in Nat
  BY LoginLimiterAssumption DEF LimiterTypeOK
<1>2. ASSUME NEW k \in Key, NEW i \in DOMAIN hits[k]
      PROVE  hits[k][i] <= u /\ (i <= cut[k] => hits[k][i] + Window < u)
  <2> DEFINE x == hits[k][i]
  <2>1. x \in Nat /\ x <= t /\ (i <= cut[k] => x + Window < t)
    BY <1>1, <1>2 DEF HitsPast
  <2> HIDE DEF x
  <2>2. x <= u /\ (i <= cut[k] => x + Window < u)
    BY <1>1, <2>1
  <2> QED
    BY <2>2 DEF x
<1> QED
  BY <1>2 DEF HitsPast

(* Steps that leave the limiter and the clock alone and begin no login. *)
LEMMA WindowKept ==
  ASSUME WInv, ~overlapped, UNCHANGED <<limiterVars, now>>,
         \A s \in Session : At(s, "login", "start")' =>
           At(s, "login", "start") /\ srv'[s].stamp = srv[s].stamp
  PROVE  WInv'
<1>1. UNCHANGED <<hits, cut>>
  BY DEF limiterVars
<1>2. HitsPast(now)' /\ Paced'
  BY <1>1 DEF WInv, HitsPast, Paced
<1>3. ASSUME NEW s \in Session PROVE ReadClock(s)'
  BY <1>1, <1>3 DEF WInv, ReadClock, HitsPast
<1> QED
  BY <1>2, <1>3 DEF WInv

LEMMA NotAtStart ==
  ASSUME TInv, NEW s \in Session, HandlerStep(s)
  PROVE  srv'[s].st # "start"
<1>2. \/ \E st \in {"checked", "applied"} : Move(s, st)
      \/ \E r : Close(s, r)
      \/ Gather(s)
  BY DEF HandlerStep, CheckEmail, CreateUser, Throttle, CheckPassword,
         IssueToken, ReadToken, Rotate, Execute, CheckOldPassword, FindUser,
         ReadReset, ApplyPassword, MarkUsed, RequestReset, SetActive,
         RevokeAll
<1> QED
  BY <1>2, FreeType, MoveFacts, CloseFacts, GatherFacts

LEMMA WInvNext == AInv /\ WInv /\ [Next]_vars => WInv'
<1> SUFFICES ASSUME AInv, WInv, [Next]_vars, ~overlapped' PROVE WInv'
  BY DEF WInv
<1>0. /\ TInv /\ AInv' /\ LimiterTypeOK /\ now \in Nat
      /\ \A s \in Session : srv[s].stamp \in Nat
  BY AInvNext DEF AInv, TInv, BudgetOK, HandlersOK, Handler
<1>1. CASE \E d \in Device : SignIn(d) \/ StartCall(d) \/ Leave(d) \/ Receive(d)
  <2>1. UNCHANGED <<limiterVars, srv, now, overlapped>>
    BY <1>0, <1>1, ClientSteps
  <2> QED
    BY <2>1, WindowKept DEF At
<1>2. CASE \E d \in Device : HangUp(d)
  <2>1. UNCHANGED <<limiterVars, now, overlapped>>
    BY <1>0, <1>2, HangUpKeeps
  <2>2. \A s \in Session : At(s, "login", "start")' =>
           At(s, "login", "start") /\ srv'[s].stamp = srv[s].stamp
    BY <1>0, <1>2, HangUpHandlers DEF At
  <2> QED
    BY <2>1, <2>2, WindowKept
<1>3. CASE \E s \in Session : (\E d \in Device : Serve(s, d)) \/ ServeLate(s) \/ Ask(s)
  <2>1. PICK s \in Session : \E q : Open(s, q)
    BY <1>0, <1>3, ServeKeeps, AskKeeps
  <2>2. PICK q : Open(s, q)
    BY <2>1
  <2>3. /\ ~overlapped /\ UNCHANGED <<hits, cut, now>>
    BY <1>3, <2>2
       DEF Open, Serve, ServeLate, Ask, Operate, limiterVars, budget
  <2>4. HitsPast(now)' /\ Paced' /\ HitsPast(now)
    BY <2>3 DEF WInv, HitsPast, Paced
  <2>5. ASSUME NEW t \in Session PROVE ReadClock(t)'
    <3>1. CASE t = s
      <4>1. /\ srv'[s].msg = q
            /\ srv'[s].stamp = IF q.op = "login" THEN now ELSE 0
        <5>1. srv'[s] = [msg |-> q, stamp |-> IF q.op = "login" THEN now ELSE 0,
                         seen |-> {}, st |-> "start"]
          BY <1>0, <2>2, OpenAlone
        <5> QED
          BY <5>1
      <4>2. ASSUME At(s, "login", "start")'
            PROVE  srv'[s].stamp <= now' /\ \A u \in Nat : srv'[s].stamp = u => HitsPast(u)'
        <5>1. srv'[s].stamp = now
          BY <4>1, <4>2 DEF At
        <5> QED
          BY <1>0, <2>3, <2>4, <5>1 DEF HitsPast
      <4> QED
        BY <3>1, <4>2 DEF ReadClock
    <3>2. CASE t # s
      <4>1. srv'[t] = Free
        BY <1>0, <2>2, <3>2, OpenAlone
      <4> QED
        BY <4>1, FreeType DEF ReadClock, At
    <3> QED
      BY <3>1, <3>2
  <2> QED
    BY <2>4, <2>5 DEF WInv
<1>4. CASE \E s \in Session : HandlerStep(s)
  <2>1. PICK s \in Session : HandlerStep(s)
    BY <1>4
  <2>2. /\ ~overlapped /\ UNCHANGED now /\ srv'[s].st # "start"
        /\ \A t \in Session \ {s} : srv[t] = Free /\ srv'[t] = Free
    BY <1>0, <2>1, StepOfTheOnlyOne, StepOfOne, NotAtStart
  <2>3. \A t \in Session : srv'[t].st # "start"
    BY <2>2, FreeType
  <2>4. CASE UNCHANGED limiterVars
    BY <2>2, <2>3, <2>4, WindowKept DEF At
  <2>5. CASE Throttle(s)
    <3>0. PICK k \in Key, u \in Nat : k = srv[s].msg.from /\ u = srv[s].stamp
      BY <1>0, <2>5, AccountsAssumption
         DEF Throttle, At, TInv, HandlersOK, Proper
    <3>1. At(s, "login", "start")
      BY <2>5 DEF Throttle
    <3>2. u <= now /\ HitsPast(u) /\ Paced
      BY <2>2, <3>0, <3>1 DEF WInv, ReadClock
    <3>3. Admit(k, u) \/ TurnAway(k, u)
      BY <2>5, <3>0 DEF Throttle
    <3>4. Paced' /\ HitsPast(u)'
      BY <1>0, <3>1, <3>2, <3>3, AdmitPaced
    <3>5. LimiterTypeOK' /\ now' \in Nat /\ u <= now'
      BY <1>0, <2>2, <3>2 DEF AInv, TInv
    <3>6. HitsPast(now)'
      <4> DEFINE n == now
      <4>0. n \in Nat /\ u <= n /\ now' = n
        BY <1>0, <2>2, <3>2
      <4> HIDE DEF n
      <4>1. /\ Window \in Nat
            /\ \A j \in Key : \A i \in DOMAIN hits'[j] : hits'[j][i] \in Nat
        BY <3>5, LoginLimiterAssumption DEF LimiterTypeOK
      <4>2. ASSUME NEW j \in Key, NEW i \in DOMAIN hits'[j]
            PROVE  /\ hits'[j][i] <= n
                   /\ i <= cut'[j] => hits'[j][i] + Window < n
        <5> DEFINE x == hits'[j][i]
        <5>1. x \in Nat /\ x <= u /\ (i <= cut'[j] => x + Window < u)
          BY <3>4, <4>1, <4>2 DEF HitsPast
        <5> HIDE DEF x
        <5>2. x <= n /\ (i <= cut'[j] => x + Window < n)
          BY <3>1, <4>0, <4>1, <5>1
        <5> QED
          BY <5>2 DEF x
      <4> QED
        BY <4>0, <4>2 DEF HitsPast
    <3>7. \A t \in Session : ReadClock(t)'
      BY <2>3 DEF ReadClock, At
    <3> QED
      BY <3>4, <3>6, <3>7 DEF WInv
  <2>6. UNCHANGED limiterVars \/ Throttle(s)
    BY <2>1 DEF HandlerStep, CheckEmail, CreateUser, CheckPassword,
         IssueToken, ReadToken, Rotate, Execute, CheckOldPassword, FindUser,
         ReadReset, Gather, ApplyPassword, MarkUsed, RequestReset, SetActive,
         RevokeAll
  <2> QED
    BY <2>4, <2>5, <2>6
<1>5. CASE Tick
  <2>0. /\ UNCHANGED <<hits, cut, srv, overlapped>> /\ now' = now + 1
    BY <1>5 DEF Tick, limiterVars
  <2> DEFINE n == now + 1
  <2>1. n \in Nat /\ now <= n /\ now' = n
    BY <1>0, <2>0
  <2> HIDE DEF n
  <2>2. HitsPast(n)
    BY <1>0, <2>0, <2>1, PastStays DEF WInv
  <2>3. HitsPast(now)' /\ Paced'
    BY <2>0, <2>1, <2>2 DEF WInv, HitsPast, Paced
  <2>4. ASSUME NEW s \in Session PROVE ReadClock(s)'
    <3>1. ASSUME At(s, "login", "start")
          PROVE  /\ srv[s].stamp <= n
                 /\ \A t \in Nat : srv[s].stamp = t => HitsPast(t)
      BY <1>0, <2>0, <2>1, <3>1 DEF WInv, ReadClock
    <3> QED
      BY <2>0, <2>1, <3>1 DEF ReadClock, At, HitsPast
  <2> QED
    BY <2>3, <2>4 DEF WInv
<1>6. CASE ServerCrash
  <2>1. /\ srv' = [s \in Session |-> Free]
        /\ hits' = [k \in Key |-> << >>]
    BY <1>6 DEF ServerCrash, Clear
  <2>2. HitsPast(now)' /\ Paced'
    BY <2>1 DEF HitsPast, Paced
  <2>3. \A s \in Session : ReadClock(s)'
    BY <2>1, FreeType DEF ReadClock, At
  <2> QED
    BY <2>2, <2>3 DEF WInv
<1>7. CASE UNCHANGED vars
  BY <1>7, WindowKept DEF vars, budget, At
<1> QED
  BY <1>1, <1>2, <1>3, <1>4, <1>5, <1>6, <1>7 DEF Next

LEMMA InitAW == Init => AInv /\ WInv
<1> SUFFICES ASSUME Init PROVE AInv /\ WInv
  OBVIOUS
<1>1. TInv
  BY InitTInv
<1>2. /\ \A s \in Session : srv[s] = Free
      /\ \A k \in Key : hits[k] = << >>
  BY DEF Init, Empty
<1>3. HitsPast(now) /\ Paced
  BY <1>2 DEF HitsPast, Paced
<1>4. \A s \in Session : ReadClock(s)
  BY <1>2, FreeType DEF ReadClock, At
<1> QED
  BY <1>1, <1>2, <1>3, <1>4 DEF AInv, WInv, Alone

(* The sliding window of the login limiter: as long as requests are        *)
(* handled one at a time, no more than Limit attempts of one key are       *)
(* admitted within any window, whatever Limit and Window are.              *)
THEOREM LoginsPaced == Spec => []WindowBound
<1>1. AInv /\ WInv => WindowBound
  BY DEF AInv, WInv, Paced, WindowBound
<1> QED
  BY <1>1, InitAW, AInvNext, WInvNext, PTL DEF Spec

-----------------------------------------------------------------------------
(* The tokens that are valid. *)

Heirs ==
  \A i, j \in DOMAIN token :
    (token[i].chain = token[j].chain /\ ~token[i].revoked
       /\ ~token[j].revoked) => i = j

Current ==
  \A i \in DOMAIN token :
    ~token[i].revoked => token[i].under = account[token[i].user].pw

(* What a lone handler has read is still so. *)
Ready(s) ==
  /\ At(s, "refresh", "checked") => ~token[srv[s].msg.tok].revoked
  /\ At(s, "login", "applied") => account[srv[s].msg.user].pw = srv[s].msg.pw
  /\ At(s, "register", "applied") => account[srv[s].msg.user].pw = 1
  /\ srv[s].st = "gathered" => srv[s].seen = Active(srv[s].msg.user)

KInv ==
  ~overlapped => Heirs /\ Current /\ \A s \in Session : Ready(s)

LEMMA TokenFacts ==
  ASSUME TInv
  PROVE  /\ token \in Seq(Token) /\ Len(token) \in Nat
         /\ DOMAIN token = 1 .. Len(token)
         /\ \A i \in DOMAIN token :
              /\ token[i] \in Token /\ token[i].user \in User
              /\ token[i].chain \in Nat /\ token[i].chain <= i
              /\ token[i].under \in Nat /\ token[i].under # 0
              /\ token[i].revoked \in BOOLEAN
         /\ account \in [User -> Account]
         /\ \A u \in User : account[u].pw \in Nat /\ account[u].active \in BOOLEAN
         /\ \A s \in Session : srv[s].msg.user \in User /\ Proper(srv[s].msg)
<1>1. token \in Seq(Token) /\ TablesOK /\ HandlersOK
  BY DEF TInv, TablesOK
<1>2. Len(token) \in Nat /\ DOMAIN token = 1 .. Len(token)
  BY <1>1
<1>3. ASSUME NEW i \in DOMAIN token
      PROVE  /\ token[i] \in Token /\ token[i].user \in User
             /\ token[i].chain \in Nat /\ token[i].chain <= i
             /\ token[i].under \in Nat /\ token[i].under # 0
             /\ token[i].revoked \in BOOLEAN
  <2>1. token[i] \in Token
    BY <1>1
  <2> QED
    BY <1>1, <2>1 DEF TablesOK, Token
<1>4. \A u \in User : account[u].pw \in Nat /\ account[u].active \in BOOLEAN
  BY <1>1 DEF TablesOK, Account
<1>5. \A s \in Session : srv[s].msg.user \in User /\ Proper(srv[s].msg)
  BY <1>1 DEF HandlersOK, Handler, Message
<1> QED
  BY <1>1, <1>2, <1>3, <1>4, <1>5 DEF TablesOK

LEMMA FreeReady ==
  ASSUME NEW s \in Session, srv[s] = Free
  PROVE  Ready(s)
  BY FreeType DEF Ready, At

(* Nothing about tokens and passwords is written. *)
LEMMA TokensKept ==
  ASSUME Heirs, Current, UNCHANGED <<account, token>>
  PROVE  Heirs' /\ Current'
  BY DEF Heirs, Current

LEMMA ReadsReady ==
  ASSUME TInv, NEW s \in Session,
         \/ Looks(s) \/ Throttle(s) \/ Execute(s) \/ Gather(s)
         \/ MarkUsed(s) \/ RequestReset(s)
  PROVE  UNCHANGED <<account, token>> /\ (srv'[s] # Free => Ready(s)')
<1>0. UNCHANGED <<account, token>>
  BY DEF Looks, CheckEmail, Throttle, CheckPassword, ReadToken, Execute,
         CheckOldPassword, FindUser, ReadReset, Gather, MarkUsed,
         RequestReset, tables
<1>1. CASE \E r : Close(s, r)
  BY <1>0, <1>1, CloseFacts
<1>2. CASE Gather(s)
  <2>1. CASE srv'[s].msg = srv[s].msg /\ srv'[s].st = "gathered"
             /\ srv'[s].seen = Active(srv[s].msg.user)
    BY <1>0, <2>1 DEF Ready, At, Active
  <2> QED
    BY <1>0, <1>2, <2>1, GatherFacts
<1>3. CASE CheckPassword(s)
  <2>1. CASE Move(s, "applied") /\ Knows(srv[s].msg.user, srv[s].msg.pw)
    <3>1. srv'[s].msg = srv[s].msg /\ srv'[s].st = "applied" /\ srv[s].msg.op = "login"
      BY <1>3, <2>1, MoveFacts DEF CheckPassword, At
    <3> QED
      BY <1>0, <2>1, <3>1 DEF Ready, At, Knows
  <2> QED
    BY <1>1, <1>3, <2>1 DEF CheckPassword
<1>4. CASE ReadToken(s)
  <2>1. CASE Move(s, "checked") /\ ~token[srv[s].msg.tok].revoked
    <3>1. srv'[s].msg = srv[s].msg /\ srv'[s].st = "checked"
      BY <2>1, MoveFacts
    <3> QED
      BY <1>0, <2>1, <3>1 DEF Ready, At
  <2> QED
    BY <1>1, <1>4, <2>1 DEF ReadToken
<1>5. CASE \/ CheckEmail(s) \/ Throttle(s) \/ CheckOldPassword(s)
           \/ FindUser(s) \/ ReadReset(s)
  <2>1. CASE Move(s, "checked") /\ srv[s].msg.op # "refresh"
    <3>1. srv'[s].msg = srv[s].msg /\ srv'[s].st = "checked"
      BY <2>1, MoveFacts
    <3> QED
      BY <1>0, <2>1, <3>1 DEF Ready, At
  <2> QED
    BY <1>1, <1>5, <2>1
       DEF CheckEmail, Throttle, CheckOldPassword, FindUser, ReadReset, At
<1>6. CASE Execute(s) \/ MarkUsed(s) \/ RequestReset(s)
  BY <1>1, <1>6 DEF Execute, MarkUsed, RequestReset
<1> QED
  BY <1>2, <1>3, <1>4, <1>5, <1>6 DEF Looks

LEMMA CreateReady ==
  ASSUME TInv, Heirs, Current, NEW s \in Session, CreateUser(s)
  PROVE  Heirs' /\ Current' /\ (srv'[s] # Free => Ready(s)')
<1> DEFINE u == srv[s].msg.user
<1>0. UNCHANGED token /\ u \in User
  BY TokenFacts DEF CreateUser
<1>1. Heirs'
  BY <1>0 DEF Heirs
<1>2. CASE account[u].pw = 0
  <2> DEFINE a == [pw |-> 1, active |-> TRUE]
  <2>1. account' = [account EXCEPT ![u] = a] /\ Move(s, "applied")
    BY <1>2 DEF CreateUser
  <2>2. \A v \in User : account'[v] = IF v = u THEN a ELSE account[v]
    BY <2>1, TokenFacts
  <2>3. Current'
    <3>1. ASSUME NEW i \in DOMAIN token, ~token[i].revoked
          PROVE  token[i].under = account'[token[i].user].pw
      <4>1. token[i].under = account[token[i].user].pw /\ token[i].under # 0
            /\ token[i].user \in User
        BY <3>1, TokenFacts DEF Current
      <4>2. token[i].user # u
        BY <1>2, <4>1
      <4> QED
        BY <2>2, <4>1, <4>2
    <3> QED
      BY <1>0, <3>1 DEF Current
  <2>4. Ready(s)'
    <3>1. srv'[s].msg = srv[s].msg /\ srv'[s].st = "applied"
          /\ srv[s].msg.op = "register"
      BY <2>1, MoveFacts DEF CreateUser, At
    <3>2. account'[u].pw = 1 /\ account'[u].active
      BY <1>0, <2>2
    <3> QED
      BY <3>1, <3>2 DEF Ready, At
  <2> QED
    BY <1>1, <2>3, <2>4
<1>3. CASE account[u].pw # 0
  <2>1. UNCHANGED account /\ Close(s, Code("error"))
    BY <1>3 DEF CreateUser
  <2> QED
    BY <1>0, <2>1, CloseFacts, TokensKept
<1> QED
  BY <1>2, <1>3

LEMMA NewTokenFields ==
  ASSUME NEW u, NEW chain, NEW under
  PROVE  /\ NewToken(u, chain, under).user = u
         /\ NewToken(u, chain, under).chain = chain
         /\ NewToken(u, chain, under).under = under
         /\ ~NewToken(u, chain, under).revoked
  BY DEF NewToken

LEMMA IssueReady ==
  ASSUME TInv, Heirs, Current, NEW s \in Session, Ready(s), IssueToken(s)
  PROVE  Heirs' /\ Current' /\ srv'[s] = Free
<1> DEFINE q == srv[s].msg
           n == Len(token) + 1
           w == IF q.op = "login" THEN q.pw ELSE 1
           t == NewToken(q.user, n, w)
<1>0. /\ n \in Nat /\ Len(token) \in Nat /\ q.user \in User
      /\ DOMAIN token = 1 .. Len(token) /\ token \in Seq(Token)
  BY TokenFacts
<1>1. w = account[q.user].pw /\ w \in Nat
  BY TokenFacts DEF IssueToken, Ready, At
<1>2. token' = Append(token, t) /\ UNCHANGED account /\ srv'[s] = Free
  BY CloseFacts DEF IssueToken
<1> HIDE DEF w
<1>3. t \in Token
  <2> HIDE DEF n
  <2> QED
    BY <1>0, <1>1, NewTokenType
<1>4. t.user = q.user /\ t.chain = n /\ t.under = w /\ ~t.revoked
  BY NewTokenFields
<1> HIDE DEF t
<1>5. /\ DOMAIN token' = 1 .. n /\ token'[n] = t
      /\ \A i \in DOMAIN token : token'[i] = token[i]
  <2> DEFINE v == Append(token, t)
  <2>1. /\ v \in Seq(Token) /\ Len(v) = n /\ v[n] = t
        /\ \A i \in 1 .. Len(token) : v[i] = token[i]
    BY <1>0, <1>3, AppendFacts
  <2> HIDE DEF v
  <2>2. DOMAIN v = 1 .. n
    BY <2>1
  <2> QED
    BY <1>0, <1>2, <2>1, <2>2 DEF v
<1>6. \A i \in DOMAIN token : token[i].chain # n
  BY <1>0, TokenFacts
<1>7. \A i \in 1 .. n : i \in DOMAIN token \/ i = n
  BY <1>0
<1> HIDE DEF n
<1>8. Heirs'
  BY <1>4, <1>5, <1>6, <1>7 DEF Heirs
<1>9. Current'
  BY <1>1, <1>2, <1>4, <1>5, <1>7 DEF Current
<1> QED
  BY <1>2, <1>8, <1>9

LEMMA RotateReady ==
  ASSUME TInv, Heirs, Current, NEW s \in Session, Ready(s), Rotate(s)
  PROVE  Heirs' /\ Current' /\ srv'[s] = Free
<1> DEFINE k == srv[s].msg.tok
           n == Len(token) + 1
           v == [token EXCEPT ![k] = Rotated(token[k])]
           t == NewToken(token[k].user, token[k].chain, token[k].under)
<1>0. /\ n \in Nat /\ Len(token) \in Nat
      /\ DOMAIN token = 1 .. Len(token) /\ token \in Seq(Token)
  BY TokenFacts
<1>1. k \in DOMAIN token /\ ~token[k].revoked
  <2>1. At(s, "refresh", "checked") /\ Proper(srv[s].msg)
    BY TokenFacts DEF Rotate
  <2> QED
    BY <2>1 DEF Proper, Ready, At
<1>2. token' = Append(v, t) /\ UNCHANGED account /\ srv'[s] = Free
  BY CloseFacts DEF Rotate
<1>3. /\ v \in Seq(Token) /\ Len(v) = Len(token)
      /\ \A i \in DOMAIN token :
           /\ v[i].chain = token[i].chain /\ v[i].under = token[i].under
           /\ v[i].user = token[i].user
           /\ v[i].revoked = (i = k \/ token[i].revoked)
  BY <1>1, RotatedTable
<1>4. /\ t \in Token /\ t.chain = token[k].chain
      /\ t.under = token[k].under /\ t.user = token[k].user /\ ~t.revoked
  <2> DEFINE x == token[k]
  <2>1. x.user \in User /\ x.chain \in Nat /\ x.under \in Nat
    BY <1>1, TokenFacts
  <2> HIDE DEF x
  <2>2. NewToken(x.user, x.chain, x.under) \in Token
    BY <2>1, NewTokenType
  <2> QED
    BY <2>2, NewTokenFields DEF x
<1> HIDE DEF t, v
<1>5. /\ DOMAIN token' = 1 .. n /\ token'[n] = t
      /\ \A i \in DOMAIN token : token'[i] = v[i]
  <2> DEFINE z == Append(v, t)
  <2>1. /\ z \in Seq(Token) /\ Len(z) = n /\ z[n] = t
        /\ \A i \in 1 .. Len(token) : z[i] = v[i]
    BY <1>0, <1>3, <1>4, AppendFacts
  <2> HIDE DEF z
  <2>2. DOMAIN z = 1 .. n
    BY <2>1
  <2> QED
    BY <1>0, <1>2, <2>1, <2>2 DEF z
<1>6. \A i \in 1 .. n : i \in DOMAIN token \/ i = n
  BY <1>0
<1> HIDE DEF n, k
<1>7. \A i \in DOMAIN token :
        ~token'[i].revoked => ~token[i].revoked /\ token[i].chain # token[k].chain
  BY <1>1, <1>3, <1>5 DEF Heirs
<1>8. Heirs'
  <2> SUFFICES ASSUME NEW i \in DOMAIN token', NEW j \in DOMAIN token',
                      token'[i].chain = token'[j].chain,
                      ~token'[i].revoked, ~token'[j].revoked
               PROVE  i = j
    BY DEF Heirs
  <2>1. CASE i \in DOMAIN token /\ j \in DOMAIN token
    BY <1>3, <1>5, <1>7, <2>1 DEF Heirs
  <2>2. CASE i = n /\ j \in DOMAIN token
    BY <1>3, <1>4, <1>5, <1>7, <2>2
  <2>3. CASE j = n /\ i \in DOMAIN token
    BY <1>3, <1>4, <1>5, <1>7, <2>3
  <2>4. CASE i = n /\ j = n
    BY <2>4
  <2> QED
    BY <1>5, <1>6, <2>1, <2>2, <2>3, <2>4
<1>9. Current'
  <2>1. ASSUME NEW i \in DOMAIN token', ~token'[i].revoked
        PROVE  token'[i].under = account[token'[i].user].pw
    <3>1. CASE i \in DOMAIN token
      BY <1>3, <1>5, <1>7, <2>1, <3>1 DEF Current
    <3>2. CASE i = n
      BY <1>1, <1>4, <1>5, <3>2 DEF Current
    <3> QED
      BY <1>5, <1>6, <3>1, <3>2
  <2> QED
    BY <1>2, <2>1 DEF Current
<1> QED
  BY <1>2, <1>8, <1>9

(* Revoking what was gathered leaves the user no valid token. *)
LEMMA RevokeEnds ==
  ASSUME TInv, NEW s \in Session, Revoke(s), srv[s].st = "gathered", Ready(s)
  PROVE  /\ DOMAIN token' = DOMAIN token
         /\ \A i \in DOMAIN token :
              /\ token'[i].chain = token[i].chain
              /\ token'[i].under = token[i].under
              /\ token'[i].user = token[i].user
              /\ ~token'[i].revoked =>
                   ~token[i].revoked /\ token[i].user # srv[s].msg.user
<1> DEFINE u == srv[s].msg.user
<1>1. srv[s].seen = Active(u)
  BY DEF Ready
<1>2. /\ DOMAIN token' = DOMAIN token
      /\ \A i \in DOMAIN token :
           /\ token'[i].chain = token[i].chain
           /\ token'[i].under = token[i].under
           /\ token'[i].user = token[i].user
           /\ token'[i].revoked = (token[i].revoked \/ i \in Active(u))
  BY <1>1, RevokedTable
<1>3. \A i \in DOMAIN token : token[i].revoked \in BOOLEAN
  BY TokenFacts
<1> QED
  BY <1>2, <1>3 DEF Active

LEMMA ApplyReady ==
  ASSUME TInv, Heirs, Current, NEW s \in Session, Ready(s),
         ApplyPassword(s) \/ RevokeAll(s)
  PROVE  Heirs' /\ Current' /\ (srv'[s] # Free => Ready(s)')
<1> DEFINE q == srv[s].msg
<1>1. PICK u \in User : u = q.user
  BY TokenFacts
<1>2. /\ DOMAIN token' = DOMAIN token
      /\ \A i \in DOMAIN token :
           /\ token'[i].chain = token[i].chain
           /\ token'[i].under = token[i].under
           /\ token'[i].user = token[i].user
           /\ ~token'[i].revoked => ~token[i].revoked /\ token[i].user # u
  <2>1. Revoke(s) /\ srv[s].st = "gathered"
    BY DEF ApplyPassword, RevokeAll, At
  <2> QED
    BY <1>1, <2>1, RevokeEnds
<1>3. \A v \in User : v # u => account'[v].pw = account[v].pw
  <2> DEFINE n == account[u].pw + 1
  <2>1. account' = account \/ account' = [account EXCEPT ![u].pw = n]
    BY <1>1 DEF ApplyPassword, RevokeAll
  <2> HIDE DEF n
  <2>2. account \in [User -> Account]
    BY TokenFacts
  <2> QED
    BY <2>1, <2>2
<1>4. Heirs'
  BY <1>2 DEF Heirs
<1>5. Current'
  <2>1. ASSUME NEW i \in DOMAIN token, ~token'[i].revoked
        PROVE  token'[i].under = account'[token'[i].user].pw
    <3>1. token[i].user \in User
      BY TokenFacts
    <3> QED
      BY <1>2, <1>3, <2>1, <3>1 DEF Current
  <2> QED
    BY <1>2, <2>1 DEF Current
<1>6. srv'[s] = Free \/ Ready(s)'
  <2>1. CASE \E r : Close(s, r)
    BY <2>1, CloseFacts
  <2>2. CASE Move(s, "applied") /\ q.op = "confirm"
    <3>1. srv'[s].msg = q /\ srv'[s].st = "applied"
      BY <2>2, MoveFacts
    <3> QED
      BY <2>2, <3>1 DEF Ready, At
  <2> QED
    BY <2>1, <2>2 DEF ApplyPassword, RevokeAll
<1> QED
  BY <1>4, <1>5, <1>6

LEMMA SetActiveReady ==
  ASSUME TInv, Heirs, Current, NEW s \in Session, SetActive(s)
  PROVE  Heirs' /\ Current' /\ (srv'[s] # Free => Ready(s)')
<1> DEFINE u == srv[s].msg.user
           b == srv[s].msg.op = "on"
<1>1. UNCHANGED token
  BY DEF SetActive
<1>2. \A v \in User : account'[v].pw = account[v].pw
  <2>1. account' = account \/ account' = [account EXCEPT ![u].active = b]
    BY DEF SetActive
  <2>2. account \in [User -> Account]
    BY TokenFacts
  <2> HIDE DEF u, b
  <2>3. \A v \in User : account[v] \in Account
    BY <2>2
  <2> QED
    BY <2>1, <2>2, <2>3 DEF Account
<1>3. Heirs' /\ Current'
  BY <1>1, <1>2, TokenFacts DEF Heirs, Current
<1>4. CASE Move(s, "checked") /\ srv[s].msg.op = "off"
  <2>1. srv'[s].msg = srv[s].msg /\ srv'[s].st = "checked"
    BY <1>4, MoveFacts
  <2> QED
    BY <1>3, <1>4, <2>1 DEF Ready, At
<1>5. CASE \E r : Close(s, r)
  BY <1>3, <1>5, CloseFacts
<1> QED
  BY <1>4, <1>5 DEF SetActive

LEMMA HandlerReady ==
  ASSUME TInv, Heirs, Current, NEW s \in Session, Ready(s), HandlerStep(s)
  PROVE  Heirs' /\ Current' /\ (srv'[s] # Free => Ready(s)')
<1>1. CASE \/ Looks(s) \/ Throttle(s) \/ Execute(s) \/ Gather(s)
           \/ MarkUsed(s) \/ RequestReset(s)
  BY <1>1, ReadsReady, TokensKept
<1>2. CASE CreateUser(s)
  BY <1>2, CreateReady
<1>3. CASE IssueToken(s)
  BY <1>3, IssueReady
<1>4. CASE Rotate(s)
  BY <1>4, RotateReady
<1>5. CASE ApplyPassword(s) \/ RevokeAll(s)
  BY <1>5, ApplyReady
<1>6. CASE SetActive(s)
  BY <1>6, SetActiveReady
<1> QED
  BY <1>1, <1>2, <1>3, <1>4, <1>5, <1>6 DEF HandlerStep, Looks

(* No step but a handler's writes tokens or passwords. *)
LEMMA ElsewhereReady ==
  ASSUME AInv, [Next]_vars, ~overlapped',
         ~\E s \in Session : HandlerStep(s)
  PROVE  /\ ~overlapped /\ UNCHANGED <<account, token, reset, done>>
         /\ \A s \in Session :
              \/ srv'[s] = Free
              \/ srv'[s].st = "start" /\ srv'[s].seen = {}
              \/ /\ srv'[s].st = srv[s].st /\ srv'[s].seen = srv[s].seen
                 /\ srv'[s].msg.op = srv[s].msg.op
                 /\ srv'[s].msg.tok = srv[s].msg.tok
                 /\ srv'[s].msg.user = srv[s].msg.user
                 /\ srv'[s].msg.pw = srv[s].msg.pw
<1>0. TInv
  BY DEF AInv
<1>1. CASE \E d \in Device : SignIn(d) \/ StartCall(d) \/ Leave(d) \/ Receive(d)
  BY <1>0, <1>1, ClientSteps DEF tables
<1>2. CASE \E d \in Device : HangUp(d)
  BY <1>0, <1>2, HangUpKeeps, HangUpHandlers DEF tables
<1>3. CASE \E s \in Session : (\E d \in Device : Serve(s, d)) \/ ServeLate(s) \/ Ask(s)
  <2>1. PICK s \in Session : \E q : Open(s, q)
    BY <1>0, <1>3, ServeKeeps, AskKeeps
  <2>2. PICK q : Open(s, q)
    BY <2>1
  <2>3. ~overlapped /\ UNCHANGED <<account, token, reset, done>>
    BY <1>3, <2>2 DEF Open, Serve, ServeLate, Ask, tables
  <2>4. /\ srv'[s] = [msg |-> q, stamp |-> IF q.op = "login" THEN now ELSE 0,
                      seen |-> {}, st |-> "start"]
        /\ \A t \in Session \ {s} : srv'[t] = Free
    BY <1>0, <2>2, OpenAlone
  <2>5. srv'[s].st = "start" /\ srv'[s].seen = {}
    BY <2>4
  <2> QED
    BY <2>3, <2>4, <2>5
<1>4. CASE Tick \/ UNCHANGED vars
  BY <1>4 DEF Tick, vars, tables
<1>5. CASE ServerCrash
  BY <1>5 DEF ServerCrash, tables
<1> QED
  BY <1>1, <1>2, <1>3, <1>4, <1>5 DEF Next

LEMMA KInvNext == AInv /\ KInv /\ [Next]_vars => KInv'
<1> SUFFICES ASSUME AInv, KInv, [Next]_vars, ~overlapped' PROVE KInv'
  BY DEF KInv
<1>0. TInv
  BY DEF AInv
<1>1. CASE \E s \in Session : HandlerStep(s)
  <2>1. PICK s \in Session : HandlerStep(s)
    BY <1>1
  <2>2. /\ ~overlapped
        /\ \A t \in Session \ {s} : srv[t] = Free /\ srv'[t] = Free
    BY <2>1, StepOfTheOnlyOne
  <2>3. Heirs /\ Current /\ Ready(s)
    BY <2>2 DEF KInv
  <2>4. Heirs' /\ Current' /\ (srv'[s] # Free => Ready(s)')
    BY <1>0, <2>1, <2>3, HandlerReady
  <2>5. ASSUME NEW t \in Session PROVE Ready(t)'
    BY <2>2, <2>4, FreeType DEF Ready, At
  <2> QED
    BY <2>4, <2>5 DEF KInv
<1>2. CASE ~\E s \in Session : HandlerStep(s)
  <2>1. /\ ~overlapped /\ UNCHANGED <<account, token>>
    BY <1>2, ElsewhereReady
  <2>2. Heirs' /\ Current'
    BY <2>1, TokensKept DEF KInv
  <2>3. ASSUME NEW s \in Session PROVE Ready(s)'
    <3>1. Ready(s)
      BY <2>1 DEF KInv
    <3>2. CASE srv'[s] = Free \/ srv'[s].st = "start"
      BY <3>2, FreeType DEF Ready, At
    <3>3. CASE /\ srv'[s].st = srv[s].st /\ srv'[s].seen = srv[s].seen
               /\ srv'[s].msg.op = srv[s].msg.op
               /\ srv'[s].msg.tok = srv[s].msg.tok
               /\ srv'[s].msg.user = srv[s].msg.user
               /\ srv'[s].msg.pw = srv[s].msg.pw
      BY <2>1, <3>1, <3>3 DEF Ready, At, Active
    <3> QED
      BY <1>2, <3>2, <3>3, ElsewhereReady
  <2> QED
    BY <2>2, <2>3 DEF KInv
<1> QED
  BY <1>1, <1>2

LEMMA InitK == Init => KInv
<1> SUFFICES ASSUME Init PROVE KInv
  OBVIOUS
<1>1. token = << >> /\ \A s \in Session : srv[s] = Free
  BY DEF Init
<1> QED
  BY <1>1, FreeReady DEF KInv, Heirs, Current

LEMMA AlwaysK == Spec => [](AInv /\ KInv)
  BY InitAW, AInvNext, InitK, KInvNext, PTL DEF Spec

(* Rotation of refresh tokens: of the tokens that descend from one sign-in *)
(* at most one is valid, through lost answers, late requests and crashes   *)
(* at every commit, as long as no two requests overlap.                    *)
THEOREM OneHeir == Spec => []OneLiveHeir
<1>1. KInv => OneLiveHeir
  BY DEF KInv, Heirs, OneLiveHeir
<1> QED
  BY <1>1, AlwaysK, PTL

(* A new password ends every session: a valid token was given for the      *)
(* password its user has now, also when a handler died at one of its       *)
(* commits.                                                                *)
THEOREM ValidUnderPassword == Spec => []LiveUnderPassword
<1>1. KInv => LiveUnderPassword
  BY DEF KInv, Current, LiveUnderPassword
<1> QED
  BY <1>1, AlwaysK, PTL

-----------------------------------------------------------------------------
(* Deactivation and reset tokens, with every failure and any overlap.      *)

SlipsOK == crossed \subseteq User /\ torn \subseteq Nat

(* While u is deactivated and nothing slipped, a handler is about to list  *)
(* the valid tokens of u, or has listed them all, or there is none and     *)
(* none is being granted.                                                  *)
Listing(u) == \E s \in Session : Deactivates(s, u) /\ srv[s].st = "checked"

Listed(u) ==
  \E s \in Session :
    Deactivates(s, u) /\ srv[s].st = "gathered" /\ Active(u) \subseteq srv[s].seen

Ended(u) == Active(u) = {} /\ \A s \in Session : ~Granting(s, u)

Deactivated(u) ==
  /\ ~Crosses(u)
  /\ ~account[u].active => Listing(u) \/ Listed(u) \/ Ended(u)

(* A reset token that is not torn is held by one handler at a time; when   *)
(* it is not spent it has set no password, unless that handler is between  *)
(* its two commits.                                                        *)
Spends(s, i) == Redeems(s, i) /\ srv[s].st = "applied"

Whole(i) ==
  /\ \A s, t \in Session : Redeems(s, i) /\ Redeems(t, i) => s = t
  /\ i \in DOMAIN reset =>
       /\ reset[i].n <= 1
       /\ reset[i].used \/ reset[i].n = 0 \/ \E s \in Session : Spends(s, i)
       /\ \A s \in Session :
            Redeems(s, i) /\ srv[s].st # "applied" => reset[i].n = 0

FInv ==
  /\ TInv /\ SlipsOK
  /\ \A u \in User : u \in crossed \/ Deactivated(u)
  /\ \A i \in Nat : i \in torn \/ Whole(i)

(* What a step leaves of a handler that it does not advance; a handler     *)
(* that begins.                                                            *)
SameHandler(s) ==
  /\ srv'[s].st = srv[s].st /\ srv'[s].seen = srv[s].seen
  /\ srv'[s].msg.op = srv[s].msg.op /\ srv'[s].msg.tok = srv[s].msg.tok
  /\ srv'[s].msg.user = srv[s].msg.user

Begins(s) == srv[s].st = "free" /\ srv'[s].st = "start"

(* A step that is no handler's writes no table; it begins a handler,       *)
(* abandons one, or ends them all.                                         *)
LEMMA OutsideHandlers ==
  ASSUME TInv, [Next]_vars, ~\E s \in Session : HandlerStep(s)
  PROVE  /\ UNCHANGED <<account, token, reset>>
         /\ \/ ServerCrash /\ \A s \in Session : srv'[s].st = "free"
            \/ /\ UNCHANGED <<crossed, torn>>
               /\ \A s \in Session : SameHandler(s) \/ Begins(s)
<1>1. CASE \E d \in Device : SignIn(d) \/ StartCall(d) \/ Leave(d) \/ Receive(d)
  BY <1>1 DEF SignIn, StartCall, Leave, Receive, tables, slips, SameHandler
<1>2. CASE \E d \in Device : HangUp(d)
  <2>1. PICK d \in Device : HangUp(d)
    BY <1>2
  <2>2. UNCHANGED <<account, token, reset, crossed, torn>>
    BY <2>1 DEF HangUp, tables, slips
  <2>3. \A s \in Session : SameHandler(s)
    BY <2>1, HangUpHandlers DEF SameHandler
  <2> QED
    BY <2>2, <2>3
<1>3. CASE \E s \in Session : (\E d \in Device : Serve(s, d)) \/ ServeLate(s) \/ Ask(s)
  <2>1. PICK s \in Session : \E q : Open(s, q)
    BY <1>3, ServeKeeps, AskKeeps
  <2>2. PICK q : Open(s, q)
    BY <2>1
  <2>3. UNCHANGED <<account, token, reset, crossed, torn>>
    BY <1>3 DEF Serve, ServeLate, Ask, tables, slips
  <2> DEFINE h == [msg |-> q, stamp |-> IF q.op = "login" THEN now ELSE 0,
                   seen |-> {}, st |-> "start"]
  <2>4. srv' = [srv EXCEPT ![s] = h] /\ srv \in [Session -> Handler]
    BY <2>2 DEF Open, TInv, HandlersOK
  <2>5. h.st = "start" /\ srv[s].st = "free"
    BY <2>2, FreeType DEF Open
  <2> HIDE DEF h
  <2>6. Begins(s) /\ \A t \in Session \ {s} : srv'[t] = srv[t]
    BY <2>4, <2>5 DEF Begins
  <2>7. \A t \in Session \ {s} : SameHandler(t)
    BY <2>6 DEF SameHandler
  <2> QED
    BY <2>3, <2>6, <2>7
<1>4. CASE Tick \/ UNCHANGED vars
  BY <1>4 DEF Tick, vars, tables, slips, SameHandler
<1>5. CASE ServerCrash
  BY <1>5, FreeType DEF ServerCrash, tables
<1> QED
  BY <1>1, <1>2, <1>3, <1>4, <1>5 DEF Next

(* A handler leaves the others alone and keeps the request it serves. *)
LEMMA HandlerGoesOn ==
  ASSUME TInv, NEW s \in Session, HandlerStep(s)
  PROVE  /\ \A t \in Session \ {s} : srv'[t] = srv[t] /\ SameHandler(t)
         /\ \/ srv'[s].st = "free"
            \/ srv'[s].msg = srv[s].msg /\ srv'[s].st \in {"checked", "applied", "gathered"}
<1>1. \/ \E st \in {"checked", "applied"} : Move(s, st)
      \/ \E r : Close(s, r)
      \/ Gather(s)
  BY DEF HandlerStep, CheckEmail, CreateUser, Throttle, CheckPassword,
         IssueToken, ReadToken, Rotate, Execute, CheckOldPassword, FindUser,
         ReadReset, ApplyPassword, MarkUsed, RequestReset, SetActive,
         RevokeAll
<1>2. \A t \in Session \ {s} : srv'[t] = srv[t] /\ SameHandler(t)
  BY StepOfOne DEF SameHandler
<1>3. CASE \E st \in {"checked", "applied"} : Move(s, st)
  BY <1>2, <1>3, MoveFacts
<1>4. CASE \E r : Close(s, r)
  BY <1>2, <1>4, CloseFacts, FreeType
<1>5. CASE Gather(s)
  BY <1>2, <1>5, GatherFacts, FreeType
<1> QED
  BY <1>1, <1>3, <1>4, <1>5

LEMMA SlipsNext ==
  ASSUME TInv, SlipsOK, [Next]_vars
  PROVE  SlipsOK'
<1>1. TInv'
  BY TInvNext
<1>2. DOMAIN reset \subseteq Nat /\ DOMAIN reset' \subseteq Nat
  BY <1>1 DEF TInv, TablesOK
<1>3. CASE \E s \in Session : HandlerStep(s)
  BY <1>2, <1>3 DEF HandlerStep, Noted, SlipsOK
<1>4. CASE ~\E s \in Session : HandlerStep(s)
  BY <1>2, <1>4, OutsideHandlers DEF SlipsOK, ServerCrash
<1> QED
  BY <1>3, <1>4

-----------------------------------------------------------------------------
(* Deactivation. *)

(* The tokens of u after a step of handler s: theirs stay theirs, none     *)
(* becomes valid again, and a new one comes from a handler that grants it. *)
Descends(s, u) ==
  /\ \A i \in DOMAIN token : i \in DOMAIN token' /\ token'[i].user = token[i].user
  /\ Active(u)' \subseteq Active(u) \/ Granting(s, u)

LEMMA Unwritten ==
  ASSUME TInv, NEW s, UNCHANGED token
  PROVE  \A u \in User : Descends(s, u)
  BY DEF Descends, Active

LEMMA IssueDescends ==
  ASSUME TInv, NEW s \in Session, IssueToken(s), NEW u \in User
  PROVE  Descends(s, u)
<1> DEFINE q == srv[s].msg
           n == Len(token) + 1
           w == IF q.op = "login" THEN q.pw ELSE 1
           t == NewToken(q.user, n, w)
<1>0. /\ n \in Nat /\ Len(token) \in Nat /\ q.user \in User /\ q.pw \in Nat
      /\ DOMAIN token = 1 .. Len(token) /\ token \in Seq(Token)
  BY TokenFacts DEF Proper, Message
<1>1. token' = Append(token, t)
  BY DEF IssueToken
<1>2. t \in Token /\ t.user = q.user
  BY <1>0, NewTokenType, NewTokenFields
<1> HIDE DEF t
<1>3. /\ DOMAIN token' = 1 .. n /\ token'[n] = t
      /\ \A i \in DOMAIN token : token'[i] = token[i]
  <2> DEFINE v == Append(token, t)
  <2>1. /\ v \in Seq(Token) /\ Len(v) = n /\ v[n] = t
        /\ \A i \in 1 .. Len(token) : v[i] = token[i]
    BY <1>0, <1>2, AppendFacts
  <2> HIDE DEF v
  <2>2. DOMAIN v = 1 .. n
    BY <2>1
  <2> QED
    BY <1>0, <1>1, <2>1, <2>2 DEF v
<1>4. \A i \in 1 .. n : i \in DOMAIN token \/ i = n
  BY <1>0
<1>5. \A i \in DOMAIN token : i \in 1 .. n
  BY <1>0
<1>6. u = q.user => Granting(s, u)
  BY DEF IssueToken, Granting
<1>7. u # q.user => Active(u)' \subseteq Active(u)
  <2> HIDE DEF n, q
  <2> QED
    BY <1>2, <1>3, <1>4 DEF Active
<1> QED
  BY <1>3, <1>5, <1>6, <1>7 DEF Descends

LEMMA RotateDescends ==
  ASSUME TInv, NEW s \in Session, Rotate(s), NEW u \in User
  PROVE  Descends(s, u)
<1> DEFINE k == srv[s].msg.tok
           n == Len(token) + 1
           v == [token EXCEPT ![k] = Rotated(token[k])]
           t == NewToken(token[k].user, token[k].chain, token[k].under)
<1>0. /\ n \in Nat /\ Len(token) \in Nat
      /\ DOMAIN token = 1 .. Len(token) /\ token \in Seq(Token)
  BY TokenFacts
<1>1. k \in DOMAIN token
  BY TokenFacts DEF Rotate, At, Proper
<1>2. token' = Append(v, t)
  BY DEF Rotate
<1>3. /\ v \in Seq(Token) /\ Len(v) = Len(token)
      /\ \A i \in DOMAIN token :
           /\ v[i].user = token[i].user
           /\ v[i].revoked = (i = k \/ token[i].revoked)
  BY <1>1, RotatedTable
<1>4. t \in Token /\ t.user = token[k].user
  <2> DEFINE x == token[k]
  <2>1. x.user \in User /\ x.chain \in Nat /\ x.under \in Nat
    BY <1>1, TokenFacts
  <2> HIDE DEF x
  <2>2. NewToken(x.user, x.chain, x.under) \in Token
    BY <2>1, NewTokenType
  <2> QED
    BY <2>2, NewTokenFields DEF x
<1> HIDE DEF t, v
<1>5. /\ DOMAIN token' = 1 .. n /\ token'[n] = t
      /\ \A i \in DOMAIN token : token'[i] = v[i]
  <2> DEFINE z == Append(v, t)
  <2>1. /\ z \in Seq(Token) /\ Len(z) = n /\ z[n] = t
        /\ \A i \in 1 .. Len(token) : z[i] = v[i]
    BY <1>0, <1>3, <1>4, AppendFacts
  <2> HIDE DEF z
  <2>2. DOMAIN z = 1 .. n
    BY <2>1
  <2> QED
    BY <1>0, <1>2, <2>1, <2>2 DEF z
<1>6. \A i \in 1 .. n : i \in DOMAIN token \/ i = n
  BY <1>0
<1>7. \A i \in DOMAIN token : i \in 1 .. n
  BY <1>0
<1>8. u = token[k].user => Granting(s, u)
  BY DEF Rotate, Granting
<1>9. u # token[k].user => Active(u)' \subseteq Active(u)
  <2> HIDE DEF n, k
  <2> QED
    BY <1>3, <1>4, <1>5, <1>6 DEF Active
<1> QED
  BY <1>3, <1>5, <1>7, <1>8, <1>9 DEF Descends

LEMMA RevokeDescends ==
  ASSUME TInv, NEW s \in Session, Revoke(s), NEW u \in User
  PROVE  Descends(s, u) /\ Active(u)' = Active(u) \ srv[s].seen
<1>1. \A i \in DOMAIN token : token[i].revoked \in BOOLEAN
  BY TokenFacts
<1> QED
  BY <1>1, RevokedTable DEF Descends, Active

LEMMA HandlerDescends ==
  ASSUME TInv, NEW s \in Session, HandlerStep(s), NEW u \in User
  PROVE  Descends(s, u)
<1>1. CASE IssueToken(s) \/ Rotate(s)
  BY <1>1, IssueDescends, RotateDescends
<1>2. CASE ApplyPassword(s) \/ RevokeAll(s)
  BY <1>2, RevokeDescends DEF ApplyPassword, RevokeAll
<1>3. CASE ~(IssueToken(s) \/ Rotate(s) \/ ApplyPassword(s) \/ RevokeAll(s))
  <2>1. UNCHANGED token
    BY <1>3 DEF HandlerStep, CheckEmail, CreateUser, Throttle, CheckPassword,
                ReadToken, Execute, CheckOldPassword, FindUser, ReadReset,
                Gather, MarkUsed, RequestReset, SetActive, tables
  <2> QED
    BY <2>1, Unwritten
<1> QED
  BY <1>1, <1>2, <1>3

(* A handler that will grant u a token after its step did so before it, or *)
(* found u active, or found a valid token of u.                            *)
LEMMA NewGrants ==
  ASSUME TInv, NEW s \in Session, HandlerStep(s), NEW u \in User,
         Granting(s, u)', ~account'[u].active
  PROVE  Active(u) # {}
<1>1. /\ srv'[s].msg = srv[s].msg /\ srv'[s].st \in {"checked", "applied"}
      /\ \A i \in DOMAIN token : i \in DOMAIN token' /\ token'[i].user = token[i].user
  <2>1. srv'[s].st \in {"checked", "applied"}
    BY DEF Granting, At
  <2>2. srv'[s].msg = srv[s].msg
    BY <2>1, HandlerGoesOn
  <2>3. Descends(s, u)
    BY HandlerDescends
  <2> QED
    BY <2>1, <2>2, <2>3 DEF Descends
<1>2. srv'[s] # Free
  BY <1>1, FreeType
<1>3. CASE srv[s].msg.op = "login"
  <2>1. srv[s].msg.user = u /\ srv'[s].st = "applied"
    BY <1>1, <1>3 DEF Granting, At
  <2>2. CASE CheckPassword(s)
    <3>1. ~Knows(srv[s].msg.user, srv[s].msg.pw)
      BY <2>1, <2>2 DEF CheckPassword, Knows, tables
    <3> QED
      BY <1>2, <2>2, <3>1, CloseFacts DEF CheckPassword
  <2>3. CASE Throttle(s)
    BY <1>2, <2>1, <2>3, MoveFacts, CloseFacts DEF Throttle
  <2>4. CASE IssueToken(s)
    BY <1>2, <2>4, CloseFacts DEF IssueToken
  <2>5. CASE Gather(s)
    BY <1>3, <2>5 DEF Gather
  <2>6. CASE ApplyPassword(s)
    BY <1>2, <1>3, <2>6, CloseFacts DEF ApplyPassword
  <2> QED
    BY <1>3, <2>2, <2>3, <2>4, <2>5, <2>6
       DEF HandlerStep, CheckEmail, CreateUser, ReadToken, Rotate, Execute,
           CheckOldPassword, FindUser, ReadReset, MarkUsed, RequestReset,
           SetActive, RevokeAll, At
<1>4. CASE srv[s].msg.op = "register"
  <2>1. srv[s].msg.user = u /\ srv'[s].st = "applied"
    BY <1>1, <1>4 DEF Granting, At
  <2>2. CASE CheckEmail(s)
    BY <1>2, <2>1, <2>2, MoveFacts, CloseFacts DEF CheckEmail
  <2>3. CASE CreateUser(s)
    <3> DEFINE a == [pw |-> 1, active |-> TRUE]
    <3>1. account[u].pw # 0
      <4>1. a.active /\ account \in [User -> Account]
        BY TokenFacts
      <4>2. account[u].pw = 0 => account' = [account EXCEPT ![u] = a]
        BY <2>1, <2>3 DEF CreateUser
      <4> HIDE DEF a
      <4> QED
        BY <4>1, <4>2
    <3> QED
      BY <1>2, <2>1, <2>3, <3>1, CloseFacts DEF CreateUser
  <2>4. CASE IssueToken(s)
    BY <1>2, <2>4, CloseFacts DEF IssueToken
  <2>5. CASE Gather(s)
    BY <1>4, <2>5 DEF Gather
  <2>6. CASE ApplyPassword(s)
    BY <1>2, <1>4, <2>6, CloseFacts DEF ApplyPassword
  <2> QED
    BY <1>4, <2>2, <2>3, <2>4, <2>5, <2>6
       DEF HandlerStep, Throttle, CheckPassword, ReadToken, Rotate, Execute,
           CheckOldPassword, FindUser, ReadReset, MarkUsed, RequestReset,
           SetActive, RevokeAll, At
<1>5. CASE srv[s].msg.op = "refresh"
  <2> DEFINE k == srv[s].msg.tok
  <2>1. k \in DOMAIN token
    BY <1>5, TokenFacts DEF Proper
  <2>2. token[k].user = u
    BY <1>1, <1>5, <2>1 DEF Granting, At
  <2>3. CASE ReadToken(s)
    <3>1. ~token[k].revoked
      BY <1>2, <2>3, CloseFacts DEF ReadToken
    <3> QED
      BY <2>1, <2>2, <3>1 DEF Active
  <2>4. CASE Rotate(s)
    BY <1>2, <2>4, CloseFacts DEF Rotate
  <2>5. CASE Gather(s)
    BY <1>5, <2>5 DEF Gather
  <2>6. CASE ApplyPassword(s)
    BY <1>2, <1>5, <2>6, CloseFacts DEF ApplyPassword
  <2> QED
    BY <1>5, <2>3, <2>4, <2>5, <2>6
       DEF HandlerStep, CheckEmail, CreateUser, Throttle, CheckPassword,
           IssueToken, Execute, CheckOldPassword, FindUser, ReadReset,
           MarkUsed, RequestReset, SetActive, RevokeAll, At
<1> QED
  BY <1>1, <1>3, <1>4, <1>5 DEF Granting, At

(* Deactivation is followed by the listing of the account's tokens. *)
LEMMA DeactivationLists ==
  ASSUME TInv, NEW s \in Session, HandlerStep(s), NEW u \in User,
         account[u].active, ~account'[u].active
  PROVE  Deactivates(s, u)' /\ srv'[s].st = "checked"
<1>0. account \in [User -> Account] /\ account[u] \in Account
  BY TokenFacts
<1>1. CASE SetActive(s)
  <2> DEFINE v == srv[s].msg.user
             b == srv[s].msg.op = "on"
  <2>1. /\ account' = [account EXCEPT ![v].active = b]
        /\ b \/ (srv[s].msg.op = "off" /\ Move(s, "checked"))
    BY <1>1 DEF SetActive, At
  <2>2. account'[u].active = IF u = v THEN b ELSE account[u].active
    <3> HIDE DEF v, b
    <3> QED
      BY <1>0, <2>1 DEF Account
  <2>3. u = v /\ srv[s].msg.op = "off" /\ Move(s, "checked")
    BY <2>1, <2>2
  <2>4. srv'[s].msg = srv[s].msg /\ srv'[s].st = "checked"
    BY <2>3, MoveFacts
  <2> QED
    BY <2>3, <2>4 DEF Deactivates
<1>2. CASE CreateUser(s)
  <2> DEFINE a == [pw |-> 1, active |-> TRUE]
             v == srv[s].msg.user
  <2>1. account' = account \/ account' = [account EXCEPT ![v] = a]
    BY <1>2 DEF CreateUser
  <2>2. a.active
    OBVIOUS
  <2> HIDE DEF a, v
  <2> QED
    BY <1>0, <2>1, <2>2
<1>3. CASE ApplyPassword(s)
  <2> DEFINE v == srv[s].msg.user
             n == account[v].pw + 1
  <2>1. account' = [account EXCEPT ![v].pw = n]
    BY <1>3 DEF ApplyPassword
  <2> HIDE DEF v, n
  <2>2. account'[u].active = account[u].active
    BY <1>0, <2>1 DEF Account
  <2> QED
    BY <2>2
<1>4. CASE ~(SetActive(s) \/ CreateUser(s) \/ ApplyPassword(s))
  <2>1. UNCHANGED account
    BY <1>4 DEF HandlerStep, CheckEmail, Throttle, CheckPassword, IssueToken,
                ReadToken, Rotate, Execute, CheckOldPassword, FindUser,
                ReadReset, Gather, MarkUsed, RequestReset, RevokeAll, tables
  <2> QED
    BY <2>1
<1> QED
  BY <1>1, <1>2, <1>3, <1>4

(* What becomes of a handler that deactivates: it lists, then it revokes   *)
(* what it listed.                                                         *)
LEMMA DeactivationEnds ==
  ASSUME TInv, NEW s \in Session, HandlerStep(s), NEW u \in User, Deactivates(s, u)
  PROVE  /\ srv[s].st = "checked" =>
              /\ Deactivates(s, u)' /\ srv'[s].st = "gathered"
              /\ srv'[s].seen = Active(u) /\ UNCHANGED token
         /\ srv[s].st = "gathered" =>
              srv'[s].st = "free" /\ Active(u)' = Active(u) \ srv[s].seen
<1>1. srv[s].msg.op = "off" /\ srv[s].msg.user = u
  BY DEF Deactivates
<1>2. CASE srv[s].st = "checked"
  <2>1. Gather(s)
    BY <1>1, <1>2
       DEF HandlerStep, CheckEmail, CreateUser, Throttle, CheckPassword,
           IssueToken, ReadToken, Rotate, Execute, CheckOldPassword, FindUser,
           ReadReset, ApplyPassword, MarkUsed, RequestReset, SetActive,
           RevokeAll, At
  <2>2. srv[s].msg.new = {}
    BY <1>1, TokenFacts DEF Proper
  <2>3. Strong(s)
    BY <2>2 DEF Strong
  <2>4. /\ srv'[s].msg = srv[s].msg /\ srv'[s].st = "gathered"
        /\ srv'[s].seen = Active(srv[s].msg.user)
    BY <2>1, <2>3, GatherFacts, FreeType
  <2> QED
    BY <1>1, <1>2, <2>1, <2>4 DEF Deactivates, Gather, tables
<1>3. CASE srv[s].st = "gathered"
  <2>1. RevokeAll(s)
    BY <1>1, <1>3
       DEF HandlerStep, CheckEmail, CreateUser, Throttle, CheckPassword,
           IssueToken, ReadToken, Rotate, Execute, CheckOldPassword, FindUser,
           ReadReset, Gather, ApplyPassword, MarkUsed, RequestReset, SetActive,
           At
  <2> QED
    BY <1>3, <2>1, CloseFacts, FreeType, RevokeDescends DEF RevokeAll
<1> QED
  BY <1>2, <1>3 DEF Deactivates

LEMMA DeactivatedStep ==
  ASSUME TInv, NEW s \in Session, HandlerStep(s), NEW u \in User,
         Deactivated(u), ~Crosses(u)'
  PROVE  Deactivated(u)'
<1>1. SUFFICES ASSUME ~account'[u].active
               PROVE  (Listing(u) \/ Listed(u) \/ Ended(u))'
  BY DEF Deactivated
<1>2. CASE account[u].active
  BY <1>1, <1>2, DeactivationLists DEF Listing
<1>3. Descends(s, u)
  BY HandlerDescends
<1>4. ASSUME NEW t \in Session \ {s} PROVE SameHandler(t) /\ srv'[t] = srv[t]
  BY <1>4, HandlerGoesOn
<1>5. ASSUME NEW t \in Session \ {s}, Granting(t, u)' PROVE Granting(t, u)
  <2>1. srv'[t] = srv[t] /\ Proper(srv[t].msg)
    BY <1>4, TokenFacts
  <2> QED
    BY <1>3, <1>5, <2>1 DEF Granting, At, Descends, Proper
<1>6. CASE Listing(u)
  <2>1. PICK t \in Session : Deactivates(t, u) /\ srv[t].st = "checked"
    BY <1>6 DEF Listing
  <2>2. CASE t = s
    <3>1. /\ Deactivates(s, u)' /\ srv'[s].st = "gathered"
          /\ srv'[s].seen = Active(u) /\ UNCHANGED token
      BY <2>1, <2>2, DeactivationEnds
    <3>2. Active(u)' = Active(u)
      BY <3>1 DEF Active
    <3> QED
      BY <3>1, <3>2 DEF Listed
  <2>3. CASE t # s
    <3>1. Deactivates(t, u)' /\ srv'[t].st = "checked"
      BY <1>4, <2>1, <2>3 DEF Deactivates
    <3> QED
      BY <3>1 DEF Listing
  <2> QED
    BY <2>2, <2>3
<1>7. CASE Listed(u)
  <2>1. PICK t \in Session : /\ Deactivates(t, u) /\ srv[t].st = "gathered"
                             /\ Active(u) \subseteq srv[t].seen
    BY <1>7 DEF Listed
  <2>2. \A x \in Session : ~Granting(x, u)
    BY <2>1 DEF Deactivated, Crosses
  <2>3. Active(u)' \subseteq Active(u)
    BY <1>3, <2>2 DEF Descends
  <2>4. CASE t = s
    <3>1. srv'[s].st = "free" /\ Active(u)' = {}
      BY <2>1, <2>4, DeactivationEnds
    <3>2. ASSUME NEW x \in Session PROVE ~Granting(x, u)'
      BY <1>5, <2>2, <3>1 DEF Granting, At
    <3> QED
      BY <3>1, <3>2 DEF Ended
  <2>5. CASE t # s
    <3>1. Deactivates(t, u)' /\ srv'[t].st = "gathered" /\ srv'[t].seen = srv[t].seen
      BY <1>4, <2>1, <2>5 DEF Deactivates
    <3> QED
      BY <2>1, <2>3, <3>1 DEF Listed
  <2> QED
    BY <2>4, <2>5
<1>8. CASE Ended(u)
  <2>1. Active(u)' = {}
    BY <1>3, <1>8 DEF Descends, Ended
  <2>2. ASSUME NEW x \in Session PROVE ~Granting(x, u)'
    <3>1. CASE x = s
      BY <1>1, <1>8, <3>1, NewGrants DEF Ended
    <3>2. CASE x # s
      BY <1>5, <1>8, <3>2 DEF Ended
    <3> QED
      BY <3>1, <3>2
  <2> QED
    BY <2>1, <2>2 DEF Ended
<1> QED
  BY <1>1, <1>2, <1>6, <1>7, <1>8 DEF Deactivated

LEMMA DeactivatedElsewhere ==
  ASSUME TInv, NEW u \in User, Deactivated(u), UNCHANGED <<account, token>>,
         \/ \A s \in Session : SameHandler(s) \/ Begins(s)
         \/ /\ \A s \in Session : srv'[s].st = "free"
            /\ \A s \in Session : ~Deactivates(s, u)
  PROVE  Deactivated(u)'
<1>1. Active(u)' = Active(u)
  BY DEF Active
<1>2. ASSUME NEW s \in Session
      PROVE  /\ Granting(s, u)' => Granting(s, u)
             /\ Deactivates(s, u)' /\ srv'[s].st = "gathered" =>
                  Deactivates(s, u) /\ srv[s].st = "gathered"
  BY DEF Granting, Deactivates, SameHandler, Begins, At
<1>3. ~Crosses(u)'
  BY <1>2 DEF Deactivated, Crosses
<1>4. SUFFICES ASSUME ~account[u].active
               PROVE  (Listing(u) \/ Listed(u) \/ Ended(u))'
  BY <1>3 DEF Deactivated
<1>5. CASE Listing(u)
  <2>1. PICK s \in Session : Deactivates(s, u) /\ srv[s].st = "checked"
    BY <1>5 DEF Listing
  <2>2. SameHandler(s)
    BY <2>1 DEF Begins, Deactivates
  <2> QED
    BY <2>1, <2>2 DEF Listing, Deactivates, SameHandler
<1>6. CASE Listed(u)
  <2>1. PICK s \in Session : /\ Deactivates(s, u) /\ srv[s].st = "gathered"
                             /\ Active(u) \subseteq srv[s].seen
    BY <1>6 DEF Listed
  <2>2. SameHandler(s)
    BY <2>1 DEF Begins, Deactivates
  <2> QED
    BY <1>1, <2>1, <2>2 DEF Listed, Deactivates, SameHandler
<1>7. CASE Ended(u)
  BY <1>1, <1>2, <1>7 DEF Ended
<1> QED
  BY <1>4, <1>5, <1>6, <1>7 DEF Deactivated

-----------------------------------------------------------------------------
(* Reset tokens. *)

LEMMA ResetFields ==
  ASSUME NEW x \in Reset
  PROVE  /\ x.n \in Nat /\ x.used \in BOOLEAN
         /\ [x EXCEPT !.used = TRUE].n = x.n /\ [x EXCEPT !.used = TRUE].used
         /\ [x EXCEPT !.n = @ + 1].n = x.n + 1
         /\ [x EXCEPT !.n = @ + 1].used = x.used
  BY DEF Reset

(* What the step of a handler does to reset token i: it leaves it, and a   *)
(* handler that redeems i afterwards has found it unused; or it counts the *)
(* password; or it marks the token as used; or the token is new.           *)
Passes(s, i) ==
  /\ i \in DOMAIN reset' => i \in DOMAIN reset /\ reset'[i] = reset[i]
  /\ Redeems(s, i)' =>
       /\ srv'[s].st \in {"checked", "gathered"}
       /\ \/ Redeems(s, i) /\ srv[s].st # "applied"
          \/ ~reset[i].used
  /\ ~Spends(s, i)

Counts(s, i) ==
  /\ Redeems(s, i) /\ srv[s].st = "gathered" /\ Spends(s, i)'
  /\ i \in DOMAIN reset => reset'[i].n = reset[i].n + 1

Marks(s, i) ==
  /\ Spends(s, i) /\ srv'[s].st = "free"
  /\ i \in DOMAIN reset => reset'[i].n = reset[i].n /\ reset'[i].used

IsNew(s, i) == reset'[i].n = 0 /\ srv'[s].st = "free" /\ i \notin DOMAIN reset

LEMMA OnReset ==
  ASSUME TInv, NEW s \in Session, HandlerStep(s), NEW i \in Nat
  PROVE  Passes(s, i) \/ Counts(s, i) \/ Marks(s, i) \/ IsNew(s, i)
<1> DEFINE q == srv[s].msg
           k == q.tok
<1>0. /\ reset \in Seq(Reset) /\ Len(reset) \in Nat
      /\ DOMAIN reset = 1 .. Len(reset)
      /\ \A j \in DOMAIN reset : reset[j] \in Reset
      /\ q.op = "confirm" => k \in DOMAIN reset
  <2>1. reset \in Seq(Reset)
    BY DEF TInv, TablesOK
  <2> QED
    BY <2>1, TokenFacts DEF Proper
<1>1. CASE Gather(s)
  <2>1. UNCHANGED reset /\ srv[s].st = "checked"
    BY <1>1 DEF Gather, tables
  <2>2. \/ srv'[s].st = "free"
        \/ srv'[s].msg = q /\ srv'[s].st = "gathered"
    BY <1>1, GatherFacts, FreeType
  <2> QED
    BY <2>1, <2>2 DEF Passes, Redeems, Spends
<1>2. CASE ReadReset(s)
  <2>1. UNCHANGED reset /\ srv[s].st = "start"
    BY <1>2 DEF ReadReset, tables, At
  <2>2. CASE \E r : Close(s, r)
    BY <2>1, <2>2, CloseFacts, FreeType DEF Passes, Redeems, Spends
  <2>3. CASE Move(s, "checked") /\ ~reset[k].used
    <3>1. srv'[s].msg = q /\ srv'[s].st = "checked"
      BY <2>3, MoveFacts
    <3> QED
      BY <2>1, <2>3, <3>1 DEF Passes, Redeems, Spends
  <2> QED
    BY <1>2, <2>2, <2>3 DEF ReadReset, Redeemable
<1>3. CASE ApplyPassword(s) /\ q.op = "confirm"
  <2> DEFINE x == [reset[k] EXCEPT !.n = @ + 1]
  <2>1. reset' = [reset EXCEPT ![k] = x] /\ Move(s, "applied") /\ srv[s].st = "gathered"
    BY <1>3 DEF ApplyPassword
  <2>2. srv'[s].msg = q /\ srv'[s].st = "applied"
    BY <2>1, MoveFacts
  <2>3. x.n = reset[k].n + 1
    BY <1>0, <1>3, ResetFields
  <2> HIDE DEF x
  <2>4. CASE i = k
    <3>1. Redeems(s, i) /\ Spends(s, i)'
      BY <1>3, <2>1, <2>2, <2>4 DEF Redeems, Spends
    <3>2. reset'[i].n = reset[i].n + 1
      BY <1>0, <1>3, <2>1, <2>3, <2>4
    <3> QED
      BY <2>1, <3>1, <3>2 DEF Counts
  <2>5. CASE i # k
    BY <2>1, <2>2, <2>5 DEF Passes, Redeems, Spends
  <2> QED
    BY <2>4, <2>5
<1>4. CASE MarkUsed(s)
  <2> DEFINE x == [reset[k] EXCEPT !.used = TRUE]
  <2>1. /\ reset' = [reset EXCEPT ![k] = x] /\ q.op = "confirm"
        /\ srv[s].st = "applied"
    BY <1>4 DEF MarkUsed, At
  <2>2. srv'[s].st = "free"
    BY <1>4, CloseFacts, FreeType DEF MarkUsed
  <2>3. x.n = reset[k].n /\ x.used
    BY <1>0, <2>1, ResetFields
  <2> HIDE DEF x
  <2>4. CASE i = k
    <3>1. Spends(s, i)
      BY <2>1, <2>4 DEF Redeems, Spends
    <3>2. reset'[i].n = reset[i].n /\ reset'[i].used
      BY <1>0, <2>1, <2>3, <2>4
    <3> QED
      BY <2>2, <3>1, <3>2 DEF Marks
  <2>5. CASE i # k
    BY <2>1, <2>2, <2>5 DEF Passes, Redeems, Spends
  <2> QED
    BY <2>4, <2>5
<1>5. CASE RequestReset(s)
  <2>1. srv'[s].st = "free" /\ srv[s].st = "start"
    BY <1>5, CloseFacts, FreeType DEF RequestReset, At
  <2> DEFINE r == [user |-> q.user, used |-> FALSE, n |-> 0, exp |-> now + ResetTtl]
             m == Len(reset) + 1
  <2>2. reset' = reset \/ reset' = Append(reset, r)
    BY <1>5 DEF RequestReset
  <2>3. r \in Reset /\ r.n = 0
    <3>1. now + ResetTtl \in Nat /\ q.user \in User
      BY AccountsAssumption, TokenFacts DEF TInv, BudgetOK
    <3> QED
      BY <3>1 DEF Reset
  <2> HIDE DEF r
  <2>4. CASE reset' = Append(reset, r)
    <3> DEFINE v == Append(reset, r)
    <3>1. /\ v \in Seq(Reset) /\ Len(v) = m /\ v[m] = r
          /\ \A j \in 1 .. Len(reset) : v[j] = reset[j]
      BY <1>0, <2>3, AppendFacts
    <3> HIDE DEF v
    <3>2. DOMAIN v = 1 .. m
      BY <3>1
    <3>3. reset' = v
      BY <2>4 DEF v
    <3>4. (i \in 1 .. m => i \in DOMAIN reset \/ i = m) /\ m \notin DOMAIN reset
      BY <1>0
    <3>5. CASE i = m
      BY <2>1, <2>3, <3>1, <3>3, <3>4, <3>5 DEF IsNew
    <3>6. CASE i # m
      BY <1>0, <2>1, <3>1, <3>2, <3>3, <3>4, <3>6 DEF Passes, Redeems, Spends
    <3> QED
      BY <3>5, <3>6
  <2>5. CASE reset' = reset
    BY <2>1, <2>5 DEF Passes, Redeems, Spends
  <2> QED
    BY <2>2, <2>4, <2>5
<1>6. CASE \/ Looks(s) /\ ~ReadReset(s)
           \/ Throttle(s) \/ Execute(s) \/ CreateUser(s) \/ IssueToken(s)
           \/ Rotate(s) \/ SetActive(s) \/ RevokeAll(s)
           \/ ApplyPassword(s) /\ q.op # "confirm"
  <2>1. UNCHANGED reset /\ q.op # "confirm"
    BY <1>6 DEF Looks, CheckEmail, CheckPassword, ReadToken,
         CheckOldPassword, FindUser, Throttle, Execute, CreateUser, IssueToken,
         Rotate, SetActive, RevokeAll, ApplyPassword, At, tables
  <2>2. srv'[s].st = "free" \/ srv'[s].msg = q
    BY HandlerGoesOn
  <2> QED
    BY <2>1, <2>2 DEF Passes, Redeems, Spends
<1> QED
  BY <1>1, <1>2, <1>3, <1>4, <1>5, <1>6 DEF HandlerStep, Looks

LEMMA WholeStep ==
  ASSUME TInv, NEW s \in Session, HandlerStep(s), NEW i \in Nat, Whole(i),
         \A x, y \in Session : Redeems(x, i)' /\ Redeems(y, i)' => x = y
  PROVE  Whole(i)'
<1>1. ASSUME NEW t \in Session, t # s
      PROVE  /\ srv'[t] = srv[t]
             /\ (Redeems(t, i)' <=> Redeems(t, i)) /\ (Spends(t, i)' <=> Spends(t, i))
  <2>1. srv'[t] = srv[t]
    BY <1>1, HandlerGoesOn
  <2> QED
    BY <2>1 DEF Redeems, Spends
<1>2. SUFFICES ASSUME i \in DOMAIN reset'
               PROVE  /\ reset'[i].n <= 1
                      /\ reset'[i].used \/ reset'[i].n = 0 \/ \E t \in Session : Spends(t, i)'
                      /\ \A t \in Session :
                           Redeems(t, i)' /\ srv'[t].st # "applied" => reset'[i].n = 0
  BY DEF Whole
<1>4. CASE Passes(s, i)
  <2>1. i \in DOMAIN reset /\ reset'[i] = reset[i]
    BY <1>2, <1>4 DEF Passes
  <2>2. \A t \in Session : Spends(t, i) => Spends(t, i)'
    BY <1>1, <1>4 DEF Passes
  <2>3. reset[i].n <= 1 /\ (reset[i].used \/ reset[i].n = 0 \/ \E t \in Session : Spends(t, i)')
    BY <2>1, <2>2 DEF Whole
  <2>4. ASSUME NEW t \in Session, Redeems(t, i)', srv'[t].st # "applied"
        PROVE  reset[i].n = 0
    <3>1. CASE t # s \/ (Redeems(s, i) /\ srv[s].st # "applied")
      <4>1. \E x \in Session : Redeems(x, i) /\ srv[x].st # "applied"
        BY <1>1, <2>4, <3>1
      <4> QED
        BY <2>1, <4>1 DEF Whole
    <3>2. CASE t = s /\ ~reset[i].used
      <4>1. ASSUME NEW x \in Session, Spends(x, i) PROVE FALSE
        <5>1. x # s
          BY <1>4, <4>1 DEF Passes
        <5>2. Redeems(x, i)'
          BY <1>1, <4>1, <5>1 DEF Spends
        <5> QED
          BY <2>4, <3>2, <5>1, <5>2
      <4> QED
        BY <2>1, <3>2, <4>1 DEF Whole
    <3> QED
      BY <1>4, <2>4, <3>1, <3>2 DEF Passes
  <2> QED
    BY <2>1, <2>3, <2>4
<1>5. CASE Counts(s, i)
  <2>1. i \in DOMAIN reset /\ reset[i].n = 0 /\ reset'[i].n = 1
    <3>1. i \in DOMAIN reset
      BY <1>5, TokenFacts DEF Counts, Redeems, Proper
    <3> QED
      BY <1>5, <3>1 DEF Counts, Whole
  <2>2. Spends(s, i)'
    BY <1>5 DEF Counts
  <2>3. ASSUME NEW t \in Session, Redeems(t, i)' PROVE srv'[t].st = "applied"
    BY <2>2, <2>3 DEF Spends
  <2> QED
    BY <2>1, <2>2, <2>3
<1>6. CASE Marks(s, i)
  <2>1. i \in DOMAIN reset /\ reset'[i].n = reset[i].n /\ reset'[i].used
    <3>1. i \in DOMAIN reset
      BY <1>6, TokenFacts DEF Marks, Spends, Redeems, Proper
    <3> QED
      BY <1>6, <3>1 DEF Marks
  <2>2. \A t \in Session : ~Redeems(t, i)'
    BY <1>1, <1>6 DEF Marks, Whole, Spends, Redeems
  <2> QED
    BY <2>1, <2>2 DEF Whole
<1>7. CASE IsNew(s, i)
  BY <1>7 DEF IsNew
<1> QED
  BY <1>4, <1>5, <1>6, <1>7, OnReset

LEMMA WholeElsewhere ==
  ASSUME NEW i \in Nat, Whole(i), UNCHANGED reset,
         \/ \A s \in Session : SameHandler(s) \/ Begins(s)
         \/ /\ \A s \in Session : srv'[s].st = "free"
            /\ \A s \in Session : ~Spends(s, i)
  PROVE  Whole(i)'
<1>1. ASSUME NEW s \in Session
      PROVE  /\ Redeems(s, i)' => Redeems(s, i) /\ srv'[s].st = srv[s].st
             /\ Spends(s, i) => Spends(s, i)'
  BY DEF Redeems, Spends, SameHandler, Begins
<1> QED
  BY <1>1 DEF Whole

LEMMA FInvNext == FInv /\ [Next]_vars => FInv'
<1> SUFFICES ASSUME FInv, [Next]_vars PROVE FInv'
  OBVIOUS
<1>0. TInv /\ SlipsOK /\ TInv' /\ SlipsOK'
  BY TInvNext, SlipsNext DEF FInv
<1>1. CASE \E s \in Session : HandlerStep(s)
  <2>1. PICK s \in Session : HandlerStep(s)
    BY <1>1
  <2>2. Noted
    BY <2>1 DEF HandlerStep
  <2>3. ASSUME NEW u \in User, u \notin crossed' PROVE Deactivated(u)'
    <3>1. u \notin crossed /\ ~Crosses(u)'
      BY <2>2, <2>3 DEF Noted
    <3> QED
      BY <1>0, <2>1, <3>1, DeactivatedStep DEF FInv
  <2>4. ASSUME NEW i \in Nat, i \notin torn' PROVE Whole(i)'
    <3>1. i \notin torn
      BY <2>2, <2>4 DEF Noted
    <3>2. ASSUME NEW x \in Session, NEW y \in Session,
                 Redeems(x, i)', Redeems(y, i)'
          PROVE  x = y
      <4>1. i \in DOMAIN reset'
        BY <1>0, <3>2 DEF TInv, HandlersOK, Proper, Redeems
      <4> QED
        BY <2>2, <2>4, <3>2, <4>1 DEF Noted
    <3> QED
      BY <1>0, <2>1, <3>1, <3>2, WholeStep DEF FInv
  <2> QED
    BY <1>0, <2>3, <2>4 DEF FInv
<1>2. CASE ~\E s \in Session : HandlerStep(s)
  <2>1. UNCHANGED <<account, token, reset>>
    BY <1>0, <1>2, OutsideHandlers
  <2>2. CASE /\ UNCHANGED <<crossed, torn>>
             /\ \A s \in Session : SameHandler(s) \/ Begins(s)
    <3>1. ASSUME NEW u \in User, u \notin crossed' PROVE Deactivated(u)'
      BY <1>0, <2>1, <2>2, <3>1, DeactivatedElsewhere DEF FInv
    <3>2. ASSUME NEW i \in Nat, i \notin torn' PROVE Whole(i)'
      BY <2>1, <2>2, <3>2, WholeElsewhere DEF FInv
    <3> QED
      BY <1>0, <3>1, <3>2 DEF FInv
  <2>3. CASE ServerCrash /\ \A s \in Session : srv'[s].st = "free"
    <3>1. ASSUME NEW u \in User, u \notin crossed' PROVE Deactivated(u)'
      <4>1. u \notin crossed /\ \A s \in Session : ~Deactivates(s, u)
        BY <2>3, <3>1 DEF ServerCrash
      <4> QED
        BY <1>0, <2>1, <2>3, <4>1, DeactivatedElsewhere DEF FInv
    <3>2. ASSUME NEW i \in Nat, i \notin torn' PROVE Whole(i)'
      <4>1. i \notin torn /\ (i \in DOMAIN reset => \A s \in Session : ~Spends(s, i))
        BY <2>3, <3>2 DEF ServerCrash, Spends
      <4>2. \A s \in Session : Redeems(s, i) => i \in DOMAIN reset
        BY <1>0 DEF TInv, HandlersOK, Proper, Redeems
      <4>3. \A s \in Session : ~Spends(s, i)
        BY <4>1, <4>2 DEF Spends
      <4> QED
        BY <2>1, <2>3, <4>1, <4>3, WholeElsewhere DEF FInv
    <3> QED
      BY <1>0, <3>1, <3>2 DEF FInv
  <2> QED
    BY <1>0, <1>2, <2>2, <2>3, OutsideHandlers
<1> QED
  BY <1>1, <1>2

LEMMA InitF == Init => FInv
<1> SUFFICES ASSUME Init PROVE FInv
  OBVIOUS
<1>1. /\ token = << >> /\ reset = << >> /\ \A s \in Session : srv[s].st = "free"
      /\ crossed = {} /\ torn = {}
  BY FreeType DEF Init
<1>2. \A u \in User : Deactivated(u)
  BY <1>1 DEF Deactivated, Crosses, Deactivates, Ended, Active, Granting, At
<1>3. \A i \in Nat : Whole(i)
  BY <1>1 DEF Whole, Redeems
<1> QED
  BY <1>1, <1>2, <1>3, InitTInv DEF FInv, SlipsOK

LEMMA AlwaysF == Spec => []FInv
  BY InitF, FInvNext, PTL DEF Spec

(* Every variable of the accounts component keeps its type for any number  *)
(* of users, devices and sessions: a token's chain points back, no answer  *)
(* names a token that is not there.                                        *)
THEOREM AccountsTyped == Spec => []TypeOK
<1>1. FInv => TypeOK
  BY DEF FInv, SlipsOK, TInv, TypeOK, TablesOK, HandlersOK, ClientsOK, BudgetOK
<1> QED
  BY <1>1, AlwaysF, PTL

(* Deactivation ends all sessions of an account and none begins before it  *)
(* is activated again, with every failure and any overlap, unless this     *)
(* account's deactivation itself was cut between its two commits or listed *)
(* the tokens while one was being granted.                                 *)
THEOREM NoneWhileDeactivated == Spec => []DeactivatedHoldsNone
<1>1. FInv => DeactivatedHoldsNone
  BY DEF FInv, Deactivated, DeactivatedHoldsNone, Listing, Listed, Ended
<1> QED
  BY <1>1, AlwaysF, PTL

(* One reset token sets one password, with every failure and any overlap,  *)
(* unless the handler of this token died between its two commits or a      *)
(* second one had found the token unused at the same time.                 *)
THEOREM ResetsOnce == Spec => []ResetOnce
<1>1. FInv => DOMAIN reset \subseteq Nat
  BY DEF FInv, TInv, TablesOK
<1>2. FInv => ResetOnce
  BY <1>1 DEF FInv, Whole, ResetOnce
<1> QED
  BY <1>2, AlwaysF, PTL
=============================================================================
