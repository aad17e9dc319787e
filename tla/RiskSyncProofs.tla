--------------------------- MODULE RiskSyncProofs ---------------------------
(***************************************************************************)
(* Theorems about RiskSync for every set of clients, rows and sessions and *)
(* every number of edits and failures.                                     *)
(***************************************************************************)
EXTENDS RiskSync, TLAPS

-----------------------------------------------------------------------------
(* Type correctness. *)

(* A handler that runs has a user. *)
HandlersHaveUsers ==
  \A s \in Session : tx[s].st # "free" => tx[s].user \in Client

EngineInv == EngineTypeOK /\ HandlersHaveUsers

(* A read through a session is a row. *)
LEMMA CurrentType ==
  ASSUME EngineTypeOK, NEW s \in Session, NEW e \in Entity
  PROVE  Current(s, e) \in ServerRow
  BY DEF EngineTypeOK, Handler, Current

LEMMA FreeHandlerType == FreeHandler \in Handler
  BY DEF FreeHandler, Handler, NoRow, ServerRow

(* Each step of a handler keeps the tables and the handlers well-typed. *)
LEMMA RecordType ==
  ASSUME EngineInv, NEW s \in Session, NEW ch \in Change,
         tx[s].st # "free",
         NEW status \in {"accepted", "conflict", "error"}, NEW sv \in Nat,
         Record(s, ch, status, sv)
  PROVE  EngineInv'
<1>0. EngineTypeOK /\ tx[s].user \in Client
  BY DEF EngineInv, HandlersHaveUsers
<1>1. [id |-> ch.id, user |-> tx[s].user, status |-> status, sv |-> sv] \in Receipt
  BY <1>0 DEF Receipt, Change
<1>2. NoRow \in ServerRow
  BY DEF NoRow, ServerRow
<1>3. tx[s] \in Handler
  BY <1>0 DEF EngineTypeOK
<1> DEFINE r == [id |-> ch.id, user |-> tx[s].user, status |-> status, sv |-> sv]
           h == [tx[s] EXCEPT !.st = "ready", !.todo = tx[s].todo \ {ch},
                              !.seen = NoRow, !.rc = tx[s].rc \cup {r}]
<1>4. h \in Handler
  BY <1>1, <1>2, <1>3 DEF Handler
<1>5. tx' = [tx EXCEPT ![s] = h]
  BY DEF Record
<1>6. h.user = tx[s].user
  BY <1>3 DEF Handler
<1>7. tx' \in [Session -> Handler] /\ HandlersHaveUsers'
  <2> HIDE DEF h
  <2> QED
    BY <1>0, <1>4, <1>5, <1>6 DEF EngineInv, EngineTypeOK, HandlersHaveUsers
<1> QED
  BY <1>0, <1>7 DEF EngineInv, EngineTypeOK, Record

LEMMA WriteType ==
  ASSUME EngineInv, NEW s \in Session, NEW ch \in Change,
         tx[s].st # "free", NEW new \in ServerRow, Write(s, ch, new)
  PROVE  EngineInv'
<1> DEFINE r == [id |-> ch.id, user |-> tx[s].user, status |-> "accepted", sv |-> 0]
           b == [id |-> ch.id, user |-> tx[s].user, ent |-> ch.ent,
                 base |-> ch.base, val |-> ch.val,
                 before |-> tx[s].seen.ver, after |-> new.ver]
           w == [tx[s].wr EXCEPT ![ch.ent] = new]
           h == [tx[s] EXCEPT !.st = "ready", !.todo = tx[s].todo \ {ch},
                              !.seen = NoRow, !.wr = w,
                              !.rc = tx[s].rc \cup {r}, !.au = tx[s].au \cup {b}]
<1>0. EngineTypeOK /\ tx[s].user \in Client
  BY DEF EngineInv, HandlersHaveUsers
<1>1. tx[s] \in Handler
  BY <1>0 DEF EngineTypeOK
<1>2. r \in Receipt
  BY <1>0 DEF Receipt, Change
<1>3. b \in AuditRow
  BY <1>0, <1>1 DEF AuditRow, Change, Handler, ServerRow
<1>4. w \in [Entity -> ServerRow]
  BY <1>1 DEF Change, Handler
<1>5. NoRow \in ServerRow
  BY DEF NoRow, ServerRow
<1>6. h \in Handler
  <2> HIDE DEF r, b, w
  <2> QED
    BY <1>1, <1>2, <1>3, <1>4, <1>5 DEF Handler
<1>7. tx' = [tx EXCEPT ![s] = h]
  BY DEF Write
<1>8. h.user = tx[s].user
  BY <1>1 DEF Handler
<1>9. tx' \in [Session -> Handler] /\ HandlersHaveUsers'
  <2> HIDE DEF h
  <2> QED
    BY <1>0, <1>6, <1>7, <1>8 DEF EngineInv, EngineTypeOK, HandlersHaveUsers
<1> QED
  BY <1>0, <1>9 DEF EngineInv, EngineTypeOK, Write

LEMMA FetchType ==
  ASSUME EngineInv, NEW s \in Session, NEW ch \in Change, Fetch(s, ch)
  PROVE  EngineInv'
<1> DEFINE h == [tx[s] EXCEPT !.st = "read", !.seen = Current(s, ch.ent)]
<1>1. EngineTypeOK /\ tx[s].st = "ready" /\ tx[s] \in Handler
  BY DEF EngineInv, EngineTypeOK, Fetch, Turn
<1>2. Current(s, ch.ent) \in ServerRow
  BY <1>1, CurrentType DEF Change
<1>3. h \in Handler /\ h.user = tx[s].user
  BY <1>1, <1>2 DEF Handler
<1>4. tx' = [tx EXCEPT ![s] = h]
  BY DEF Fetch
<1> HIDE DEF h
<1> QED
  BY <1>1, <1>3, <1>4 DEF EngineInv, EngineTypeOK, HandlersHaveUsers, Fetch

LEMMA ProcessType ==
  ASSUME EngineInv, NEW s \in Session, ProcessChange(s)
  PROVE  EngineInv'
<1>1. PICK ch \in tx[s].todo :
        \/ Refuse(s, ch) \/ Fetch(s, ch) \/ Conflict(s, ch)
        \/ RejectTarget(s, ch) \/ Insert(s, ch) \/ InsertClash(s, ch)
        \/ Update(s, ch) \/ SoftDelete(s, ch) \/ DeleteMissing(s, ch)
        \/ LockFailure(s, ch)
  BY DEF ProcessChange
<1>2. EngineTypeOK /\ tx[s] \in Handler /\ clock \in Nat
  BY DEF EngineInv, EngineTypeOK
<1>3. ch \in Change
  BY <1>1, <1>2 DEF Handler
<1>4. tx[s].seen.ver \in Nat /\ Current(s, ch.ent) \in ServerRow
  BY <1>2, <1>3, CurrentType DEF Handler, ServerRow, Change
<1>5. CASE Refuse(s, ch)
  BY <1>3, <1>5, RecordType DEF Refuse, Turn
<1>6. CASE Fetch(s, ch)
  BY <1>3, <1>6, FetchType
<1>7. CASE Conflict(s, ch)
  BY <1>3, <1>4, <1>7, RecordType DEF Conflict, Turn
<1>8. CASE RejectTarget(s, ch)
  BY <1>3, <1>8, RecordType DEF RejectTarget, Turn
<1>9. CASE Insert(s, ch)
  <2> DEFINE new == [ver |-> 1, val |-> ch.val, del |-> ch.op = "retire",
                     upd |-> clock + 1]
  <2>1. new \in ServerRow
    BY <1>2, <1>3 DEF ServerRow, Change
  <2>2. Write(s, ch, new) /\ tx[s].st # "free"
    BY <1>9 DEF Insert, Turn
  <2> QED
    BY <2>1, <2>2, <1>3, WriteType
<1>10. CASE InsertClash(s, ch)
  BY <1>3, <1>10, RecordType DEF InsertClash, Turn
<1>11. CASE Update(s, ch)
  <2> DEFINE new == [ver |-> tx[s].seen.ver + (IF ch.op = "retire" THEN 2 ELSE 1),
                     val |-> ch.val,
                     del |-> ch.op = "retire" \/ Current(s, ch.ent).del,
                     upd |-> clock + 1]
  <2>1. new \in ServerRow
    BY <1>2, <1>3, <1>4 DEF ServerRow, Change
  <2>2. Write(s, ch, new) /\ tx[s].st # "free"
    BY <1>11 DEF Update, Turn
  <2> QED
    BY <2>1, <2>2, <1>3, WriteType
<1>12. CASE SoftDelete(s, ch)
  <2> DEFINE new == [ver |-> tx[s].seen.ver + 1, val |-> Current(s, ch.ent).val,
                     del |-> TRUE, upd |-> clock + 1]
  <2>1. new \in ServerRow
    BY <1>2, <1>3, <1>4 DEF ServerRow, Change
  <2>2. Write(s, ch, new) /\ tx[s].st # "free"
    BY <1>12 DEF SoftDelete, Turn
  <2> QED
    BY <2>1, <2>2, <1>3, WriteType
<1>13. CASE DeleteMissing(s, ch)
  BY <1>3, <1>13, RecordType DEF DeleteMissing, Turn
<1>14. CASE LockFailure(s, ch)
  BY <1>3, <1>14, RecordType DEF LockFailure, Turn
<1> QED
  BY <1>1, <1>5, <1>6, <1>7, <1>8, <1>9, <1>10, <1>11, <1>12, <1>13, <1>14

LEMMA BeginType ==
  ASSUME EngineInv, NEW s \in Session, NEW u \in Client,
         NEW batch \in SUBSET Change, NEW live \in BOOLEAN,
         BeginPush(s, u, batch, live)
  PROVE  EngineInv'
<1> DEFINE known == {x.id : x \in {y \in receipts : y.user = u}}
           todo == {ch \in batch : ch.id \notin known}
           dup == Ids(batch) \cap known
           h == [FreeHandler EXCEPT !.st = "ready", !.user = u, !.live = live,
                                    !.todo = todo, !.dup = dup]
<1>1. todo \in SUBSET Change
  OBVIOUS
<1>2. dup \in SUBSET Nat
  BY DEF Ids, Change
<1>3. h \in Handler /\ h.user = u
  <2> HIDE DEF todo, dup
  <2> QED
    BY <1>1, <1>2, FreeHandlerType DEF Handler
<1>4. tx' = [tx EXCEPT ![s] = h]
  BY DEF BeginPush
<1> HIDE DEF h
<1> QED
  BY <1>3, <1>4 DEF EngineInv, EngineTypeOK, HandlersHaveUsers, BeginPush

LEMMA CommitType ==
  ASSUME EngineInv, NEW s \in Session, CommitPush(s)
  PROVE  EngineInv'
<1>1. tx[s] \in Handler
  BY DEF EngineInv, EngineTypeOK
<1>2. tx' \in [Session -> Handler] /\ HandlersHaveUsers'
  BY FreeHandlerType
     DEF EngineInv, EngineTypeOK, CommitPush, HandlersHaveUsers, FreeHandler
<1>3. item' \in [Entity -> ServerRow]
  BY CurrentType DEF EngineInv, CommitPush
<1> QED
  BY <1>1, <1>2, <1>3 DEF EngineInv, EngineTypeOK, CommitPush, Handler

LEMMA RollbackType ==
  ASSUME EngineInv, NEW s \in Session, RollbackPush(s)
  PROVE  EngineInv'
  BY FreeHandlerType
     DEF EngineInv, EngineTypeOK, RollbackPush, HandlersHaveUsers, FreeHandler

(* A client that hangs up only changes who the handlers answer. *)
LEMMA HangUpType ==
  ASSUME EngineInv, NEW c \in Client, HangUp(c)
  PROVE  EngineInv'
<1>1. \A s \in Session : [tx[s] EXCEPT !.live = FALSE] \in Handler
  BY DEF EngineInv, EngineTypeOK, Handler
<1>2. tx' \in [Session -> Handler]
  BY <1>1 DEF EngineInv, EngineTypeOK, HangUp
<1>3. \A s \in Session : tx'[s].st = tx[s].st /\ tx'[s].user = tx[s].user
  BY DEF EngineInv, EngineTypeOK, HangUp, Handler
<1> QED
  BY <1>2, <1>3 DEF EngineInv, EngineTypeOK, HandlersHaveUsers, HangUp

(* Each step of a client keeps its tables well-typed. *)
LEMMA EditType ==
  ASSUME ClientTypeOK, NEW c \in Client, NEW e \in Entity, NEW l \in LocalRow,
         NEW op \in Op \cup {"discard"}, StartEdit(c, e, l, op)
  PROVE  ClientTypeOK'
<1>1. row' \in [Client -> [Entity -> LocalRow]]
  BY DEF ClientTypeOK, StartEdit
<1>2. [ent |-> e, op |-> op, val |-> nextId] \in Draft
  BY DEF ClientTypeOK, Draft
<1>3. draft' \in [Client -> SUBSET Draft]
  BY <1>2 DEF ClientTypeOK, StartEdit
<1>4. pc' \in [Client -> Place] /\ nextId' \in Nat
  BY DEF ClientTypeOK, StartEdit, Place
<1> QED
  BY <1>1, <1>3, <1>4 DEF ClientTypeOK, StartEdit

LEMMA UserType ==
  ASSUME ClientTypeOK, NEW c \in Client, NEW e \in Entity,
         \/ CreateRow(c, e) \/ EditRow(c, e)
         \/ RetireRow(c, e) \/ RemoveRow(c, e)
  PROVE  ClientTypeOK'
<1>1. row[c][e] \in LocalRow /\ nextId \in Nat
  BY DEF ClientTypeOK
<1>2. CASE CreateRow(c, e)
  BY <1>1, <1>2, EditType DEF CreateRow, LocalRow, Op
<1>3. CASE EditRow(c, e)
  BY <1>1, <1>3, EditType DEF EditRow, LocalRow, Op
<1>4. CASE RetireRow(c, e)
  BY <1>1, <1>4, EditType DEF RetireRow, LocalRow, Op
<1>5. CASE RemoveRow(c, e)
  <2>1. [row[c][e] EXCEPT !.del = TRUE] \in LocalRow
    BY <1>1 DEF LocalRow
  <2>2. (IF row[c][e].ver < 1 THEN "discard" ELSE "delete") \in Op \cup {"discard"}
    BY DEF Op
  <2> QED
    BY <1>5, <2>1, <2>2, EditType DEF RemoveRow
<1> QED
  BY <1>2, <1>3, <1>4, <1>5

LEMMA ReplaceType ==
  ASSUME ClientTypeOK, NEW c \in Client, NEW e \in Entity, NEW op \in Op,
         NEW base \in Nat, NEW val \in Nat, ReplaceEntry(c, e, op, base, val)
  PROVE  /\ pending' \in [Client -> SUBSET Change]
         /\ blocked' \in [Client -> SUBSET Change]
<1>1. [id |-> nextId, ent |-> e, op |-> op, base |-> base, val |-> val] \in Change
  BY DEF ClientTypeOK, Change
<1> QED
  BY <1>1 DEF ClientTypeOK, ReplaceEntry, Except

LEMMA FinishEditType ==
  ASSUME ClientTypeOK, NEW c \in Client, Enqueue(c) \/ Discard(c)
  PROVE  ClientTypeOK'
<1>1. CASE Enqueue(c)
  <2>1. PICK d \in draft[c] : /\ d.op # "discard"
                             /\ ReplaceEntry(c, d.ent, d.op, row[c][d.ent].ver, d.val)
    BY <1>1 DEF Enqueue
  <2>2. d.ent \in Entity /\ d.op \in Op /\ d.val \in Nat
    BY <2>1 DEF ClientTypeOK, Draft
  <2>3. row[c][d.ent].ver \in Nat
    BY <2>2 DEF ClientTypeOK, LocalRow
  <2>4. pending' \in [Client -> SUBSET Change] /\ blocked' \in [Client -> SUBSET Change]
    BY <2>1, <2>2, <2>3, ReplaceType
  <2>5. draft' \in [Client -> SUBSET Draft] /\ pc' \in [Client -> Place]
    BY <1>1 DEF ClientTypeOK, Enqueue, Place
  <2>6. nextId' \in Nat /\ UNCHANGED <<row, since, sent, conf, again, mark>>
    BY <1>1 DEF ClientTypeOK, Enqueue
  <2> QED
    BY <2>4, <2>5, <2>6 DEF ClientTypeOK
<1>2. CASE Discard(c)
  BY <1>2 DEF ClientTypeOK, Discard, Except, Place
<1> QED
  BY <1>1, <1>2

LEMMA StartSyncType ==
  ASSUME ClientTypeOK, NEW c \in Client, StartSync(c)
  PROVE  ClientTypeOK' /\ sent'[c] \in SUBSET Change
  BY DEF ClientTypeOK, StartSync, OldestPending, tableVars, Place

LEMMA ClearType ==
  ASSUME ClientTypeOK, NEW c \in Client, NEW r, NEW B, Clear(c, r, B)
  PROVE  /\ pending' \in [Client -> SUBSET Change]
         /\ blocked' \in [Client -> SUBSET Change]
  BY DEF ClientTypeOK, Clear

LEMMA AnswerType ==
  ASSUME ClientTypeOK, NEW c \in Client, NEW r \in Reply,
         HandleAnswer(c, r) \/ HandleRetryAnswer(c, r)
  PROVE  ClientTypeOK'
<1>1. /\ pending' \in [Client -> SUBSET Change]
      /\ blocked' \in [Client -> SUBSET Change]
  BY ClearType DEF HandleAnswer, HandleRetryAnswer, ProcessPush
<1>2. WithStatus(r, "conflict") \in SUBSET Receipt
  BY DEF WithStatus, Reply
<1>3. CASE HandleAnswer(c, r)
  <2>1. pc' \in [Client -> Place] /\ sent' \in [Client -> SUBSET Change]
    BY <1>3 DEF ClientTypeOK, HandleAnswer, Place
  <2>2. conf' \in [Client -> SUBSET Receipt]
    BY <1>2, <1>3 DEF ClientTypeOK, HandleAnswer
  <2> QED
    BY <1>1, <1>3, <2>1, <2>2 DEF ClientTypeOK, HandleAnswer
<1>4. CASE HandleRetryAnswer(c, r)
  <2>1. pc' \in [Client -> Place] /\ sent' \in [Client -> SUBSET Change]
    BY <1>4 DEF ClientTypeOK, HandleRetryAnswer, Place
  <2> QED
    BY <1>1, <1>4, <2>1 DEF ClientTypeOK, HandleRetryAnswer
<1> QED
  BY <1>3, <1>4

LEMMA RequeueType ==
  ASSUME ClientTypeOK, NEW c \in Client, RequeueConflict(c)
  PROVE  ClientTypeOK'
<1>1. PICK x \in conf[c], p \in Outbox(c) :
        /\ ReplaceEntry(c, p.ent, p.op, x.sv, p.val)
        /\ conf' = [conf EXCEPT ![c] = @ \ {x}]
  BY DEF RequeueConflict
<1>2. p \in Change /\ x \in Receipt
  BY <1>1 DEF ClientTypeOK, Outbox
<1>3. p.ent \in Entity /\ p.op \in Op /\ p.val \in Nat /\ x.sv \in Nat
  BY <1>2 DEF Change, Receipt
<1>4. /\ pending' \in [Client -> SUBSET Change]
      /\ blocked' \in [Client -> SUBSET Change]
  BY <1>1, <1>3, ReplaceType
<1>5. conf' \in [Client -> SUBSET Receipt]
  BY <1>1 DEF ClientTypeOK
<1>6. again' \in [Client -> SUBSET Nat]
  BY DEF ClientTypeOK, RequeueConflict
<1> QED
  BY <1>4, <1>5, <1>6 DEF ClientTypeOK, RequeueConflict

LEMMA RetryType ==
  ASSUME ClientTypeOK, NEW c \in Client, RetryPush(c)
  PROVE  ClientTypeOK' /\ sent'[c] \in SUBSET Change
  BY DEF ClientTypeOK, RetryPush, OldestPending, tableVars, Place

LEMMA PulledType ==
  ASSUME NEW c, NEW e, NEW l \in LocalRow, NEW x \in ServerRow
  PROVE  Pulled(c, e, l, x) \in LocalRow
  BY DEF Pulled, LocalRow, ServerRow

LEMMA ApplyPullType ==
  ASSUME ClientTypeOK, NEW c \in Client, NEW E,
         NEW table \in [Entity -> ServerRow], ApplyPull(c, table, E)
  PROVE  row' \in [Client -> [Entity -> LocalRow]]
<1> DEFINE f == [e \in Entity |->
                   IF e \in E /\ table[e].upd > since[c]
                   THEN Pulled(c, e, row[c][e], table[e]) ELSE row[c][e]]
<1>1. ASSUME NEW e \in Entity PROVE f[e] \in LocalRow
  BY PulledType DEF ClientTypeOK
<1>2. row' = [row EXCEPT ![c] = f]
  BY DEF ApplyPull
<1> QED
  BY <1>1, <1>2 DEF ClientTypeOK

LEMMA PullType ==
  ASSUME ClientTypeOK, NEW c \in Client, NEW table \in [Entity -> ServerRow],
         NEW time \in Nat, HandlePull(c, table, time)
  PROVE  ClientTypeOK'
<1>1. row' \in [Client -> [Entity -> LocalRow]]
  BY ApplyPullType DEF HandlePull
<1> QED
  BY <1>1 DEF ClientTypeOK, HandlePull, Place

LEMMA SaveType ==
  ASSUME ClientTypeOK, NEW c \in Client, SaveServerTime(c)
  PROVE  ClientTypeOK'
  BY DEF ClientTypeOK, SaveServerTime, Place

(* A crash on an answer leaves the outbox cleared in part. *)
LEMMA CrashClears ==
  ASSUME NEW c \in Client, NEW r, CrashInAnswer(c, r)
  PROVE  /\ Stop(c) /\ row' = row
         /\ \E B : B \subseteq Ids({x \in r.out : x.status # "accepted"}) /\ Clear(c, r, B)
<1> DEFINE Sooner(x, y) == IF x.status = y.status THEN x.id < y.id ELSE x.status = "conflict"
<1>1. \E block : \E y \in r.out :
        Clear(c, r, {x.id : x \in {z \in r.out : z.id \in ToBlock(r, block) /\ Sooner(z, y)}})
  BY DEF CrashInAnswer
<1>2. PICK block, y : Clear(c, r, {x.id : x \in {z \in r.out : /\ z.id \in ToBlock(r, block)
                                                              /\ Sooner(z, y)}})
  BY <1>1
<1>3. ToBlock(r, block) \subseteq Ids({x \in r.out : x.status # "accepted"})
  BY DEF ToBlock, WithStatus, Ids
<1>4. {x.id : x \in {z \in r.out : z.id \in ToBlock(r, block) /\ Sooner(z, y)}}
        \subseteq ToBlock(r, block)
  OBVIOUS
<1>5. Stop(c) /\ row' = row
  BY DEF CrashInAnswer
<1> QED
  BY <1>2, <1>3, <1>4, <1>5

LEMMA StopType ==
  ASSUME ClientTypeOK, NEW c \in Client, NEW table \in [Entity -> ServerRow],
         \/ Interrupt(c) \/ CrashInRequeue(c) \/ CrashInPull(c, table)
         \/ \E r : CrashInAnswer(c, r)
  PROVE  ClientTypeOK'
<1>1. Stop(c)
  BY CrashClears DEF Interrupt, CrashInRequeue, CrashInPull
<1>2. row' \in [Client -> [Entity -> LocalRow]]
  BY ApplyPullType, CrashClears DEF ClientTypeOK, Interrupt, CrashInRequeue, CrashInPull
<1>3. /\ pending' \in [Client -> SUBSET Change]
      /\ blocked' \in [Client -> SUBSET Change]
  <2>1. CASE Interrupt(c) \/ CrashInRequeue(c) \/ CrashInPull(c, table)
    BY <2>1 DEF ClientTypeOK, Interrupt, CrashInRequeue, CrashInPull
  <2>2. CASE \E r : CrashInAnswer(c, r)
    BY <2>2, CrashClears, ClearType
  <2> QED
    BY <2>1, <2>2
<1> QED
  BY <1>1, <1>2, <1>3 DEF ClientTypeOK, Stop, Place

-----------------------------------------------------------------------------
(* Steps of the composition. *)

TypeInv == TypeOK /\ HandlersHaveUsers

LEMMA InitType == Init => TypeInv
<1> SUFFICES ASSUME Init PROVE TypeInv
  OBVIOUS
<1>1. EngineInv
  BY FreeHandlerType
     DEF Init, EngineInit, EngineInv, EngineTypeOK, HandlersHaveUsers,
         FreeHandler, NoRow, ServerRow
<1>2. ClientTypeOK
  BY DEF Init, ClientInit, ClientTypeOK, NoLocal, LocalRow, Place
<1> QED
  BY <1>1, <1>2 DEF Init, TypeInv, TypeOK, EngineInv

(* Whatever step is taken, the tables keep their types. *)
LEMMA NextType ==
  ASSUME TypeInv, [Next]_vars
  PROVE  TypeInv'
<1> USE DEF TypeInv, TypeOK, EngineInv
<1>1. ASSUME NEW c \in Client, UserEdit(c) PROVE TypeInv'
  <2>1. PICK e \in Entity : \/ CreateRow(c, e) \/ EditRow(c, e)
                           \/ RetireRow(c, e) \/ RemoveRow(c, e)
    BY <1>1 DEF UserEdit
  <2>2. ClientTypeOK'
    BY <2>1, UserType
  <2> QED
    BY <1>1, <2>2 DEF UserEdit, engineVars, netVars, EngineTypeOK, HandlersHaveUsers
<1>2. ASSUME NEW c \in Client, FinishEdit(c) PROVE TypeInv'
  <2>1. ClientTypeOK'
    BY <1>2, FinishEditType DEF FinishEdit
  <2> QED
    BY <1>2, <2>1
       DEF FinishEdit, engineVars, netVars, budgetVars, EngineTypeOK, HandlersHaveUsers
<1>3. ASSUME NEW c \in Client, SendPush(c) PROVE TypeInv'
  <2>1. ClientTypeOK' /\ sent'[c] \in SUBSET Change
    BY <1>3, StartSyncType DEF SendPush
  <2> QED
    BY <1>3, <2>1
       DEF SendPush, engineVars, budgetVars, EngineTypeOK, HandlersHaveUsers
<1>4. ASSUME NEW c \in Client, SendRetry(c) PROVE TypeInv'
  <2>1. ClientTypeOK' /\ sent'[c] \in SUBSET Change
    BY <1>4, RetryType DEF SendRetry
  <2> QED
    BY <1>4, <2>1
       DEF SendRetry, engineVars, budgetVars, EngineTypeOK, HandlersHaveUsers
<1>5. ASSUME NEW c \in Client, ReceiveAnswer(c) PROVE TypeInv'
  <2>1. PICK r \in reply[c] : HandleAnswer(c, r) \/ HandleRetryAnswer(c, r)
    BY <1>5 DEF ReceiveAnswer
  <2>2. ClientTypeOK'
    BY <2>1, AnswerType
  <2> QED
    BY <1>5, <2>2
       DEF ReceiveAnswer, engineVars, budgetVars, EngineTypeOK, HandlersHaveUsers
<1>6. ASSUME NEW c \in Client, Requeue(c) PROVE TypeInv'
  <2>1. ClientTypeOK'
    BY <1>6, RequeueType DEF Requeue
  <2> QED
    BY <1>6, <2>1
       DEF Requeue, engineVars, netVars, budgetVars, EngineTypeOK, HandlersHaveUsers
<1>7. ASSUME NEW c \in Client, Pull(c) PROVE TypeInv'
  <2>1. ClientTypeOK'
    BY <1>7, PullType DEF Pull, EngineTypeOK
  <2> QED
    BY <1>7, <2>1
       DEF Pull, engineVars, netVars, budgetVars, EngineTypeOK, HandlersHaveUsers
<1>8. ASSUME NEW c \in Client, FinishSync(c) PROVE TypeInv'
  <2>1. ClientTypeOK'
    BY <1>8, SaveType DEF FinishSync
  <2> QED
    BY <1>8, <2>1
       DEF FinishSync, engineVars, netVars, budgetVars, EngineTypeOK, HandlersHaveUsers
<1>9. ASSUME NEW c \in Client, Timeout(c) \/ ClientCrash(c) PROVE TypeInv'
  <2>1. ClientTypeOK'
    BY <1>9, StopType DEF Timeout, ClientCrash, EngineTypeOK
  <2>2. HangUp(c) /\ Fault
    BY <1>9 DEF Timeout, ClientCrash
  <2>3. EngineInv'
    BY <2>2, HangUpType
  <2>4. wire' \in [Client -> SUBSET Change] /\ reply' \in [Client -> SUBSET Reply]
    BY <2>2 DEF HangUp
  <2>5. late' \in SUBSET Request
    BY <2>2 DEF HangUp, Request
  <2> QED
    BY <2>1, <2>2, <2>3, <2>4, <2>5 DEF Fault
<1>10. ASSUME NEW s \in Session, NEW c \in Client, Serve(s, c) PROVE TypeInv'
  <2>1. EngineInv'
    BY <1>10, BeginType DEF Serve
  <2> QED
    BY <1>10, <2>1
       DEF Serve, clientVars, tableVars, syncVars, budgetVars, ClientTypeOK
<1>11. ASSUME NEW s \in Session, ServeLate(s) PROVE TypeInv'
  <2>1. PICK q \in late : BeginPush(s, q.user, q.todo, FALSE) /\ late' = late \ {q}
    BY <1>11 DEF ServeLate
  <2>2. q.user \in Client /\ q.todo \in SUBSET Change
    BY <2>1 DEF Request
  <2>3. EngineInv'
    BY <2>1, <2>2, BeginType
  <2> QED
    BY <1>11, <2>1, <2>3
       DEF ServeLate, clientVars, tableVars, syncVars, budgetVars, ClientTypeOK
<1>12. ASSUME NEW s \in Session, Process(s) PROVE TypeInv'
  <2>1. EngineInv'
    BY <1>12, ProcessType DEF Process
  <2> QED
    BY <1>12, <2>1
       DEF Process, clientVars, tableVars, syncVars, netVars, budgetVars, ClientTypeOK
<1>13. ASSUME NEW s \in Session, Answer(s) PROVE TypeInv'
  <2>1. EngineInv'
    BY <1>13, CommitType DEF Answer
  <2>2. [dup |-> tx[s].dup, out |-> tx[s].rc] \in Reply
    BY DEF EngineTypeOK, Handler, Reply
  <2>3. reply' \in [Client -> SUBSET Reply]
    BY <1>13, <2>2 DEF Answer
  <2> QED
    BY <1>13, <2>1, <2>3
       DEF Answer, clientVars, tableVars, syncVars, budgetVars, ClientTypeOK
<1>14. ASSUME NEW s \in Session, Abort(s), UNCHANGED budgetVars \/ Fault
       PROVE  TypeInv'
  <2>1. EngineInv'
    BY <1>14, RollbackType DEF Abort
  <2>2. tx[s].user \in Client
    BY <1>14 DEF Abort, RollbackPush, HandlersHaveUsers
  <2>3. ClientTypeOK'
    <3>1. CASE tx[s].live
      BY <1>14, <2>2, <3>1, StopType DEF Abort, EngineTypeOK
    <3>2. CASE ~tx[s].live
      BY <1>14, <3>2 DEF Abort, clientVars, tableVars, syncVars, ClientTypeOK
    <3> QED
      BY <3>1, <3>2
  <2> QED
    BY <1>14, <2>1, <2>3 DEF Abort, netVars, budgetVars, Fault
<1>15. CASE UNCHANGED vars
  BY <1>15 DEF vars, engineVars, clientVars, tableVars, syncVars, netVars, budgetVars,
               EngineTypeOK, ClientTypeOK, HandlersHaveUsers
<1> QED
  BY <1>1, <1>2, <1>3, <1>4, <1>5, <1>6, <1>7, <1>8, <1>9, <1>10, <1>11, <1>12,
     <1>13, <1>14, <1>15
     DEF Next, FailRequest, ServerCrash

(* Every table, handler and message in reach has its declared shape, and a *)
(* handler that runs serves a client.                                      *)
THEOREM TypeCorrect == Spec => []TypeOK
<1>1. Spec => []TypeInv
  BY InitType, NextType, PTL DEF Spec
<1>2. TypeInv => TypeOK
  BY DEF TypeInv
<1> QED
  BY <1>1, <1>2, PTL

-----------------------------------------------------------------------------
(* Receipts and the audit log. *)

Unique(S) == \A x, y \in S : x.id = y.id => x = y

Accepted(a, S) == \E x \in S : x.id = a.id /\ x.status = "accepted"

(* Receipts are unique by change id, across the committed ones and those   *)
(* of every open handler, and what was applied has an accepted receipt.    *)
ReceiptInv ==
  /\ Unique(receipts) /\ Unique(audit)
  /\ \A a \in audit : Accepted(a, receipts)
  /\ \A s \in Session :
       /\ Unique(tx[s].rc) /\ Unique(tx[s].au)
       /\ \A a \in tx[s].au : Accepted(a, tx[s].rc)
       /\ \A x \in tx[s].rc : x.id \notin Ids(receipts)
       /\ \A t \in Session : \A x \in tx[s].rc : \A y \in tx[t].rc :
            x.id = y.id => s = t

-----------------------------------------------------------------------------
(* The conversation of a client with its handler. *)

Waiting(c) == pc[c] \in {"wait", "rewait"}

Serves(s, c) == tx[s].live /\ tx[s].user = c

(* While a client waits, its batch is in one place: on the wire, in one    *)
(* live handler that has answered or will answer each of its changes, or   *)
(* in the reply; and what is called a duplicate has a receipt.             *)
WireOK(c) ==
  wire[c] # {} =>
    /\ Waiting(c) /\ wire[c] = sent[c] /\ reply[c] = {}
    /\ \A s \in Session : ~Serves(s, c)

ReplyOK(c) ==
  \A r \in reply[c] :
    /\ Waiting(c) /\ \A s \in Session : ~Serves(s, c)
    /\ Ids(sent[c]) \subseteq r.dup \cup Ids(r.out)
    /\ r.dup \subseteq Ids(receipts) /\ r.out \subseteq receipts

HandlerOK(s) ==
  /\ tx[s].dup \subseteq Ids(receipts)
  /\ tx[s].live =>
       /\ tx[s].st # "free" /\ Waiting(tx[s].user) /\ reply[tx[s].user] = {}
       /\ Ids(sent[tx[s].user]) \subseteq
            tx[s].dup \cup Ids(tx[s].todo) \cup Ids(tx[s].rc)
       /\ \A t \in Session : Serves(t, tx[s].user) => t = s

ExchangeInv ==
  /\ \A c \in Client : WireOK(c) /\ ReplyOK(c)
  /\ \A s \in Session : HandlerOK(s)

(* Only a receipt that refuses puts a change among the blocked ones. *)
BlockedInv ==
  \A c \in Client : \A p \in blocked[c] :
    \E x \in receipts : x.id = p.id /\ x.status # "accepted"

-----------------------------------------------------------------------------
(* One outbox entry per row. *)

LEMMA ReplaceKeepsOne ==
  ASSUME ClientTypeOK, OneEntryPerEntity, NEW c \in Client, NEW e, NEW op,
         NEW base, NEW val, ReplaceEntry(c, e, op, base, val)
  PROVE  OneEntryPerEntity'
<1> DEFINE new == [id |-> nextId, ent |-> e, op |-> op, base |-> base, val |-> val]
<1>1. ASSUME NEW d \in Client, NEW p \in Outbox(d)', NEW o \in Outbox(d)', p.ent = o.ent
      PROVE  p = o
  <2>1. CASE d = c
    <3>1. Outbox(c)' = Except(Outbox(c), e) \cup {new}
      BY DEF Outbox, ReplaceEntry, Except, ClientTypeOK
    <3>2. new.ent = e
      OBVIOUS
    <3> HIDE DEF new
    <3> QED
      BY <1>1, <2>1, <3>1, <3>2 DEF OneEntryPerEntity, Except
  <2>2. CASE d # c
    <3>1. Outbox(d)' = Outbox(d)
      BY <2>2 DEF Outbox, ReplaceEntry, ClientTypeOK
    <3> QED
      BY <1>1, <3>1 DEF OneEntryPerEntity
  <2> QED
    BY <2>1, <2>2
<1> QED
  BY <1>1 DEF OneEntryPerEntity

(* Answers, discards and crashes only take entries out of an outbox. *)
LEMMA ClearShrinks ==
  ASSUME ClientTypeOK, NEW c \in Client, NEW r, NEW B, Clear(c, r, B)
  PROVE  \A d \in Client : Outbox(d)' \subseteq Outbox(d)
<1>1. Outbox(c)' \subseteq Outbox(c)
  BY DEF ClientTypeOK, Clear, Outbox
<1>2. \A d \in Client \ {c} : Outbox(d)' = Outbox(d)
  BY DEF ClientTypeOK, Clear, Outbox
<1> QED
  BY <1>1, <1>2

LEMMA StopShrinks ==
  ASSUME ClientTypeOK, NEW c \in Client, NEW table,
         \/ Interrupt(c) \/ CrashInRequeue(c) \/ CrashInPull(c, table)
         \/ \E r : CrashInAnswer(c, r)
  PROVE  \A d \in Client : Outbox(d)' \subseteq Outbox(d)
<1>1. CASE CrashInRequeue(c)
  <2>1. PICK x \in conf[c] :
          /\ pending' = [pending EXCEPT ![c] = {p \in @ : p.id # x.id}]
          /\ blocked' = [blocked EXCEPT ![c] = {p \in @ : p.id # x.id}]
    BY <1>1 DEF CrashInRequeue
  <2>2. Outbox(c)' \subseteq Outbox(c)
    BY <2>1 DEF ClientTypeOK, Outbox
  <2>3. \A d \in Client \ {c} : Outbox(d)' = Outbox(d)
    BY <2>1 DEF ClientTypeOK, Outbox
  <2> QED
    BY <2>2, <2>3
<1>2. CASE Interrupt(c) \/ CrashInPull(c, table)
  BY <1>2 DEF Interrupt, CrashInPull, Outbox
<1>3. CASE \E r : CrashInAnswer(c, r)
  BY <1>3, CrashClears, ClearShrinks
<1> QED
  BY <1>1, <1>2, <1>3

(* All that a step can do to the outboxes. *)
LEMMA OutboxSteps ==
  ASSUME TypeInv, [Next]_vars
  PROVE  \/ \A d \in Client : Outbox(d)' \subseteq Outbox(d)
         \/ \E c \in Client : \E e, op, base, val : ReplaceEntry(c, e, op, base, val)
<1> DEFINE Same == \A d \in Client : Outbox(d)' = Outbox(d)
           Less == \A d \in Client : Outbox(d)' \subseteq Outbox(d)
           Replaces == \E c \in Client : \E e, op, base, val :
                         ReplaceEntry(c, e, op, base, val)
<1>0. ClientTypeOK
  BY DEF TypeInv, TypeOK
<1>1. ASSUME NEW c \in Client,
             \/ UserEdit(c) \/ SendPush(c) \/ SendRetry(c) \/ Pull(c) \/ FinishSync(c)
      PROVE  Same
  BY <1>1 DEF UserEdit, SendPush, SendRetry, Pull, FinishSync, CreateRow, EditRow,
              RetireRow, RemoveRow, StartEdit, StartSync, RetryPush, HandlePull,
              SaveServerTime, tableVars, Outbox
<1>2. ASSUME NEW c \in Client, FinishEdit(c) PROVE Less \/ Replaces
  <2>1. CASE Enqueue(c)
    BY <2>1 DEF Enqueue
  <2>2. CASE Discard(c)
    <3>1. PICK e : /\ pending' = [pending EXCEPT ![c] = Except(@, e)]
                   /\ blocked' = [blocked EXCEPT ![c] = Except(@, e)]
      BY <2>2 DEF Discard
    <3> QED
      BY <1>0, <3>1 DEF ClientTypeOK, Outbox, Except
  <2> QED
    BY <1>2, <2>1, <2>2 DEF FinishEdit
<1>3. ASSUME NEW c \in Client, ReceiveAnswer(c) PROVE Less
  BY <1>0, <1>3, ClearShrinks DEF ReceiveAnswer, HandleAnswer, HandleRetryAnswer, ProcessPush
<1>4. ASSUME NEW c \in Client, Requeue(c) PROVE Replaces
  BY <1>4 DEF Requeue, RequeueConflict
<1>5. ASSUME NEW c \in Client, Timeout(c) \/ ClientCrash(c) PROVE Less
  BY <1>0, <1>5, StopShrinks DEF Timeout, ClientCrash
<1>6. ASSUME NEW s \in Session,
             \/ \E c \in Client : Serve(s, c)
             \/ ServeLate(s) \/ Process(s) \/ Answer(s)
      PROVE  Same
  BY <1>6 DEF Serve, ServeLate, Process, Answer, clientVars, tableVars, Outbox
<1>7. ASSUME NEW s \in Session, Abort(s) PROVE Same
  BY <1>7 DEF Abort, Interrupt, clientVars, tableVars, Outbox
<1>8. ASSUME UNCHANGED vars PROVE Same
  BY <1>8 DEF vars, clientVars, tableVars, Outbox
<1>9. Same => Less
  OBVIOUS
<1> HIDE DEF Same, Less, Replaces
<1>10. Less \/ Replaces
  BY <1>1, <1>2, <1>3, <1>4, <1>5, <1>6, <1>7, <1>8, <1>9
     DEF Next, FailRequest, ServerCrash
<1> QED
  BY <1>10 DEF Less, Replaces

(* The squash of the outbox (_replace_outbox_entry) holds for any sequence *)
(* of edits, answers, requeues, discards and crashes on every device.      *)
THEOREM OneEntryAlways == Spec => []OneEntryPerEntity
<1>1. Init => OneEntryPerEntity
  BY DEF Init, ClientInit, OneEntryPerEntity, Outbox
<1>2. TypeInv /\ OneEntryPerEntity /\ [Next]_vars => OneEntryPerEntity'
  <2> SUFFICES ASSUME TypeInv, OneEntryPerEntity, [Next]_vars
               PROVE  OneEntryPerEntity'
    OBVIOUS
  <2>1. CASE \A d \in Client : Outbox(d)' \subseteq Outbox(d)
    BY <2>1 DEF OneEntryPerEntity
  <2>2. CASE \E c \in Client : \E e, op, base, val : ReplaceEntry(c, e, op, base, val)
    BY <2>2, ReplaceKeepsOne DEF TypeInv, TypeOK
  <2> QED
    BY <2>1, <2>2, OutboxSteps
<1>3. TypeInv /\ [Next]_vars => TypeInv'
  BY NextType
<1> QED
  BY <1>1, <1>2, <1>3, InitType, PTL DEF Spec

-----------------------------------------------------------------------------
(* A change is applied at most once. *)

LEMMA RecordReceipts ==
  ASSUME TypeInv, ReceiptInv, NEW s \in Session, NEW ch \in Change,
         NEW status, NEW sv, Record(s, ch, status, sv)
  PROVE  ReceiptInv'
<1> DEFINE r == [id |-> ch.id, user |-> tx[s].user, status |-> status, sv |-> sv]
           h == [tx[s] EXCEPT !.st = "ready", !.todo = tx[s].todo \ {ch},
                              !.seen = NoRow, !.rc = tx[s].rc \cup {r}]
<1>1. tx[s] \in Handler /\ tx \in [Session -> Handler]
  BY DEF TypeInv, TypeOK, EngineTypeOK
<1>2. tx' = [tx EXCEPT ![s] = h]
  BY DEF Record
<1>3. h.rc = tx[s].rc \cup {r} /\ h.au = tx[s].au
  BY <1>1 DEF Handler
<1>4. r.id = ch.id
  OBVIOUS
<1>5. /\ tx'[s].rc = tx[s].rc \cup {r} /\ tx'[s].au = tx[s].au
      /\ \A t \in Session \ {s} : tx'[t] = tx[t]
  <2> HIDE DEF h
  <2> QED
    BY <1>1, <1>2, <1>3
<1>6. /\ r.id \notin Ids(receipts)
      /\ \A t \in Session : \A x \in tx[t].rc : x.id # r.id
  BY DEF Record, ReceiptFree, Ids
<1>7. UNCHANGED <<receipts, audit>>
  BY DEF Record
<1> HIDE DEF r
<1> QED
  BY <1>5, <1>6, <1>7 DEF ReceiptInv, Unique, Accepted

LEMMA WriteReceipts ==
  ASSUME TypeInv, ReceiptInv, NEW s \in Session, NEW ch \in Change,
         NEW new, Write(s, ch, new)
  PROVE  ReceiptInv'
<1> DEFINE r == [id |-> ch.id, user |-> tx[s].user, status |-> "accepted", sv |-> 0]
           b == [id |-> ch.id, user |-> tx[s].user, ent |-> ch.ent,
                 base |-> ch.base, val |-> ch.val,
                 before |-> tx[s].seen.ver, after |-> new.ver]
           h == [tx[s] EXCEPT !.st = "ready", !.todo = tx[s].todo \ {ch},
                              !.seen = NoRow, !.wr = [tx[s].wr EXCEPT ![ch.ent] = new],
                              !.rc = tx[s].rc \cup {r}, !.au = tx[s].au \cup {b}]
<1>1. tx[s] \in Handler /\ tx \in [Session -> Handler]
  BY DEF TypeInv, TypeOK, EngineTypeOK
<1>2. tx' = [tx EXCEPT ![s] = h]
  BY DEF Write
<1>3. h.rc = tx[s].rc \cup {r} /\ h.au = tx[s].au \cup {b}
  BY <1>1 DEF Handler
<1>4. r.id = b.id /\ r.status = "accepted"
  OBVIOUS
<1>5. /\ tx'[s].rc = tx[s].rc \cup {r} /\ tx'[s].au = tx[s].au \cup {b}
      /\ \A t \in Session \ {s} : tx'[t] = tx[t]
  <2> HIDE DEF h
  <2> QED
    BY <1>1, <1>2, <1>3
<1>6. /\ r.id \notin Ids(receipts)
      /\ \A t \in Session : \A x \in tx[t].rc : x.id # r.id
  BY DEF Write, ReceiptFree, Ids
<1>7. UNCHANGED <<receipts, audit>>
  BY DEF Write
<1>8. \A a \in tx[s].au : a.id # b.id
  BY <1>4, <1>6 DEF ReceiptInv, Accepted
<1> HIDE DEF r, b
<1> QED
  BY <1>4, <1>5, <1>6, <1>7, <1>8 DEF ReceiptInv, Unique, Accepted

(* Steps that neither commit nor record: a handler's receipts stay or are  *)
(* rolled back.                                                            *)
LEMMA SameReceipts ==
  ASSUME ReceiptInv, UNCHANGED <<receipts, audit>>,
         \A s \in Session :
           \/ tx'[s].rc = tx[s].rc /\ tx'[s].au = tx[s].au
           \/ tx'[s].rc = {} /\ tx'[s].au = {}
  PROVE  ReceiptInv'
<1>1. \A s \in Session : tx'[s].rc \subseteq tx[s].rc /\ tx'[s].au \subseteq tx[s].au
  OBVIOUS
<1>2. \A s \in Session : \A a \in tx'[s].au : Accepted(a, tx'[s].rc)
  BY DEF ReceiptInv
<1> QED
  BY <1>1, <1>2 DEF ReceiptInv, Unique, Accepted

LEMMA CommitReceipts ==
  ASSUME TypeInv, ReceiptInv, NEW s \in Session, CommitPush(s)
  PROVE  ReceiptInv'
<1>1. /\ receipts' = receipts \cup tx[s].rc
      /\ audit' = audit \cup tx[s].au
  BY DEF CommitPush
<1>2. /\ tx'[s].rc = {} /\ tx'[s].au = {}
      /\ \A t \in Session \ {s} : tx'[t] = tx[t]
  BY DEF CommitPush, FreeHandler, TypeInv, TypeOK, EngineTypeOK
<1>3. Unique(receipts')
  BY <1>1 DEF ReceiptInv, Unique, Ids
<1>4. \A a \in audit' : Accepted(a, receipts')
  BY <1>1 DEF ReceiptInv, Accepted
<1>5. Unique(audit')
  <2>1. \A a \in audit : \A b \in tx[s].au : a.id # b.id
    BY DEF ReceiptInv, Accepted, Ids
  <2> QED
    BY <1>1, <2>1 DEF ReceiptInv, Unique
<1>6. ASSUME NEW t \in Session PROVE
       /\ Unique(tx'[t].rc) /\ Unique(tx'[t].au)
       /\ \A a \in tx'[t].au : Accepted(a, tx'[t].rc)
  BY <1>2 DEF ReceiptInv, Unique
<1>7. ASSUME NEW t \in Session, NEW x \in tx'[t].rc PROVE x.id \notin Ids(receipts')
  <2>1. t # s /\ x \in tx[t].rc
    BY <1>2, <1>7
  <2> QED
    BY <1>1, <2>1 DEF ReceiptInv, Ids
<1>8. \A t, u \in Session : \A x \in tx'[t].rc : \A y \in tx'[u].rc : x.id = y.id => t = u
  BY <1>2 DEF ReceiptInv
<1> QED
  BY <1>3, <1>4, <1>5, <1>6, <1>7, <1>8 DEF ReceiptInv

LEMMA ReceiptSteps == TypeInv /\ ReceiptInv /\ [Next]_vars => ReceiptInv'
<1> SUFFICES ASSUME TypeInv, ReceiptInv, [Next]_vars PROVE ReceiptInv'
  OBVIOUS
<1>0. tx \in [Session -> Handler]
  BY DEF TypeInv, TypeOK, EngineTypeOK
<1>1. ASSUME UNCHANGED engineVars PROVE ReceiptInv'
  BY <1>1, SameReceipts DEF engineVars
<1>2. ASSUME NEW c \in Client, HangUp(c) PROVE ReceiptInv'
  <2>1. \A s \in Session : tx'[s].rc = tx[s].rc /\ tx'[s].au = tx[s].au
    BY <1>0, <1>2 DEF HangUp, Handler
  <2> QED
    BY <1>2, <2>1, SameReceipts DEF HangUp
<1>3. ASSUME NEW s \in Session, NEW u, NEW batch, NEW live, BeginPush(s, u, batch, live)
      PROVE  ReceiptInv'
  <2>1. tx'[s].rc = {} /\ tx'[s].au = {} /\ \A t \in Session \ {s} : tx'[t] = tx[t]
    BY <1>0, <1>3 DEF BeginPush, FreeHandler
  <2> QED
    BY <1>3, <2>1, SameReceipts DEF BeginPush
<1>4. ASSUME NEW s \in Session, RollbackPush(s) PROVE ReceiptInv'
  <2>1. tx'[s].rc = {} /\ tx'[s].au = {} /\ \A t \in Session \ {s} : tx'[t] = tx[t]
    BY <1>0, <1>4 DEF RollbackPush, FreeHandler
  <2> QED
    BY <1>4, <2>1, SameReceipts DEF RollbackPush
<1>5. ASSUME NEW s \in Session, ProcessChange(s) PROVE ReceiptInv'
  <2>1. PICK ch \in tx[s].todo :
          \/ \E status, sv : Record(s, ch, status, sv)
          \/ \E new : Write(s, ch, new)
          \/ Fetch(s, ch)
    BY <1>5 DEF ProcessChange, Refuse, Conflict, RejectTarget, Insert, InsertClash,
                Update, SoftDelete, DeleteMissing, LockFailure
  <2>2. ch \in Change
    BY <1>0 DEF Handler
  <2>3. CASE Fetch(s, ch)
    <3>1. tx'[s].rc = tx[s].rc /\ tx'[s].au = tx[s].au /\ \A t \in Session \ {s} : tx'[t] = tx[t]
      BY <1>0, <2>3 DEF Fetch, Handler
    <3> QED
      BY <2>3, <3>1, SameReceipts DEF Fetch
  <2> QED
    BY <2>1, <2>2, <2>3, RecordReceipts, WriteReceipts
<1>6. ASSUME NEW c \in Client,
             \/ UserEdit(c) \/ FinishEdit(c) \/ SendPush(c) \/ SendRetry(c)
             \/ ReceiveAnswer(c) \/ Requeue(c) \/ Pull(c) \/ FinishSync(c)
      PROVE  ReceiptInv'
  BY <1>1, <1>6 DEF UserEdit, FinishEdit, SendPush, SendRetry, ReceiveAnswer, Requeue,
                    Pull, FinishSync
<1>7. ASSUME NEW c \in Client, Timeout(c) \/ ClientCrash(c) PROVE ReceiptInv'
  BY <1>2, <1>7 DEF Timeout, ClientCrash
<1>8. ASSUME NEW s \in Session, (\E c \in Client : Serve(s, c)) \/ ServeLate(s)
      PROVE  ReceiptInv'
  BY <1>3, <1>8 DEF Serve, ServeLate
<1>9. ASSUME NEW s \in Session, Process(s) PROVE ReceiptInv'
  BY <1>5, <1>9 DEF Process
<1>10. ASSUME NEW s \in Session, Answer(s) PROVE ReceiptInv'
  BY <1>10, CommitReceipts DEF Answer
<1>11. ASSUME NEW s \in Session, FailRequest(s) \/ ServerCrash(s) PROVE ReceiptInv'
  BY <1>4, <1>11 DEF FailRequest, ServerCrash, Abort
<1>12. ASSUME UNCHANGED vars PROVE ReceiptInv'
  BY <1>1, <1>12 DEF vars
<1> QED
  BY <1>6, <1>7, <1>8, <1>9, <1>10, <1>11, <1>12 DEF Next

LEMMA ReceiptsAlways == Spec => [](TypeInv /\ ReceiptInv)
<1>1. Init => ReceiptInv
  BY DEF Init, EngineInit, ReceiptInv, Unique, FreeHandler
<1> QED
  BY <1>1, InitType, NextType, ReceiptSteps, PTL DEF Spec

(* push_changes applies a change at most once, for any number of devices,  *)
(* handlers that overlap, retries, late requests and crashes.              *)
THEOREM AppliedAtMostOnce == Spec => []AtMostOnce
<1>1. ReceiptInv => AtMostOnce
  BY DEF ReceiptInv, Unique, AtMostOnce
<1> QED
  BY <1>1, ReceiptsAlways, PTL

-----------------------------------------------------------------------------
(* The conversation invariant. *)

(* A client whose part of the conversation a step leaves alone. *)
LEMMA ClientFrame ==
  ASSUME NEW c \in Client, WireOK(c), ReplyOK(c),
         pc'[c] = pc[c], sent'[c] = sent[c], wire'[c] = wire[c], reply'[c] = reply[c],
         receipts \subseteq receipts',
         \A s \in Session : Serves(s, c)' => Serves(s, c)
  PROVE  WireOK(c)' /\ ReplyOK(c)'
<1>1. Waiting(c)' <=> Waiting(c)
  BY DEF Waiting
<1>2. Ids(receipts) \subseteq Ids(receipts')
  BY DEF Ids
<1>3. WireOK(c)'
  BY <1>1 DEF WireOK
<1>4. ReplyOK(c)'
  BY <1>1, <1>2 DEF ReplyOK
<1> QED
  BY <1>3, <1>4

(* A handler that a step leaves alone, with the client it serves. *)
LEMMA HandlerFrame ==
  ASSUME NEW s \in Session, HandlerOK(s), tx'[s] = tx[s],
         receipts \subseteq receipts',
         tx[s].live =>
           /\ pc'[tx[s].user] = pc[tx[s].user]
           /\ sent'[tx[s].user] = sent[tx[s].user]
           /\ reply'[tx[s].user] = {}
           /\ \A t \in Session : tx'[t].live /\ tx'[t].user = tx[s].user =>
                                 Serves(t, tx[s].user)
  PROVE  HandlerOK(s)'
<1>1. Ids(receipts) \subseteq Ids(receipts')
  BY DEF Ids
<1> QED
  BY <1>1 DEF HandlerOK, Waiting, Serves

(* Steps of the client alone that leave it without a request: whoever was  *)
(* serving it no longer does.                                              *)
LEMMA ClientMoves ==
  ASSUME TypeInv, ExchangeInv, NEW c \in Client,
         wire'[c] = {}, reply'[c] = {}, UNCHANGED receipts,
         \A s \in Session : tx'[s].dup = tx[s].dup /\ ~(tx'[s].live /\ tx'[s].user = c),
         \A s \in Session : tx[s].user # c => tx'[s] = tx[s],
         \A s \in Session : tx'[s].user = tx[s].user,
         \A d \in Client \ {c} : /\ pc'[d] = pc[d] /\ sent'[d] = sent[d]
                                 /\ wire'[d] = wire[d] /\ reply'[d] = reply[d]
  PROVE  ExchangeInv'
<1>1. WireOK(c)' /\ ReplyOK(c)'
  BY DEF WireOK, ReplyOK
<1>2. ASSUME NEW d \in Client \ {c} PROVE WireOK(d)' /\ ReplyOK(d)'
  <2>1. \A s \in Session : Serves(s, d)' => Serves(s, d)
    BY DEF Serves
  <2> QED
    BY <2>1, ClientFrame DEF ExchangeInv
<1>3. ASSUME NEW s \in Session PROVE HandlerOK(s)'
  <2>1. CASE tx[s].user = c
    BY <2>1 DEF ExchangeInv, HandlerOK
  <2>2. CASE tx[s].user # c
    <3>1. tx[s].live => tx[s].user \in Client \ {c}
      BY <2>2 DEF TypeInv, HandlersHaveUsers, ExchangeInv, HandlerOK
    <3>2. tx'[s] = tx[s]
      BY <2>2
    <3>3. ASSUME tx[s].live
          PROVE  /\ pc'[tx[s].user] = pc[tx[s].user]
                 /\ sent'[tx[s].user] = sent[tx[s].user]
                 /\ reply'[tx[s].user] = {}
      BY <3>1, <3>3 DEF ExchangeInv, HandlerOK
    <3>4. ASSUME NEW t \in Session, tx'[t].live, tx'[t].user = tx[s].user
          PROVE  Serves(t, tx[s].user)
      BY <2>2, <3>4 DEF Serves
    <3> QED
      BY <3>2, <3>3, <3>4, HandlerFrame DEF ExchangeInv
  <2> QED
    BY <2>1, <2>2
<1> QED
  BY <1>1, <1>2, <1>3 DEF ExchangeInv

(* A change is decided: it leaves the work list and gets a receipt. *)
Decides(s, ch) ==
  /\ tx'[s].st = "ready" /\ tx'[s].user = tx[s].user
  /\ tx'[s].live = tx[s].live /\ tx'[s].dup = tx[s].dup
  /\ tx'[s].todo = tx[s].todo \ {ch}
  /\ \E r : r.id = ch.id /\ tx'[s].rc = tx[s].rc \cup {r}
  /\ \A t \in Session \ {s} : tx'[t] = tx[t]
  /\ UNCHANGED receipts

LEMMA RecordDecides ==
  ASSUME TypeInv, NEW s \in Session, NEW ch, NEW status, NEW sv,
         Record(s, ch, status, sv)
  PROVE  Decides(s, ch)
<1> DEFINE r == [id |-> ch.id, user |-> tx[s].user, status |-> status, sv |-> sv]
           h == [tx[s] EXCEPT !.st = "ready", !.todo = tx[s].todo \ {ch},
                              !.seen = NoRow, !.rc = tx[s].rc \cup {r}]
<1>1. tx[s] \in Handler /\ tx \in [Session -> Handler]
  BY DEF TypeInv, TypeOK, EngineTypeOK
<1>2. tx' = [tx EXCEPT ![s] = h] /\ UNCHANGED receipts
  BY DEF Record
<1>3. /\ h.st = "ready" /\ h.user = tx[s].user /\ h.live = tx[s].live
      /\ h.dup = tx[s].dup /\ h.todo = tx[s].todo \ {ch}
      /\ h.rc = tx[s].rc \cup {r}
  BY <1>1 DEF Handler
<1>4. r.id = ch.id
  OBVIOUS
<1> HIDE DEF h, r
<1> QED
  BY <1>1, <1>2, <1>3, <1>4 DEF Decides

LEMMA WriteDecides ==
  ASSUME TypeInv, NEW s \in Session, NEW ch, NEW new, Write(s, ch, new)
  PROVE  Decides(s, ch)
<1> DEFINE r == [id |-> ch.id, user |-> tx[s].user, status |-> "accepted", sv |-> 0]
           b == [id |-> ch.id, user |-> tx[s].user, ent |-> ch.ent,
                 base |-> ch.base, val |-> ch.val,
                 before |-> tx[s].seen.ver, after |-> new.ver]
           h == [tx[s] EXCEPT !.st = "ready", !.todo = tx[s].todo \ {ch},
                              !.seen = NoRow, !.wr = [tx[s].wr EXCEPT ![ch.ent] = new],
                              !.rc = tx[s].rc \cup {r}, !.au = tx[s].au \cup {b}]
<1>1. tx[s] \in Handler /\ tx \in [Session -> Handler]
  BY DEF TypeInv, TypeOK, EngineTypeOK
<1>2. tx' = [tx EXCEPT ![s] = h] /\ UNCHANGED receipts
  BY DEF Write
<1>3. /\ h.st = "ready" /\ h.user = tx[s].user /\ h.live = tx[s].live
      /\ h.dup = tx[s].dup /\ h.todo = tx[s].todo \ {ch}
      /\ h.rc = tx[s].rc \cup {r}
  BY <1>1 DEF Handler
<1>4. r.id = ch.id
  OBVIOUS
<1> HIDE DEF h, r
<1> QED
  BY <1>1, <1>2, <1>3, <1>4 DEF Decides

(* Processing a change keeps the books of the handler: no change of the    *)
(* batch is forgotten.                                                     *)
KeepsBooks(s) ==
  /\ tx'[s].st # "free" /\ tx'[s].user = tx[s].user
  /\ tx'[s].live = tx[s].live /\ tx'[s].dup = tx[s].dup
  /\ Ids(tx[s].todo) \cup Ids(tx[s].rc)
       \subseteq Ids(tx'[s].todo) \cup Ids(tx'[s].rc)
  /\ \A t \in Session \ {s} : tx'[t] = tx[t]
  /\ UNCHANGED receipts

LEMMA ProcessKeepsBooks ==
  ASSUME TypeInv, NEW s \in Session, ProcessChange(s)
  PROVE  KeepsBooks(s)
<1>0. tx \in [Session -> Handler]
  BY DEF TypeInv, TypeOK, EngineTypeOK
<1>1. PICK ch \in tx[s].todo :
        \/ \E status, sv : Record(s, ch, status, sv)
        \/ \E new : Write(s, ch, new)
        \/ Fetch(s, ch)
  BY DEF ProcessChange, Refuse, Conflict, RejectTarget, Insert, InsertClash,
         Update, SoftDelete, DeleteMissing, LockFailure
<1>2. CASE Fetch(s, ch)
  BY <1>0, <1>2 DEF Fetch, Handler, KeepsBooks
<1>3. CASE Decides(s, ch)
  BY <1>3 DEF Decides, KeepsBooks, Ids
<1> QED
  BY <1>1, <1>2, <1>3, RecordDecides, WriteDecides

(* A handler is freed or starts over without its client. *)
LEMMA HandlerLeaves ==
  ASSUME TypeInv, ExchangeInv, NEW s \in Session,
         ~tx'[s].live, tx'[s].dup \subseteq Ids(receipts),
         \A t \in Session \ {s} : tx'[t] = tx[t],
         receipts \subseteq receipts',
         \A d \in Client : Serves(s, d) => WireOK(d)' /\ ReplyOK(d)',
         \A d \in Client : ~Serves(s, d) =>
           /\ pc'[d] = pc[d] /\ sent'[d] = sent[d]
           /\ wire'[d] = wire[d] /\ reply'[d] = reply[d]
  PROVE  ExchangeInv'
<1>1. ASSUME NEW d \in Client PROVE WireOK(d)' /\ ReplyOK(d)'
  <2>1. CASE Serves(s, d)
    BY <2>1
  <2>2. CASE ~Serves(s, d)
    <3>1. \A t \in Session : Serves(t, d)' => Serves(t, d)
      BY DEF Serves
    <3> QED
      BY <2>2, <3>1, ClientFrame DEF ExchangeInv
  <2> QED
    BY <2>1, <2>2
<1>2. HandlerOK(s)'
  BY DEF HandlerOK, Ids
<1>3. ASSUME NEW t \in Session \ {s} PROVE HandlerOK(t)'
  <2>1. ASSUME tx[t].live
        PROVE  /\ pc'[tx[t].user] = pc[tx[t].user]
               /\ sent'[tx[t].user] = sent[tx[t].user]
               /\ reply'[tx[t].user] = {}
    <3>1. tx[t].user \in Client /\ reply[tx[t].user] = {} /\ ~Serves(s, tx[t].user)
      BY <2>1 DEF ExchangeInv, HandlerOK, TypeInv, HandlersHaveUsers
    <3> QED
      BY <3>1
  <2>2. \A u \in Session : tx'[u].live /\ tx'[u].user = tx[t].user => Serves(u, tx[t].user)
    BY DEF Serves
  <2> QED
    BY <2>1, <2>2, HandlerFrame DEF ExchangeInv
<1> QED
  BY <1>1, <1>2, <1>3 DEF ExchangeInv

(* A step of a handler that stays with its client. *)
LEMMA HandlerWorks ==
  ASSUME TypeInv, ExchangeInv, NEW s \in Session, KeepsBooks(s),
         UNCHANGED <<pc, sent, wire, reply>>
  PROVE  ExchangeInv'
<1>1. \A t \in Session : \A d : Serves(t, d)' => Serves(t, d)
  BY DEF KeepsBooks, Serves
<1>2. \A d \in Client : WireOK(d)' /\ ReplyOK(d)'
  BY <1>1, ClientFrame DEF ExchangeInv, KeepsBooks
<1>3. HandlerOK(s)'
  <2>1. \A t \in Session : tx'[t].live /\ tx'[t].user = tx[s].user =>
                           Serves(t, tx[s].user)
    BY DEF KeepsBooks, Serves
  <2> QED
    BY <2>1 DEF ExchangeInv, HandlerOK, KeepsBooks, Waiting, Serves
<1>4. ASSUME NEW t \in Session \ {s} PROVE HandlerOK(t)'
  BY <1>1, <1>4, HandlerFrame DEF ExchangeInv, HandlerOK, KeepsBooks, Serves
<1> QED
  BY <1>2, <1>3, <1>4 DEF ExchangeInv

LEMMA ExchangeSteps == TypeInv /\ ExchangeInv /\ [Next]_vars => ExchangeInv'
<1> SUFFICES ASSUME TypeInv, ExchangeInv, [Next]_vars PROVE ExchangeInv'
  OBVIOUS
<1>0. /\ tx \in [Session -> Handler] /\ pc \in [Client -> Place]
      /\ sent \in [Client -> SUBSET Change] /\ wire \in [Client -> SUBSET Change]
      /\ reply \in [Client -> SUBSET Reply]
  BY DEF TypeInv, TypeOK, EngineTypeOK, ClientTypeOK
<1>1. \A c \in Client : ~Waiting(c) =>
        wire[c] = {} /\ reply[c] = {} /\ \A s \in Session : ~Serves(s, c)
  BY DEF ExchangeInv, WireOK, ReplyOK, HandlerOK, Serves
<1>2. ASSUME NEW c \in Client, ~Waiting(c), UNCHANGED <<engineVars, netVars>>,
             \A d \in Client \ {c} : pc'[d] = pc[d] /\ sent'[d] = sent[d]
      PROVE  ExchangeInv'
  BY <1>1, <1>2, ClientMoves DEF engineVars, netVars, Serves
<1>3. ASSUME NEW c \in Client, UserEdit(c) \/ FinishEdit(c) \/ Requeue(c) \/ Pull(c)
                               \/ FinishSync(c)
      PROVE  ExchangeInv'
  <2>1. ~Waiting(c) /\ UNCHANGED <<engineVars, netVars>>
    BY <1>3 DEF UserEdit, FinishEdit, Requeue, Pull, FinishSync, CreateRow, EditRow,
                RetireRow, RemoveRow, StartEdit, Enqueue, Discard, RequeueConflict,
                HandlePull, SaveServerTime, Waiting
  <2>2. \A d \in Client \ {c} : pc'[d] = pc[d] /\ sent'[d] = sent[d]
    BY <1>0, <1>3 DEF UserEdit, FinishEdit, Requeue, Pull, FinishSync, CreateRow, EditRow,
                RetireRow, RemoveRow, StartEdit, Enqueue, Discard, RequeueConflict,
                HandlePull, SaveServerTime
  <2> QED
    BY <1>2, <2>1, <2>2
<1>4. ASSUME NEW c \in Client, SendPush(c) \/ SendRetry(c) PROVE ExchangeInv'
  <2>1. /\ ~Waiting(c)
        /\ sent'[c] = {} \/ Waiting(c)'
        /\ wire'[c] = sent'[c]
        /\ UNCHANGED <<tx, receipts, reply>>
    BY <1>0, <1>4 DEF SendPush, SendRetry, StartSync, RetryPush, Waiting, engineVars
  <2>2. \A d \in Client \ {c} : pc'[d] = pc[d] /\ sent'[d] = sent[d] /\ wire'[d] = wire[d]
    BY <1>0, <1>4 DEF SendPush, SendRetry, StartSync, RetryPush
  <2>3. \A s \in Session : \A d : Serves(s, d)' => Serves(s, d)
    BY <2>1 DEF Serves
  <2>4. WireOK(c)' /\ ReplyOK(c)'
    BY <1>1, <2>1, <2>3 DEF WireOK, ReplyOK
  <2>5. \A d \in Client \ {c} : WireOK(d)' /\ ReplyOK(d)'
    BY <2>1, <2>2, <2>3, ClientFrame DEF ExchangeInv
  <2>6. ASSUME NEW s \in Session PROVE HandlerOK(s)'
    <3>1. tx[s].live => tx[s].user \in Client \ {c} /\ reply[tx[s].user] = {}
      BY <1>1, <2>1 DEF ExchangeInv, HandlerOK, Serves, TypeInv, HandlersHaveUsers
    <3> QED
      BY <2>1, <2>2, <3>1, HandlerFrame DEF ExchangeInv, Serves
  <2> QED
    BY <2>4, <2>5, <2>6 DEF ExchangeInv
<1>5. ASSUME NEW c \in Client, ReceiveAnswer(c) PROVE ExchangeInv'
  <2>1. /\ wire[c] = {} /\ \A s \in Session : ~Serves(s, c)
        /\ UNCHANGED <<tx, receipts, wire>>
    BY <1>5 DEF ReceiveAnswer, ExchangeInv, WireOK, ReplyOK, engineVars
  <2>2. /\ reply'[c] = {}
        /\ \A d \in Client \ {c} : /\ pc'[d] = pc[d] /\ sent'[d] = sent[d]
                                   /\ reply'[d] = reply[d]
    BY <1>0, <1>5 DEF ReceiveAnswer, HandleAnswer, HandleRetryAnswer
  <2> QED
    BY <2>1, <2>2, ClientMoves DEF Serves
<1>6. ASSUME NEW c \in Client, Timeout(c) \/ ClientCrash(c) PROVE ExchangeInv'
  <2>1. HangUp(c) /\ Stop(c)
    BY <1>6, CrashClears DEF Timeout, ClientCrash, Interrupt, CrashInRequeue, CrashInPull
  <2>2. /\ wire'[c] = {} /\ reply'[c] = {} /\ UNCHANGED receipts
        /\ \A d \in Client \ {c} : /\ pc'[d] = pc[d] /\ sent'[d] = sent[d]
                                   /\ wire'[d] = wire[d] /\ reply'[d] = reply[d]
    BY <1>0, <2>1 DEF HangUp, Stop
  <2>3. ASSUME NEW s \in Session
        PROVE  /\ tx'[s].dup = tx[s].dup /\ tx'[s].user = tx[s].user
               /\ ~(tx'[s].live /\ tx'[s].user = c)
               /\ tx[s].user # c => tx'[s] = tx[s]
    BY <1>0, <2>1 DEF HangUp, Handler
  <2> QED
    BY <2>2, <2>3, ClientMoves
<1>7. ASSUME NEW s \in Session, NEW c \in Client, Serve(s, c) PROVE ExchangeInv'
  <2>1. /\ Waiting(c) /\ wire[c] = sent[c] /\ reply[c] = {} /\ tx[s].st = "free"
        /\ \A t \in Session : ~Serves(t, c)
    BY <1>7 DEF Serve, BeginPush, ExchangeInv, WireOK
  <2>2. /\ UNCHANGED <<pc, sent, reply, receipts>>
        /\ wire'[c] = {} /\ \A d \in Client \ {c} : wire'[d] = wire[d]
    BY <1>0, <1>7 DEF Serve, BeginPush, clientVars, syncVars
  <2>3. /\ tx'[s].st = "ready" /\ tx'[s].live /\ tx'[s].user = c
        /\ tx'[s].dup \subseteq Ids(receipts)
        /\ Ids(sent[c]) \subseteq tx'[s].dup \cup Ids(tx'[s].todo)
        /\ \A t \in Session \ {s} : tx'[t] = tx[t]
    BY <1>0, <1>7, <2>1 DEF Serve, BeginPush, FreeHandler, Ids
  <2>4. \A t \in Session, d \in Client \ {c} : Serves(t, d)' => Serves(t, d)
    BY <2>3 DEF Serves
  <2>5. \A d \in Client \ {c} : WireOK(d)' /\ ReplyOK(d)'
    BY <2>2, <2>4, ClientFrame DEF ExchangeInv
  <2>6. WireOK(c)' /\ ReplyOK(c)'
    BY <2>1, <2>2 DEF WireOK, ReplyOK
  <2>7. HandlerOK(s)'
    BY <2>1, <2>2, <2>3 DEF HandlerOK, Waiting, Serves
  <2>8. ASSUME NEW t \in Session \ {s} PROVE HandlerOK(t)'
    <3>1. tx[t].live => tx[t].user \in Client \ {c} /\ reply[tx[t].user] = {}
      BY <2>1 DEF ExchangeInv, HandlerOK, Serves, TypeInv, HandlersHaveUsers
    <3>2. \A u \in Session : tx[t].live /\ tx'[u].live /\ tx'[u].user = tx[t].user =>
                             Serves(u, tx[t].user)
      BY <2>3, <3>1 DEF Serves
    <3> QED
      BY <2>2, <2>3, <3>1, <3>2, HandlerFrame DEF ExchangeInv
  <2> QED
    BY <2>5, <2>6, <2>7, <2>8 DEF ExchangeInv
<1>8. ASSUME NEW s \in Session, ServeLate(s) PROVE ExchangeInv'
  <2>1. PICK q \in late : BeginPush(s, q.user, q.todo, FALSE)
    BY <1>8 DEF ServeLate
  <2>2. /\ ~tx'[s].live /\ tx'[s].dup \subseteq Ids(receipts) /\ ~tx[s].live
        /\ \A t \in Session \ {s} : tx'[t] = tx[t]
    BY <1>0, <2>1 DEF BeginPush, FreeHandler, Ids, ExchangeInv, HandlerOK
  <2>3. UNCHANGED <<pc, sent, wire, reply, receipts>>
    BY <1>8, <2>1 DEF ServeLate, BeginPush, clientVars, syncVars
  <2> QED
    BY <2>2, <2>3, HandlerLeaves DEF Serves
<1>9. ASSUME NEW s \in Session, Process(s) PROVE ExchangeInv'
  BY <1>9, ProcessKeepsBooks, HandlerWorks DEF Process, clientVars, syncVars, netVars
<1>10. ASSUME NEW s \in Session, Answer(s) PROVE ExchangeInv'
  <2>1. /\ ~tx'[s].live /\ tx'[s].dup = {}
        /\ \A t \in Session \ {s} : tx'[t] = tx[t]
        /\ receipts' = receipts \cup tx[s].rc /\ tx[s].todo = {}
        /\ UNCHANGED <<pc, sent, wire>>
    BY <1>0, <1>10 DEF Answer, CommitPush, FreeHandler, clientVars, syncVars
  <2>2. ASSUME NEW d \in Client, ~Serves(s, d) PROVE reply'[d] = reply[d]
    BY <1>0, <1>10, <2>2 DEF Answer, Serves
  <2>3. ASSUME NEW d \in Client, Serves(s, d) PROVE WireOK(d)' /\ ReplyOK(d)'
    <3>1. reply'[d] = {[dup |-> tx[s].dup, out |-> tx[s].rc]}
      BY <1>0, <1>10, <2>3 DEF Answer, Serves
    <3>2. /\ Waiting(d) /\ wire[d] = {}
          /\ \A t \in Session : Serves(t, d) => t = s
          /\ Ids(sent[d]) \subseteq tx[s].dup \cup Ids(tx[s].rc)
          /\ tx[s].dup \subseteq Ids(receipts)
      BY <2>1, <2>3 DEF ExchangeInv, WireOK, HandlerOK, Serves, Ids
    <3>3. \A t \in Session : ~Serves(t, d)'
      BY <2>1, <3>2 DEF Serves
    <3> QED
      BY <2>1, <3>1, <3>2, <3>3 DEF WireOK, ReplyOK, Waiting, Ids
  <2> QED
    BY <2>1, <2>2, <2>3, HandlerLeaves
<1>11. ASSUME NEW s \in Session, Abort(s) PROVE ExchangeInv'
  <2>1. /\ ~tx'[s].live /\ tx'[s].dup = {}
        /\ \A t \in Session \ {s} : tx'[t] = tx[t]
        /\ UNCHANGED <<receipts, wire, reply>>
    BY <1>0, <1>11 DEF Abort, RollbackPush, FreeHandler, netVars
  <2>2. ASSUME NEW d \in Client, ~Serves(s, d) PROVE pc'[d] = pc[d] /\ sent'[d] = sent[d]
    BY <1>0, <1>11, <2>2 DEF Abort, Interrupt, Stop, Serves, clientVars, syncVars
  <2>3. ASSUME NEW d \in Client, Serves(s, d) PROVE WireOK(d)' /\ ReplyOK(d)'
    <3>1. wire[d] = {} /\ reply[d] = {}
      BY <2>3 DEF ExchangeInv, WireOK, HandlerOK, Serves
    <3> QED
      BY <2>1, <3>1 DEF WireOK, ReplyOK
  <2> QED
    BY <2>1, <2>2, <2>3, HandlerLeaves
<1>12. ASSUME UNCHANGED vars PROVE ExchangeInv'
  BY <1>12 DEF vars, engineVars, clientVars, syncVars, netVars, ExchangeInv, WireOK,
               ReplyOK, HandlerOK, Serves, Waiting
<1> QED
  BY <1>3, <1>4, <1>5, <1>6, <1>7, <1>8, <1>9, <1>10, <1>11, <1>12
     DEF Next, FailRequest, ServerCrash

LEMMA ExchangeAlways == Spec => [](TypeInv /\ ExchangeInv)
<1>1. Init => ExchangeInv
  BY DEF Init, EngineInit, ExchangeInv, WireOK, ReplyOK, HandlerOK, FreeHandler
<1> QED
  BY <1>1, InitType, NextType, ExchangeSteps, PTL DEF Spec

-----------------------------------------------------------------------------
(* What an answer does to the outbox. *)

(* An answer to c is worked through, to its end or not, blocking only what *)
(* it says was refused.                                                    *)
Clears(c) ==
  \E r \in reply[c] : \E B :
    B \subseteq Ids({x \in r.out : x.status # "accepted"}) /\ Clear(c, r, B)

LEMMA WorksThrough ==
  ASSUME NEW c \in Client,
         ReceiveAnswer(c) \/ \E r \in reply[c] : CrashInAnswer(c, r)
  PROVE  Clears(c)
<1>1. CASE ReceiveAnswer(c)
  <2>1. PICK r \in reply[c] : \E block : ProcessPush(c, r, block)
    BY <1>1 DEF ReceiveAnswer, HandleAnswer, HandleRetryAnswer
  <2>2. \A block : ToBlock(r, block) \subseteq Ids({x \in r.out : x.status # "accepted"})
    BY DEF ToBlock, WithStatus, Ids
  <2> QED
    BY <2>1, <2>2 DEF ProcessPush, Clears
<1>2. CASE \E r \in reply[c] : CrashInAnswer(c, r)
  BY <1>2, CrashClears DEF Clears
<1> QED
  BY <1>1, <1>2

(* Only an answer touches the outbox of a client that waits for one. *)
LEMMA WaitingKeeps ==
  ASSUME TypeInv, [Next]_vars, NEW c \in Client, Waiting(c), ~Clears(c)
  PROVE  Outbox(c)' = Outbox(c)
<1>0. /\ pending \in [Client -> SUBSET Change] /\ blocked \in [Client -> SUBSET Change]
  BY DEF TypeInv, TypeOK, ClientTypeOK
<1> DEFINE Same == pending'[c] = pending[c] /\ blocked'[c] = blocked[c]
<1>1. ASSUME NEW d \in Client,
             \/ UserEdit(d) \/ SendPush(d) \/ SendRetry(d) \/ Pull(d) \/ FinishSync(d)
      PROVE  Same
  BY <1>1 DEF UserEdit, SendPush, SendRetry, Pull, FinishSync, CreateRow, EditRow,
              RetireRow, RemoveRow, StartEdit, StartSync, RetryPush, HandlePull,
              SaveServerTime, tableVars
<1>2. ASSUME NEW d \in Client, FinishEdit(d) \/ Requeue(d) PROVE Same
  <2>1. d # c
    BY <1>2 DEF FinishEdit, Requeue, Enqueue, Discard, RequeueConflict, Waiting
  <2> QED
    BY <1>0, <1>2, <2>1 DEF FinishEdit, Requeue, Enqueue, Discard, RequeueConflict,
                            ReplaceEntry
<1>3. ASSUME NEW d \in Client,
             ReceiveAnswer(d) \/ \E r \in reply[d] : CrashInAnswer(d, r)
      PROVE  Same
  <2>1. Clears(d)
    BY <1>3, WorksThrough
  <2>2. d # c
    BY <2>1
  <2>3. PICK r, B : Clear(d, r, B)
    BY <2>1 DEF Clears
  <2> QED
    BY <1>0, <2>2, <2>3 DEF Clear
<1>4. ASSUME NEW d \in Client, Timeout(d) \/ ClientCrash(d) PROVE Same
  <2>1. CASE CrashInRequeue(d)
    <3>1. d # c
      BY <2>1 DEF CrashInRequeue, Waiting
    <3> QED
      BY <1>0, <2>1, <3>1 DEF CrashInRequeue
  <2>2. CASE Interrupt(d) \/ CrashInPull(d, item)
    BY <2>2 DEF Interrupt, CrashInPull
  <2> QED
    BY <1>3, <1>4, <2>1, <2>2 DEF Timeout, ClientCrash
<1>5. ASSUME NEW s \in Session,
             \/ \E d \in Client : Serve(s, d)
             \/ ServeLate(s) \/ Process(s) \/ Answer(s) \/ Abort(s)
      PROVE  Same
  BY <1>5 DEF Serve, ServeLate, Process, Answer, Abort, Interrupt, clientVars, tableVars
<1>6. ASSUME UNCHANGED vars PROVE Same
  BY <1>6 DEF vars, clientVars, tableVars
<1> HIDE DEF Same
<1>7. Same
  BY <1>1, <1>2, <1>3, <1>4, <1>5, <1>6 DEF Next, FailRequest, ServerCrash
<1> QED
  BY <1>7 DEF Same, Outbox

(* What _process_push clears is what the answer accounts for. *)
LEMMA AnswerClears ==
  ASSUME TypeInv, NEW c \in Client, NEW r \in reply[c], NEW B, Clear(c, r, B),
         NEW p \in Outbox(c), p \notin Outbox(c)'
  PROVE  p.id \in Ids(sent[c]) \cup r.dup
<1>2. p \notin pending'[c] /\ p \notin blocked'[c]
  BY DEF Outbox
<1>3. pending \in [Client -> SUBSET Change] /\ blocked \in [Client -> SUBSET Change]
  BY DEF TypeInv, TypeOK, ClientTypeOK
<1> QED
  BY <1>2, <1>3 DEF Clear, Outbox

(* Clearing the outbox never loses a change: what a push takes out of it   *)
(* the server has decided and committed, whatever was lost, retried or     *)
(* served late before.                                                     *)
THEOREM DropsOnlyDecided == Spec => SyncDropsOnlyDecided
<1> DEFINE Drops == \A c \in Client : pc[c] \in {"wait", "rewait"} =>
                      \A p \in Outbox(c) \ Outbox(c)' : p.id \in Ids(receipts)
<1>1. TypeInv /\ ExchangeInv /\ [Next]_vars => Drops
  <2> SUFFICES ASSUME TypeInv, ExchangeInv, [Next]_vars, NEW c \in Client, Waiting(c),
                      NEW p \in Outbox(c) \ Outbox(c)'
               PROVE  p.id \in Ids(receipts)
    BY DEF Waiting
  <2>1. Clears(c)
    BY WaitingKeeps
  <2>2. PICK r \in reply[c] : \E B : Clear(c, r, B)
    BY <2>1 DEF Clears
  <2>3. p.id \in Ids(sent[c]) \cup r.dup
    BY <2>2, AnswerClears
  <2>4. Ids(r.out) \subseteq Ids(receipts)
    BY DEF ExchangeInv, ReplyOK, Ids
  <2> QED
    BY <2>3, <2>4 DEF ExchangeInv, ReplyOK
<1>2. Spec => [][Drops]_vars
  <2> HIDE DEF Drops
  <2> QED
    BY <1>1, ExchangeAlways, PTL DEF Spec
<1> QED
  BY <1>2 DEF SyncDropsOnlyDecided

-----------------------------------------------------------------------------
(* What is blocked was refused. *)

(* An answer blocks only what it says was refused. *)
LEMMA AnswerBlocks ==
  ASSUME TypeInv, NEW c \in Client, NEW r \in reply[c], NEW B, Clear(c, r, B),
         B \subseteq Ids({x \in r.out : x.status # "accepted"})
  PROVE  \A p \in blocked'[c] :
           p \in blocked[c] \/ \E x \in r.out : x.id = p.id /\ x.status # "accepted"
<1>2. blocked \in [Client -> SUBSET Change]
  BY DEF TypeInv, TypeOK, ClientTypeOK
<1>3. \A p \in blocked'[c] : p \in blocked[c] \/ p.id \in B
  BY <1>2 DEF Clear
<1> QED
  BY <1>3 DEF Ids

(* Blocked entries otherwise only leave. *)
LEMMA BlockedSteps ==
  ASSUME TypeInv, [Next]_vars, NEW c \in Client, ~Clears(c)
  PROVE  blocked'[c] \subseteq blocked[c]
<1>0. blocked \in [Client -> SUBSET Change]
  BY DEF TypeInv, TypeOK, ClientTypeOK
<1> DEFINE Less == blocked'[c] \subseteq blocked[c]
<1>1. ASSUME NEW d \in Client,
             \/ UserEdit(d) \/ SendPush(d) \/ SendRetry(d) \/ Pull(d) \/ FinishSync(d)
      PROVE  Less
  BY <1>1 DEF UserEdit, SendPush, SendRetry, Pull, FinishSync, CreateRow, EditRow,
              RetireRow, RemoveRow, StartEdit, StartSync, RetryPush, HandlePull,
              SaveServerTime, tableVars
<1>2. ASSUME NEW d \in Client, FinishEdit(d) \/ Requeue(d) PROVE Less
  <2>1. PICK e : blocked' = [blocked EXCEPT ![d] = Except(@, e)]
    BY <1>2 DEF FinishEdit, Requeue, Enqueue, Discard, RequeueConflict, ReplaceEntry
  <2> QED
    BY <1>0, <2>1 DEF Except
<1>3. ASSUME NEW d \in Client,
             ReceiveAnswer(d) \/ \E r \in reply[d] : CrashInAnswer(d, r)
      PROVE  Less
  <2>1. Clears(d)
    BY <1>3, WorksThrough
  <2>2. d # c
    BY <2>1
  <2>3. PICK r, B : Clear(d, r, B)
    BY <2>1 DEF Clears
  <2> QED
    BY <1>0, <2>2, <2>3 DEF Clear
<1>4. ASSUME NEW d \in Client, Timeout(d) \/ ClientCrash(d) PROVE Less
  <2>1. CASE CrashInRequeue(d)
    BY <1>0, <2>1 DEF CrashInRequeue
  <2>2. CASE Interrupt(d) \/ CrashInPull(d, item)
    BY <2>2 DEF Interrupt, CrashInPull
  <2> QED
    BY <1>3, <1>4, <2>1, <2>2 DEF Timeout, ClientCrash
<1>5. ASSUME NEW s \in Session,
             \/ \E d \in Client : Serve(s, d)
             \/ ServeLate(s) \/ Process(s) \/ Answer(s) \/ Abort(s)
      PROVE  Less
  BY <1>5 DEF Serve, ServeLate, Process, Answer, Abort, Interrupt, clientVars, tableVars
<1>6. ASSUME UNCHANGED vars PROVE Less
  BY <1>6 DEF vars, clientVars, tableVars
<1> HIDE DEF Less
<1>7. Less
  BY <1>1, <1>2, <1>3, <1>4, <1>5, <1>6 DEF Next, FailRequest, ServerCrash
<1> QED
  BY <1>7 DEF Less

(* A receipt is never taken back. *)
LEMMA ReceiptsGrow ==
  ASSUME [Next]_vars
  PROVE  receipts \subseteq receipts'
<1>1. ASSUME NEW c \in Client,
             \/ UserEdit(c) \/ FinishEdit(c) \/ SendPush(c) \/ SendRetry(c)
             \/ ReceiveAnswer(c) \/ Requeue(c) \/ Pull(c) \/ FinishSync(c)
             \/ Timeout(c) \/ ClientCrash(c)
      PROVE  receipts' = receipts
  BY <1>1 DEF UserEdit, FinishEdit, SendPush, SendRetry, ReceiveAnswer, Requeue,
              Pull, FinishSync, Timeout, ClientCrash, HangUp, engineVars
<1>2. ASSUME NEW s \in Session,
             (\E c \in Client : Serve(s, c)) \/ ServeLate(s) \/ Abort(s)
      PROVE  receipts' = receipts
  BY <1>2 DEF Serve, ServeLate, Abort, BeginPush, RollbackPush
<1>3. ASSUME NEW s \in Session, Process(s) PROVE receipts' = receipts
  BY <1>3 DEF Process, ProcessChange, Refuse, Fetch, Conflict, RejectTarget, Insert,
              InsertClash, Update, SoftDelete, DeleteMissing, LockFailure, Record, Write
<1>4. ASSUME NEW s \in Session, Answer(s) PROVE receipts \subseteq receipts'
  BY <1>4 DEF Answer, CommitPush
<1>5. ASSUME UNCHANGED vars PROVE receipts' = receipts
  BY <1>5 DEF vars, engineVars
<1> QED
  BY <1>1, <1>2, <1>3, <1>4, <1>5 DEF Next, FailRequest, ServerCrash

(* What a device shows as blocked the server has refused for good: no      *)
(* blocked change was applied, or ever will be under that change id.       *)
THEOREM BlockedRefused == Spec => []BlockedWasRefused
<1>1. Init => BlockedInv
  BY DEF Init, ClientInit, BlockedInv
<1>2. TypeInv /\ ExchangeInv /\ BlockedInv /\ [Next]_vars => BlockedInv'
  <2> SUFFICES ASSUME TypeInv, ExchangeInv, BlockedInv, [Next]_vars,
                      NEW c \in Client, NEW p \in blocked'[c]
               PROVE  \E x \in receipts' : x.id = p.id /\ x.status # "accepted"
    BY DEF BlockedInv
  <2>1. receipts \subseteq receipts'
    BY ReceiptsGrow
  <2>2. CASE Clears(c)
    <3>1. PICK r \in reply[c] : \E B :
            /\ Clear(c, r, B)
            /\ B \subseteq Ids({x \in r.out : x.status # "accepted"})
      BY <2>2 DEF Clears
    <3>2. r.out \subseteq receipts
      BY DEF ExchangeInv, ReplyOK
    <3> QED
      BY <2>1, <3>1, <3>2, AnswerBlocks DEF BlockedInv
  <2>3. CASE ~Clears(c)
    BY <2>1, <2>3, BlockedSteps DEF BlockedInv
  <2> QED
    BY <2>2, <2>3
<1>3. ReceiptInv /\ BlockedInv => BlockedWasRefused
  BY DEF ReceiptInv, Unique, Accepted, BlockedInv, BlockedWasRefused, Ids
<1> QED
  BY <1>1, <1>2, <1>3, ExchangeAlways, ReceiptsAlways, PTL DEF Spec

-----------------------------------------------------------------------------
(* Handlers do not wait for each other's receipts in a circle. *)

(* What a handler has recorded comes before what it still has to process. *)
OrderInv ==
  \A s \in Session : \A x \in tx[s].rc : \A ch \in tx[s].todo : x.id <= ch.id

LEMMA OrderSteps == TypeInv /\ OrderInv /\ [Next]_vars => OrderInv'
<1> SUFFICES ASSUME TypeInv, OrderInv, [Next]_vars PROVE OrderInv'
  OBVIOUS
<1>0. tx \in [Session -> Handler]
  BY DEF TypeInv, TypeOK, EngineTypeOK
<1>1. ASSUME \A s \in Session : \/ tx'[s].rc = {}
                                \/ tx'[s].rc = tx[s].rc /\ tx'[s].todo = tx[s].todo
      PROVE  OrderInv'
  BY <1>1 DEF OrderInv
<1>2. ASSUME NEW c \in Client,
             \/ UserEdit(c) \/ FinishEdit(c) \/ SendPush(c) \/ SendRetry(c)
             \/ ReceiveAnswer(c) \/ Requeue(c) \/ Pull(c) \/ FinishSync(c)
      PROVE  tx' = tx
  BY <1>2 DEF UserEdit, FinishEdit, SendPush, SendRetry, ReceiveAnswer, Requeue,
              Pull, FinishSync, engineVars
<1>3. ASSUME NEW c \in Client, Timeout(c) \/ ClientCrash(c), NEW s \in Session
      PROVE  tx'[s].rc = tx[s].rc /\ tx'[s].todo = tx[s].todo
  <2>1. HangUp(c)
    BY <1>3 DEF Timeout, ClientCrash
  <2> QED
    BY <1>0, <2>1 DEF HangUp, Handler
<1>4. ASSUME NEW s \in Session,
             \/ (\E c \in Client : Serve(s, c)) \/ ServeLate(s)
             \/ Answer(s) \/ Abort(s)
      PROVE  tx'[s].rc = {} /\ \A t \in Session \ {s} : tx'[t] = tx[t]
  <2>1. ASSUME NEW u, NEW batch, NEW live, BeginPush(s, u, batch, live)
        PROVE  tx'[s].rc = {} /\ \A t \in Session \ {s} : tx'[t] = tx[t]
    BY <1>0, <2>1 DEF BeginPush, FreeHandler
  <2>2. CASE Answer(s) \/ Abort(s)
    BY <1>0, <2>2 DEF Answer, Abort, CommitPush, RollbackPush, FreeHandler
  <2>3. CASE (\E c \in Client : Serve(s, c)) \/ ServeLate(s)
    BY <2>1, <2>3 DEF Serve, ServeLate
  <2> QED
    BY <1>4, <2>2, <2>3
<1>5. ASSUME NEW s \in Session, Process(s) PROVE OrderInv'
  <2>1. PICK ch \in tx[s].todo :
          /\ \/ \E status, sv : Record(s, ch, status, sv)
             \/ \E new : Write(s, ch, new)
             \/ Fetch(s, ch)
          /\ \A o \in tx[s].todo : ch.id <= o.id
    BY <1>5 DEF Process, ProcessChange, Refuse, Conflict, RejectTarget, Insert,
                InsertClash, Update, SoftDelete, DeleteMissing, LockFailure, Fetch, Turn
  <2>2. CASE Fetch(s, ch)
    <3>1. /\ tx'[s].rc = tx[s].rc /\ tx'[s].todo = tx[s].todo
          /\ \A t \in Session \ {s} : tx'[t] = tx[t]
      BY <1>0, <2>2 DEF Fetch, Handler
    <3> QED
      BY <1>1, <3>1
  <2>3. CASE Decides(s, ch)
    BY <2>1, <2>3 DEF Decides, OrderInv
  <2> QED
    BY <2>1, <2>2, <2>3, RecordDecides, WriteDecides
<1>6. ASSUME UNCHANGED vars PROVE tx' = tx
  BY <1>6 DEF vars, engineVars
<1>7. ASSUME tx' = tx PROVE OrderInv'
  BY <1>7 DEF OrderInv
<1>8. ASSUME NEW c \in Client, Timeout(c) \/ ClientCrash(c) PROVE OrderInv'
  BY <1>1, <1>3, <1>8
<1>9. ASSUME NEW s \in Session,
             \/ (\E c \in Client : Serve(s, c)) \/ ServeLate(s)
             \/ Answer(s) \/ Abort(s)
      PROVE  OrderInv'
  BY <1>1, <1>4, <1>9
<1> QED
  BY <1>2, <1>5, <1>6, <1>7, <1>8, <1>9 DEF Next, FailRequest, ServerCrash

(* Two handlers never wait for each other's uncommitted receipts, whatever *)
(* batches they serve: requests are ordered by the age of their changes.   *)
THEOREM NoCircularWait == Spec => []NoReceiptDeadlock
<1>1. Init => OrderInv
  BY DEF Init, EngineInit, OrderInv, FreeHandler
<1>2. TypeInv /\ ReceiptInv /\ OrderInv => NoReceiptDeadlock
  <2> SUFFICES ASSUME TypeInv, ReceiptInv, OrderInv, NEW s \in Session, NEW t \in Session,
                      AwaitsReceipt(s, t), AwaitsReceipt(t, s)
               PROVE  FALSE
    BY DEF NoReceiptDeadlock
  <2>1. PICK ch \in tx[s].todo, y \in tx[t].rc : y.id = ch.id
    BY DEF AwaitsReceipt, Ids
  <2>2. PICK dh \in tx[t].todo, x \in tx[s].rc : x.id = dh.id
    BY DEF AwaitsReceipt, Ids
  <2>3. x.id <= ch.id /\ y.id <= dh.id
    BY DEF OrderInv
  <2>4. ch.id \in Nat /\ dh.id \in Nat
    BY DEF TypeInv, TypeOK, EngineTypeOK, Handler, Change
  <2>5. x.id = y.id
    BY <2>1, <2>2, <2>3, <2>4
  <2> QED
    BY <2>5 DEF ReceiptInv, AwaitsReceipt
<1> QED
  BY <1>1, <1>2, OrderSteps, ReceiptsAlways, PTL DEF Spec
=============================================================================
