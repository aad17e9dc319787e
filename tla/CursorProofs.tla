---------------------------- MODULE CursorProofs ----------------------------
(***************************************************************************)
(* What the pull brings to a device and what the device bases its changes  *)
(* on, for every set of clients, rows and sessions, every batch limit and  *)
(* every number of edits and failures.                                     *)
(*                                                                         *)
(* Without Overlap the cursor of the pull is complete and no device runs   *)
(* ahead of the server; the run pull_race shows that the assumption is     *)
(* needed.  A change is applied to its base_version in any case, with      *)
(* Overlap too.                                                            *)
(***************************************************************************)
EXTENDS StoreProofs

-----------------------------------------------------------------------------
(* The invariant. *)

(* The changes under way: queued, in a request, or still to be processed. *)
Moving ==
  {p \in Change : \/ \E c \in Client : p \in Outbox(c) \cup wire[c]
                  \/ \E q \in late : p \in q.todo
                  \/ \E s \in Session : p \in tx[s].todo}

(* Some device has row e. *)
Made(e) == \E c \in Client : row[c][e].val # 0

(* What is being edited or queued on a device is a row of its own. *)
DeviceInv ==
  /\ nextId # 0
  /\ \A c \in Client :
       /\ \A d \in draft[c] : d.val # 0 /\ row[c][d.ent].val # 0
       /\ \A p \in Outbox(c) : row[c][p.ent].val # 0

(* Each change under way is one of its number, about a row that exists,    *)
(* and based on a version that the server has.                             *)
ChangesInv ==
  /\ \A p, o \in Moving : p.id = o.id => p = o
  /\ \A p \in Moving : /\ p.id < nextId /\ p.val # 0 /\ Made(p.ent)
                       /\ p.base <= item[p.ent].ver

(* Rows are stamped with a clock that no device is ahead of, and what an   *)
(* open handler has written is newer than everything pulled so far.        *)
TablesInv ==
  /\ \A e \in Entity :
       /\ item[e].ver # 0 => item[e].val # 0 /\ Made(e)
       /\ item[e].ver = 0 => item[e].upd = 0
       /\ item[e].upd <= clock
  /\ \A c \in Client : since[c] <= clock /\ mark[c] <= clock
  /\ \A s \in Session : \A e \in Entity : tx[s].wr[e].ver # 0 =>
       /\ tx[s].wr[e].val # 0 /\ Made(e) /\ tx[s].wr[e].upd <= clock
       /\ \A c \in Client : since[c] < tx[s].wr[e].upd /\ mark[c] < tx[s].wr[e].upd

(* A version that was answered to a change is one the row has. *)
Answered(x) ==
  /\ x.id < nextId
  /\ \A p \in Moving : p.id = x.id => x.sv <= item[p.ent].ver

AnswersInv ==
  /\ \A s \in Session : \A x \in tx[s].rc : Answered(x)
  /\ \A c \in Client : /\ \A y \in reply[c] : \A x \in y.out : Answered(x)
                       /\ \A x \in conf[c] : Answered(x)

(* What the cursor says, and what it is about to say, the rows have. *)
CursorInv ==
  /\ CursorComplete
  /\ \A c \in Client : \A e \in Entity :
       /\ row[c][e].ver <= item[e].ver
       /\ pc[c] = "stamp" /\ item[e].upd <= mark[c] => row[c][e].ver >= item[e].ver

-----------------------------------------------------------------------------
(* Changes under way come from an outbox, where each one is new once. *)

(* Device c has queued new: what it has edited, or a conflict once more. *)
Queues(c, new) ==
  /\ new.id = nextId /\ nextId' = nextId + 1
  /\ \/ \E d \in draft[c] :
          new.ent = d.ent /\ new.val = d.val /\ new.base = row[c][d.ent].ver
     \/ \E x \in conf[c] : \E p \in Outbox(c) :
          p.id = x.id /\ new.ent = p.ent /\ new.val = p.val /\ new.base = x.sv
  /\ Outbox(c)' \subseteq Outbox(c) \cup {new}
  /\ \A d \in Client \ {c} : Outbox(d)' \subseteq Outbox(d)
  /\ UNCHANGED <<row, engineVars, wire, late>>

OnlyLess == \A d \in Client : Outbox(d)' \subseteq Outbox(d)

LEMMA ReplaceQueues ==
  ASSUME ClientTypeOK, NEW c \in Client, NEW e, NEW op, NEW base, NEW val,
         ReplaceEntry(c, e, op, base, val)
  PROVE  /\ Outbox(c)' \subseteq Outbox(c) \cup
              {[id |-> nextId, ent |-> e, op |-> op, base |-> base, val |-> val]}
         /\ \A d \in Client \ {c} : Outbox(d)' \subseteq Outbox(d)
  BY DEF Outbox, ReplaceEntry, Except, ClientTypeOK

LEMMA OutboxGrows ==
  ASSUME TypeInv, [Next]_vars
  PROVE  OnlyLess \/ \E c \in Client : \E new : Queues(c, new)
<1>0. ClientTypeOK
  BY DEF TypeInv, TypeOK
<1>1. ASSUME NEW c \in Client,
             \/ UserEdit(c) \/ SendPush(c) \/ SendRetry(c) \/ Pull(c) \/ FinishSync(c)
      PROVE  OnlyLess
  BY <1>1 DEF UserEdit, CreateRow, EditRow, RetireRow, RemoveRow, StartEdit, SendPush,
              SendRetry, Pull, FinishSync, StartSync, RetryPush, HandlePull,
              SaveServerTime, tableVars, Outbox, OnlyLess
<1>2. ASSUME NEW c \in Client, Enqueue(c), UNCHANGED <<engineVars, netVars>>
      PROVE  \E new : Queues(c, new)
  <2>1. PICK d \in draft[c] : ReplaceEntry(c, d.ent, d.op, row[c][d.ent].ver, d.val)
    BY <1>2 DEF Enqueue
  <2> DEFINE new == [id |-> nextId, ent |-> d.ent, op |-> d.op,
                     base |-> row[c][d.ent].ver, val |-> d.val]
  <2>2. /\ Outbox(c)' \subseteq Outbox(c) \cup {new}
        /\ \A b \in Client \ {c} : Outbox(b)' \subseteq Outbox(b)
    BY <1>0, <2>1, ReplaceQueues
  <2>3. new.id = nextId /\ new.ent = d.ent /\ new.val = d.val /\ new.base = row[c][d.ent].ver
    OBVIOUS
  <2>4. nextId' = nextId + 1 /\ UNCHANGED <<row, engineVars, wire, late>>
    BY <1>2 DEF Enqueue, netVars
  <2> HIDE DEF new
  <2> QED
    BY <2>2, <2>3, <2>4 DEF Queues
<1>3. ASSUME NEW c \in Client, Discard(c) PROVE OnlyLess
  <2>1. PICK e : /\ pending' = [pending EXCEPT ![c] = Except(@, e)]
                 /\ blocked' = [blocked EXCEPT ![c] = Except(@, e)]
    BY <1>3 DEF Discard
  <2> QED
    BY <1>0, <2>1 DEF ClientTypeOK, Outbox, Except, OnlyLess
<1>4. ASSUME NEW c \in Client, ReceiveAnswer(c) PROVE OnlyLess
  BY <1>0, <1>4, ClearShrinks
     DEF ReceiveAnswer, HandleAnswer, HandleRetryAnswer, ProcessPush, OnlyLess
<1>5. ASSUME NEW c \in Client, Requeue(c) PROVE \E new : Queues(c, new)
  <2>1. PICK x \in conf[c], p \in Outbox(c) :
          p.id = x.id /\ ReplaceEntry(c, p.ent, p.op, x.sv, p.val)
    BY <1>5 DEF Requeue, RequeueConflict
  <2> DEFINE new == [id |-> nextId, ent |-> p.ent, op |-> p.op, base |-> x.sv,
                     val |-> p.val]
  <2>2. /\ Outbox(c)' \subseteq Outbox(c) \cup {new}
        /\ \A b \in Client \ {c} : Outbox(b)' \subseteq Outbox(b)
    BY <1>0, <2>1, ReplaceQueues
  <2>3. new.id = nextId /\ new.ent = p.ent /\ new.val = p.val /\ new.base = x.sv
    OBVIOUS
  <2>4. nextId' = nextId + 1 /\ UNCHANGED <<row, engineVars, wire, late>>
    BY <1>5 DEF Requeue, RequeueConflict, netVars
  <2> HIDE DEF new
  <2> QED
    BY <2>1, <2>2, <2>3, <2>4 DEF Queues
<1>6. ASSUME NEW c \in Client, Timeout(c) \/ ClientCrash(c) PROVE OnlyLess
  BY <1>0, <1>6, StopShrinks DEF Timeout, ClientCrash, OnlyLess
<1>7. ASSUME NEW s \in Session,
             \/ \E c \in Client : Serve(s, c)
             \/ ServeLate(s) \/ Process(s) \/ Answer(s)
      PROVE  OnlyLess
  BY <1>7 DEF Serve, ServeLate, Process, Answer, clientVars, tableVars, Outbox, OnlyLess
<1>8. ASSUME NEW s \in Session, Abort(s) PROVE OnlyLess
  BY <1>8 DEF Abort, Interrupt, Stop, clientVars, tableVars, Outbox, OnlyLess
<1>9. ASSUME UNCHANGED vars PROVE OnlyLess
  BY <1>9 DEF vars, clientVars, tableVars, Outbox, OnlyLess
<1>10. ASSUME NEW c \in Client, FinishEdit(c) PROVE OnlyLess \/ \E new : Queues(c, new)
  BY <1>2, <1>3, <1>10 DEF FinishEdit
<1> QED
  BY <1>1, <1>4, <1>5, <1>6, <1>7, <1>8, <1>9, <1>10 DEF Next, FailRequest, ServerCrash

LEMMA MovingHolds ==
  ASSUME TypeInv
  PROVE  /\ \A c \in Client : Outbox(c) \subseteq Moving /\ wire[c] \subseteq Moving
         /\ \A q \in late : q.todo \subseteq Moving
         /\ \A s \in Session : tx[s].todo \subseteq Moving
<1>1. \A c \in Client : Outbox(c) \subseteq Change /\ wire[c] \subseteq Change
  BY DEF TypeInv, TypeOK, ClientTypeOK, Outbox
<1>2. \A q \in late : q.todo \subseteq Change
  BY DEF TypeInv, TypeOK, Request
<1>3. \A s \in Session : tx[s].todo \subseteq Change
  BY DEF TypeInv, TypeOK, EngineTypeOK, Handler
<1> QED
  BY <1>1, <1>2, <1>3 DEF Moving

(* A request carries what was in its client's outbox, a handler works on   *)
(* what was in a request of its user.                                      *)
Carried(s) ==
  \/ tx'[s].todo = {}
  \/ tx'[s].user = tx[s].user /\ tx'[s].todo \subseteq tx[s].todo
  \/ tx'[s].user \in Client /\ tx'[s].todo \subseteq wire[tx'[s].user]
  \/ \E q \in late : tx'[s].user = q.user /\ tx'[s].todo \subseteq q.todo

RequestStep ==
  /\ \A c \in Client : wire'[c] \subseteq Outbox(c) \cup wire[c]
  /\ \A q \in late' : q \in late \/ (q.user \in Client /\ q.todo = wire[q.user])
  /\ \A s \in Session : Carried(s)

LEMMA RequestSteps ==
  ASSUME TypeInv, [Next]_vars
  PROVE  RequestStep
<1>0. tx \in [Session -> Handler] /\ wire \in [Client -> SUBSET Change]
      /\ sent \in [Client -> SUBSET Change] /\ late \in SUBSET Request
  BY DEF TypeInv, TypeOK, EngineTypeOK, ClientTypeOK
<1>2. ASSUME NEW c \in Client,
             \/ UserEdit(c) \/ FinishEdit(c) \/ ReceiveAnswer(c) \/ Requeue(c)
             \/ Pull(c) \/ FinishSync(c)
      PROVE  RequestStep
  BY <1>2 DEF UserEdit, FinishEdit, ReceiveAnswer, Requeue, Pull, FinishSync,
              engineVars, netVars, RequestStep, Carried
<1>3. ASSUME NEW c \in Client, SendPush(c) \/ SendRetry(c) PROVE RequestStep
  <2>1. wire' = [wire EXCEPT ![c] = sent'[c]] /\ UNCHANGED <<late, tx>>
    BY <1>3 DEF SendPush, SendRetry, engineVars
  <2>2. sent'[c] \subseteq Outbox(c)
    <3>1. OldestPending(c) \subseteq Outbox(c)
      BY DEF OldestPending, Outbox
    <3>2. \/ sent' = [sent EXCEPT ![c] = OldestPending(c)]
          \/ sent' = [sent EXCEPT ![c] = {p \in OldestPending(c) : p.id \in again[c]}]
      BY <1>3 DEF SendPush, SendRetry, StartSync, RetryPush
    <3> QED
      BY <1>0, <3>1, <3>2
  <2> QED
    BY <1>0, <2>1, <2>2 DEF RequestStep, Carried
<1>4. ASSUME NEW c \in Client, Timeout(c) \/ ClientCrash(c) PROVE RequestStep
  <2>1. HangUp(c)
    BY <1>4 DEF Timeout, ClientCrash
  <2>2. \A s \in Session : tx'[s].todo = tx[s].todo /\ tx'[s].user = tx[s].user
    BY <1>0, <2>1 DEF HangUp, Handler
  <2>3. \A d \in Client : wire'[d] \subseteq wire[d]
    BY <1>0, <2>1 DEF HangUp
  <2>4. \A q \in late' : q \in late \/ (q.user = c /\ q.todo = wire[c])
    BY <2>1 DEF HangUp
  <2> QED
    BY <2>2, <2>3, <2>4 DEF RequestStep, Carried
<1>5. ASSUME NEW s \in Session, NEW c \in Client, Serve(s, c) PROVE RequestStep
  <2>1. /\ tx'[s].user = c /\ tx'[s].todo \subseteq wire[c]
        /\ \A t \in Session \ {s} : tx'[t] = tx[t]
    BY <1>0, <1>5 DEF Serve, BeginPush, FreeHandler
  <2>2. late' = late /\ \A d \in Client : wire'[d] \subseteq wire[d]
    BY <1>0, <1>5 DEF Serve
  <2> QED
    BY <2>1, <2>2 DEF RequestStep, Carried
<1>6. ASSUME NEW s \in Session, ServeLate(s) PROVE RequestStep
  <2>1. PICK q \in late : BeginPush(s, q.user, q.todo, FALSE) /\ late' = late \ {q}
    BY <1>6 DEF ServeLate
  <2>2. /\ tx'[s].user = q.user /\ tx'[s].todo \subseteq q.todo
        /\ \A t \in Session \ {s} : tx'[t] = tx[t]
    BY <1>0, <2>1 DEF BeginPush, FreeHandler
  <2>3. wire' = wire
    BY <1>6 DEF ServeLate
  <2> QED
    BY <2>1, <2>2, <2>3 DEF RequestStep, Carried
<1>7. ASSUME NEW s \in Session, Process(s) PROVE RequestStep
  <2>1. PICK ch \in tx[s].todo :
          \/ \E status, sv : Record(s, ch, status, sv)
          \/ \E new : Write(s, ch, new)
          \/ Fetch(s, ch)
    BY <1>7 DEF Process, ProcessChange, Refuse, Conflict, RejectTarget, Insert,
                InsertClash, Update, SoftDelete, DeleteMissing, LockFailure
  <2>2. \A t \in Session : tx'[t].todo \subseteq tx[t].todo
    <3>1. CASE Fetch(s, ch)
      BY <1>0, <3>1 DEF Fetch, Handler
    <3>2. CASE Decides(s, ch)
      BY <3>2 DEF Decides
    <3> QED
      BY <2>1, <3>1, <3>2, RecordDecides, WriteDecides
  <2>3. \A t \in Session : tx'[t].user = tx[t].user
    BY <1>7, ProcessKeepsBooks DEF Process, KeepsBooks
  <2> QED
    BY <1>7, <2>2, <2>3 DEF Process, netVars, RequestStep, Carried
<1>8. ASSUME NEW s \in Session, Answer(s) \/ Abort(s) PROVE RequestStep
  <2>1. tx'[s].todo = {} /\ \A t \in Session \ {s} : tx'[t] = tx[t]
    BY <1>0, <1>8 DEF Answer, Abort, CommitPush, RollbackPush, FreeHandler
  <2>2. UNCHANGED <<wire, late>>
    BY <1>8 DEF Answer, Abort, netVars
  <2> QED
    BY <2>1, <2>2 DEF RequestStep, Carried
<1>9. ASSUME UNCHANGED vars PROVE RequestStep
  BY <1>9 DEF vars, engineVars, netVars, RequestStep, Carried
<1> QED
  BY <1>2, <1>3, <1>4, <1>5, <1>6, <1>7, <1>8, <1>9
     DEF Next, FailRequest, ServerCrash

LEMMA MovingSteps ==
  ASSUME TypeInv, [Next]_vars
  PROVE  \/ Moving' \subseteq Moving /\ OnlyLess
         \/ \E c \in Client : \E new :
              Queues(c, new) /\ Moving' \subseteq Moving \cup {new}
<1>1. /\ \A c \in Client : wire'[c] \subseteq Moving
      /\ \A q \in late' : q.todo \subseteq Moving
      /\ \A s \in Session : tx'[s].todo \subseteq Moving
  BY MovingHolds, RequestSteps DEF RequestStep, Carried
<1>2. \A c \in Client : Outbox(c) \subseteq Moving
  BY MovingHolds
<1>3. ASSUME OnlyLess PROVE Moving' \subseteq Moving
  BY <1>1, <1>2, <1>3 DEF OnlyLess, Moving
<1>4. ASSUME NEW c \in Client, NEW new, Queues(c, new)
      PROVE  Moving' \subseteq Moving \cup {new}
  <2>1. \A d \in Client : Outbox(d)' \subseteq Outbox(d) \cup {new}
    BY <1>4 DEF Queues
  <2> QED
    BY <1>1, <1>2, <2>1 DEF Moving
<1> QED
  BY <1>3, <1>4, OutboxGrows

-----------------------------------------------------------------------------
(* The rows of the devices. *)

(* The row of e on device c keeps its version or gets the server's. *)
RowStep(c, e) ==
  /\ row[c][e].val # 0 => row'[c][e].val # 0
  /\ row'[c][e].ver = row[c][e].ver \/ row'[c][e].ver = item[e].ver

(* A row of the tables has content, and a stamp only if there is one. *)
FilledInv ==
  \A e \in Entity : /\ item[e].ver # 0 => item[e].val # 0
                    /\ item[e].ver = 0 => item[e].upd = 0

(* A row that was made on device c and has not come back from the server. *)
Unsynced(c, e) == row[c][e].val # 0 /\ row[c][e].ver = 0

(* A pull gives every row stamped after the last one the server's version. *)
LEMMA PullBrings ==
  ASSUME TypeInv, DeviceInv, FilledInv, NEW c \in Client, NEW E,
         ApplyPull(c, item, E)
  PROVE  /\ \A d \in Client : \A e \in Entity : Unsynced(d, e)' => Unsynced(d, e)
         /\ \A d \in Client : \A e \in Entity : RowStep(d, e)
         /\ \A e \in Entity : e \in E /\ item[e].upd > since[c] =>
              row'[c][e].ver = item[e].ver
         /\ \A e \in Entity : ~(item[e].upd > since[c]) => row'[c][e] = row[c][e]
<1> DEFINE f == [e \in Entity |->
                   IF e \in E /\ item[e].upd > since[c]
                   THEN Pulled(c, e, row[c][e], item[e]) ELSE row[c][e]]
<1>1. /\ row \in [Client -> [Entity -> LocalRow]] /\ item \in [Entity -> ServerRow]
      /\ since[c] \in Nat
  BY DEF TypeInv, TypeOK, ClientTypeOK, EngineTypeOK
<1>2. row' = [row EXCEPT ![c] = f]
  BY DEF ApplyPull
<1>3. \A e \in Entity : ~(e \in E /\ item[e].upd > since[c]) => f[e] = row[c][e]
  OBVIOUS
<1>4. ASSUME NEW e \in Entity, e \in E, item[e].upd > since[c]
      PROVE  /\ f[e].ver = item[e].ver /\ item[e].ver # 0
             /\ f[e].val # 0
  <2>1. f[e] = Pulled(c, e, row[c][e], item[e])
    BY <1>4
  <2>2. item[e].val # 0 /\ item[e].ver # 0
    BY <1>1, <1>4 DEF FilledInv, ServerRow
  <2>3. CASE \E p \in pending[c] : p.ent = e
    <3>1. row[c][e].val # 0
      BY <2>3 DEF DeviceInv, Outbox
    <3>2. f[e] = [row[c][e] EXCEPT !.ver = item[e].ver]
      BY <2>1, <2>3, <3>1 DEF Pulled
    <3>3. row[c][e] \in LocalRow
      BY <1>1
    <3> QED
      BY <2>2, <3>1, <3>2, <3>3 DEF LocalRow
  <2>4. CASE ~\E p \in pending[c] : p.ent = e
    BY <2>1, <2>2, <2>4 DEF Pulled
  <2> QED
    BY <2>3, <2>4
<1> HIDE DEF f
<1>5. row'[c] = f /\ \A d \in Client \ {c} : row'[d] = row[d]
  BY <1>1, <1>2
<1>6. ASSUME NEW e \in Entity PROVE RowStep(c, e)
  BY <1>3, <1>4, <1>5 DEF RowStep
<1>7. \A d \in Client \ {c} : \A e \in Entity : RowStep(d, e)
  BY <1>5 DEF RowStep
<1>8. \A d \in Client : \A e \in Entity : Unsynced(d, e)' => Unsynced(d, e)
  BY <1>3, <1>4, <1>5 DEF Unsynced
<1> QED
  BY <1>3, <1>4, <1>5, <1>6, <1>7, <1>8

(* An edit shows in its row, and keeps the version of the row. *)
LEMMA EditShows ==
  ASSUME TypeInv, DeviceInv, TablesInv, NEW c \in Client, UserEdit(c)
  PROVE  /\ \A d \in Client : \A e \in Entity : RowStep(d, e)
         /\ \A d \in Client : \A x \in draft'[d] :
              \/ x \in draft[d]
              \/ x.val # 0 /\ row'[d][x.ent].val # 0
         /\ pc[c] = "idle" /\ pc' = [pc EXCEPT ![c] = "queue"]
<1>1. PICK e \in Entity : \/ CreateRow(c, e) \/ EditRow(c, e)
                          \/ RetireRow(c, e) \/ RemoveRow(c, e)
  BY DEF UserEdit
<1>2. /\ row \in [Client -> [Entity -> LocalRow]] /\ nextId # 0
      /\ draft \in [Client -> SUBSET Draft]
  BY DEF TypeInv, TypeOK, ClientTypeOK, DeviceInv
<1>3. PICK r, op : /\ StartEdit(c, e, r, op) /\ r.val # 0
                   /\ r.ver = row[c][e].ver \/ r.ver = item[e].ver
  <2>1. CASE CreateRow(c, e)
    <3> DEFINE r == [ver |-> 0, val |-> nextId, del |-> FALSE]
    <3>1. ~Made(e) /\ StartEdit(c, e, r, "upsert")
      BY <2>1 DEF CreateRow, Made
    <3>2. item[e].ver = 0
      BY <3>1 DEF TablesInv
    <3>3. r.val # 0 /\ r.ver = item[e].ver
      BY <1>2, <3>2
    <3> QED
      BY <3>1, <3>3
  <2>2. CASE EditRow(c, e) \/ RetireRow(c, e)
    <3> DEFINE r == [row[c][e] EXCEPT !.val = nextId]
    <3>1. StartEdit(c, e, r, "upsert") \/ StartEdit(c, e, r, "retire")
      BY <2>2 DEF EditRow, RetireRow
    <3>2. r.val # 0 /\ r.ver = row[c][e].ver
      BY <1>2 DEF LocalRow
    <3> QED
      BY <3>1, <3>2
  <2>3. CASE RemoveRow(c, e)
    <3> DEFINE r == [row[c][e] EXCEPT !.del = TRUE]
    <3>1. row[c][e].val # 0 /\ (\E op : StartEdit(c, e, r, op))
      BY <2>3 DEF RemoveRow, Listed
    <3>2. r.val # 0 /\ r.ver = row[c][e].ver
      BY <1>2, <3>1 DEF LocalRow
    <3> QED
      BY <3>1, <3>2
  <2> QED
    BY <1>1, <2>1, <2>2, <2>3
<1> DEFINE new == [ent |-> e, op |-> op, val |-> nextId]
<1>4. /\ row' = [row EXCEPT ![c][e] = r]
      /\ draft' = [draft EXCEPT ![c] = {new}]
      /\ pc[c] = "idle" /\ pc' = [pc EXCEPT ![c] = "queue"]
  BY <1>3 DEF StartEdit
<1>5. new.ent = e /\ new.val # 0
  BY <1>2
<1> HIDE DEF new
<1>6. /\ row'[c][e] = r /\ \A b \in Entity \ {e} : row'[c][b] = row[c][b]
      /\ \A d \in Client \ {c} : row'[d] = row[d]
  BY <1>2, <1>4
<1>7. draft'[c] = {new} /\ \A d \in Client \ {c} : draft'[d] = draft[d]
  BY <1>2, <1>4
<1> QED
  BY <1>3, <1>4, <1>5, <1>6, <1>7 DEF RowStep


(* What a step makes of the cursor of device c. *)
CursorStep(c) ==
  /\ since'[c] = since[c] \/ (pc[c] = "stamp" /\ since'[c] = mark[c])
  /\ mark'[c] \in {mark[c], 0} \/ (mark'[c] = clock /\ Quiescent)
  /\ pc'[c] = "stamp" =>
       \/ pc[c] = "stamp" /\ mark'[c] = mark[c]
       \/ mark'[c] = clock /\ \A e \in Entity : row'[c][e].ver >= item[e].ver

DraftStep(c) ==
  \A x \in draft'[c] : x \in draft[c] \/ (x.val # 0 /\ row'[c][x.ent].val # 0)

DeviceStep ==
  \A c \in Client : /\ \A e \in Entity : RowStep(c, e)
                    /\ DraftStep(c) /\ CursorStep(c)

LEMMA PullSteps ==
  ASSUME TypeInv, DeviceInv, TablesInv, CursorInv, ~Overlap, NEW c \in Client, Pull(c)
  PROVE  DeviceStep
<1>0. /\ mark \in [Client -> Nat] /\ pc \in [Client -> Place] /\ since \in [Client -> Nat]
      /\ row \in [Client -> [Entity -> LocalRow]] /\ item \in [Entity -> ServerRow]
      /\ clock \in Nat
  BY DEF TypeInv, TypeOK, ClientTypeOK, EngineTypeOK
<1>1. /\ ApplyPull(c, item, Entity) /\ Quiescent /\ since' = since /\ draft' = draft
      /\ mark' = [mark EXCEPT ![c] = clock] /\ pc' = [pc EXCEPT ![c] = "stamp"]
  BY DEF Pull, HandlePull
<1>2. /\ \A d \in Client : \A e \in Entity : RowStep(d, e)
      /\ \A e \in Entity : item[e].upd > since[c] => row'[c][e].ver = item[e].ver
      /\ \A e \in Entity : ~(item[e].upd > since[c]) => row'[c][e] = row[c][e]
  BY <1>1, PullBrings DEF TablesInv, FilledInv
<1>3. ASSUME NEW e \in Entity PROVE row'[c][e].ver >= item[e].ver
  <2>1. item[e].upd \in Nat /\ item[e].ver \in Nat /\ since[c] \in Nat
    BY <1>0 DEF ServerRow
  <2>2. CASE item[e].upd > since[c]
    BY <1>2, <2>1, <2>2
  <2>3. CASE ~(item[e].upd > since[c])
    BY <1>2, <2>1, <2>3 DEF CursorInv, CursorComplete
  <2> QED
    BY <2>2, <2>3
<1>4. CursorStep(c)
  BY <1>0, <1>1, <1>3 DEF CursorStep
<1>5. \A d \in Client \ {c} : CursorStep(d)
  BY <1>0, <1>1 DEF CursorStep
<1> QED
  BY <1>1, <1>2, <1>4, <1>5 DEF DeviceStep, DraftStep

LEMMA StopSteps ==
  ASSUME TypeInv, DeviceInv, TablesInv, NEW c \in Client,
         \/ Interrupt(c) \/ CrashInRequeue(c) \/ CrashInPull(c, item)
         \/ \E r : CrashInAnswer(c, r)
  PROVE  DeviceStep
<1>0. mark \in [Client -> Nat] /\ pc \in [Client -> Place]
      /\ draft \in [Client -> SUBSET Draft]
  BY DEF TypeInv, TypeOK, ClientTypeOK
<1>1. Stop(c)
  BY CrashClears DEF Interrupt, CrashInRequeue, CrashInPull
<1>2. \A d \in Client : \A e \in Entity : RowStep(d, e)
  <2>1. CASE \E r : CrashInAnswer(c, r)
    BY <2>1, CrashClears DEF RowStep
  <2>2. CASE Interrupt(c) \/ CrashInRequeue(c) \/ CrashInPull(c, item)
    <3>1. FilledInv
      BY DEF TablesInv, FilledInv
    <3> QED
      BY <2>2, <3>1, PullBrings DEF Interrupt, CrashInRequeue, CrashInPull, RowStep
  <2> QED
    BY <2>1, <2>2
<1>3. \A d \in Client : CursorStep(d) /\ DraftStep(d)
  BY <1>0, <1>1 DEF Stop, CursorStep, DraftStep
<1> QED
  BY <1>2, <1>3 DEF DeviceStep

LEMMA DeviceSteps ==
  ASSUME TypeInv, DeviceInv, TablesInv, CursorInv, ~Overlap, [Next]_vars
  PROVE  DeviceStep
<1>0. /\ mark \in [Client -> Nat] /\ pc \in [Client -> Place] /\ since \in [Client -> Nat]
      /\ draft \in [Client -> SUBSET Draft]
  BY DEF TypeInv, TypeOK, ClientTypeOK
<1>1. ASSUME UNCHANGED <<row, draft, since, mark, pc>> PROVE DeviceStep
  BY <1>1 DEF DeviceStep, RowStep, DraftStep, CursorStep
<1>2. ASSUME NEW c \in Client, UserEdit(c) PROVE DeviceStep
  <2>1. /\ \A d \in Client : \A e \in Entity : RowStep(d, e)
        /\ \A d \in Client : DraftStep(d)
        /\ pc[c] = "idle" /\ pc' = [pc EXCEPT ![c] = "queue"]
    BY <1>2, EditShows DEF DraftStep
  <2>2. UNCHANGED <<since, mark>>
    BY <1>2 DEF UserEdit, CreateRow, EditRow, RetireRow, RemoveRow, StartEdit
  <2>3. \A d \in Client : CursorStep(d)
    BY <1>0, <2>1, <2>2 DEF CursorStep
  <2> QED
    BY <2>1, <2>3 DEF DeviceStep
<1>3. ASSUME NEW c \in Client,
             \/ FinishEdit(c) \/ SendPush(c) \/ SendRetry(c)
             \/ ReceiveAnswer(c) \/ Requeue(c)
      PROVE  DeviceStep
  <2>1. UNCHANGED <<row, since, mark>>
    BY <1>3 DEF FinishEdit, Enqueue, Discard, SendPush, StartSync, SendRetry, RetryPush,
                ReceiveAnswer, HandleAnswer, HandleRetryAnswer, Requeue,
                RequeueConflict, tableVars
  <2>2. /\ \A d \in Client : pc'[d] = "stamp" => pc[d] = "stamp"
        /\ draft' = draft \/ draft' = [draft EXCEPT ![c] = {}]
    BY <1>0, <1>3 DEF FinishEdit, Enqueue, Discard, SendPush, StartSync, SendRetry,
                RetryPush, ReceiveAnswer, HandleAnswer, HandleRetryAnswer, Requeue,
                RequeueConflict
  <2> QED
    BY <1>0, <2>1, <2>2 DEF DeviceStep, RowStep, DraftStep, CursorStep
<1>4. ASSUME NEW c \in Client, FinishSync(c) PROVE DeviceStep
  BY <1>0, <1>4 DEF FinishSync, SaveServerTime, DeviceStep, RowStep, DraftStep, CursorStep
<1>5. ASSUME NEW c \in Client, Pull(c) PROVE DeviceStep
  BY <1>5, PullSteps
<1>6. ASSUME NEW c \in Client, Timeout(c) \/ ClientCrash(c) PROVE DeviceStep
  BY <1>6, StopSteps DEF Timeout, ClientCrash
<1>7. ASSUME NEW s \in Session,
             \/ \E c \in Client : Serve(s, c)
             \/ ServeLate(s) \/ Process(s) \/ Answer(s)
      PROVE  DeviceStep
  BY <1>1, <1>7 DEF Serve, ServeLate, Process, Answer, clientVars, tableVars, syncVars
<1>8. ASSUME NEW s \in Session, FailRequest(s) \/ ServerCrash(s) PROVE DeviceStep
  <2>1. CASE tx[s].live
    <3>1. tx[s].user \in Client
      BY <1>8 DEF TypeInv, HandlersHaveUsers, FailRequest, ServerCrash, Abort, RollbackPush
    <3>2. Interrupt(tx[s].user)
      BY <1>8, <2>1 DEF FailRequest, ServerCrash, Abort
    <3> QED
      BY <3>1, <3>2, StopSteps
  <2>2. CASE ~tx[s].live
    BY <1>1, <1>8, <2>2 DEF FailRequest, ServerCrash, Abort, clientVars, tableVars, syncVars
  <2> QED
    BY <2>1, <2>2
<1>9. CASE UNCHANGED vars
  BY <1>1, <1>9 DEF vars, clientVars, tableVars, syncVars
<1> QED
  BY <1>2, <1>3, <1>4, <1>5, <1>6, <1>7, <1>8, <1>9 DEF Next


-----------------------------------------------------------------------------
(* The handlers and the tables. *)

(* What handler s writes in a step is stamped by that step. *)
WriteStep(s) ==
  \A e \in Entity : tx'[s].wr[e].ver # 0 =>
    \/ tx'[s].wr[e] = tx[s].wr[e]
    \/ /\ tx'[s].wr[e].val # 0 /\ Made(e)
       /\ tx'[s].wr[e].upd = clock + 1 /\ clock' = clock + 1

(* What it answers is about a change it was working on. *)
AnswerStep(s) ==
  \A x \in tx'[s].rc :
    \/ x \in tx[s].rc
    \/ \E ch \in tx[s].todo : x.id = ch.id /\ (x.sv = 0 \/ x.sv = item[ch.ent].ver)

ItemStep ==
  \A e \in Entity :
    \/ item'[e] = item[e]
    \/ \E s \in Session : /\ tx[s].wr[e].ver # 0 /\ item'[e] = tx[s].wr[e]
                          /\ item[e].ver < item'[e].ver

LEMMA RecordStep ==
  ASSUME TypeInv, NEW s \in Session, NEW ch \in tx[s].todo, NEW status, NEW sv,
         Record(s, ch, status, sv), sv = 0 \/ sv = item[ch.ent].ver
  PROVE  WriteStep(s) /\ AnswerStep(s)
<1> DEFINE r == [id |-> ch.id, user |-> tx[s].user, status |-> status, sv |-> sv]
           h == [tx[s] EXCEPT !.st = "ready", !.todo = tx[s].todo \ {ch},
                              !.seen = NoRow, !.rc = tx[s].rc \cup {r}]
<1>1. tx[s] \in Handler /\ tx \in [Session -> Handler]
  BY DEF TypeInv, TypeOK, EngineTypeOK
<1>2. tx' = [tx EXCEPT ![s] = h]
  BY DEF Record
<1>3. h.wr = tx[s].wr /\ h.rc = tx[s].rc \cup {r} /\ r.id = ch.id /\ r.sv = sv
  BY <1>1 DEF Handler
<1> HIDE DEF h, r
<1>4. tx'[s] = h
  BY <1>1, <1>2
<1> QED
  BY <1>3, <1>4 DEF WriteStep, AnswerStep

LEMMA FlushStep ==
  ASSUME TypeInv, NEW s \in Session, NEW ch \in tx[s].todo, NEW new,
         Write(s, ch, new), new.val # 0, new.upd = clock + 1, Made(ch.ent)
  PROVE  WriteStep(s) /\ AnswerStep(s)
<1> DEFINE r == [id |-> ch.id, user |-> tx[s].user, status |-> "accepted", sv |-> 0]
           b == [id |-> ch.id, user |-> tx[s].user, ent |-> ch.ent,
                 base |-> ch.base, val |-> ch.val,
                 before |-> tx[s].seen.ver, after |-> new.ver]
           w == [tx[s].wr EXCEPT ![ch.ent] = new]
           h == [tx[s] EXCEPT !.st = "ready", !.todo = tx[s].todo \ {ch},
                              !.seen = NoRow, !.wr = w,
                              !.rc = tx[s].rc \cup {r}, !.au = tx[s].au \cup {b}]
<1>1. tx[s] \in Handler /\ tx \in [Session -> Handler]
      /\ tx[s].wr \in [Entity -> ServerRow]
  BY DEF TypeInv, TypeOK, EngineTypeOK, Handler
<1>2. tx' = [tx EXCEPT ![s] = h] /\ clock' = clock + 1
  BY DEF Write
<1>3. h.wr = w /\ h.rc = tx[s].rc \cup {r} /\ r.id = ch.id /\ r.sv = 0
  BY <1>1 DEF Handler
<1>4. \A e \in Entity : w[e] = tx[s].wr[e] \/ (w[e] = new /\ e = ch.ent)
  BY <1>1
<1> HIDE DEF h, r, w, b
<1>5. tx'[s] = h
  BY <1>1, <1>2
<1> QED
  BY <1>2, <1>3, <1>4, <1>5 DEF WriteStep, AnswerStep

LEMMA ProcessSteps ==
  ASSUME TypeInv, NEW s \in Session, WorkOK(s), ChangesInv, TablesInv, ProcessChange(s)
  PROVE  WriteStep(s) /\ AnswerStep(s)
<1>1. PICK ch \in tx[s].todo :
        \/ Refuse(s, ch) \/ Fetch(s, ch) \/ Conflict(s, ch)
        \/ RejectTarget(s, ch) \/ Insert(s, ch) \/ InsertClash(s, ch)
        \/ Update(s, ch) \/ SoftDelete(s, ch) \/ DeleteMissing(s, ch)
        \/ LockFailure(s, ch)
  BY DEF ProcessChange
<1>2. /\ tx[s] \in Handler /\ tx \in [Session -> Handler] /\ ch.ent \in Entity
      /\ Current(s, ch.ent) = item[ch.ent]
  BY ReadsCommitted DEF TypeInv, TypeOK, EngineTypeOK, Handler, Change
<1>3. ch.val # 0 /\ Made(ch.ent)
  BY MovingHolds DEF ChangesInv
<1>4. Turn(s, ch, "read") => tx[s].seen = item[ch.ent]
  BY DEF WorkOK, Turn
<1>5. CASE \/ Refuse(s, ch) \/ RejectTarget(s, ch)
           \/ InsertClash(s, ch) \/ DeleteMissing(s, ch) \/ LockFailure(s, ch)
  BY <1>5, RecordStep DEF Refuse, RejectTarget, InsertClash, DeleteMissing, LockFailure
<1>6. CASE Conflict(s, ch)
  BY <1>4, <1>6, RecordStep DEF Conflict
<1>7. CASE Fetch(s, ch)
  <2>1. tx'[s].wr = tx[s].wr /\ tx'[s].rc = tx[s].rc
    BY <1>2, <1>7 DEF Fetch, Handler
  <2> QED
    BY <2>1 DEF WriteStep, AnswerStep
<1>8. CASE Insert(s, ch)
  <2> DEFINE new == [ver |-> 1, val |-> ch.val, del |-> ch.op = "retire",
                     upd |-> clock + 1]
  <2>1. Write(s, ch, new) /\ new.val = ch.val /\ new.upd = clock + 1
    BY <1>8 DEF Insert
  <2> HIDE DEF new
  <2> QED
    BY <1>3, <2>1, FlushStep
<1>9. CASE Update(s, ch)
  <2> DEFINE new == [ver |-> tx[s].seen.ver + (IF ch.op = "retire" THEN 2 ELSE 1),
                     val |-> ch.val,
                     del |-> ch.op = "retire" \/ Current(s, ch.ent).del,
                     upd |-> clock + 1]
  <2>1. Write(s, ch, new) /\ new.val = ch.val /\ new.upd = clock + 1
    BY <1>9 DEF Update
  <2> HIDE DEF new
  <2> QED
    BY <1>3, <2>1, FlushStep
<1>10. CASE SoftDelete(s, ch)
  <2> DEFINE new == [ver |-> tx[s].seen.ver + 1, val |-> Current(s, ch.ent).val,
                     del |-> TRUE, upd |-> clock + 1]
  <2>1. Write(s, ch, new) /\ new.val = item[ch.ent].val /\ new.upd = clock + 1
    BY <1>2, <1>10 DEF SoftDelete
  <2>2. item[ch.ent].ver # 0
    BY <1>4, <1>10 DEF SoftDelete, Admitted
  <2> HIDE DEF new
  <2> QED
    BY <1>2, <1>3, <2>1, <2>2, FlushStep DEF TablesInv
<1> QED
  BY <1>1, <1>5, <1>6, <1>7, <1>8, <1>9, <1>10

LEMMA HandlerSteps ==
  ASSUME TypeInv, StoreInv, ChangesInv, TablesInv, [Next]_vars
  PROVE  /\ \A s \in Session : WriteStep(s) /\ AnswerStep(s)
         /\ clock' \in {clock, clock + 1}
<1>0. tx \in [Session -> Handler] /\ \A s \in Session : WorkOK(s)
  BY DEF TypeInv, TypeOK, EngineTypeOK, StoreInv
<1> DEFINE Goal == /\ \A s \in Session : WriteStep(s) /\ AnswerStep(s)
                   /\ clock' \in {clock, clock + 1}
<1>1. ASSUME \A s \in Session : tx'[s].wr = tx[s].wr /\ tx'[s].rc = tx[s].rc,
             clock' = clock
      PROVE  Goal
  BY <1>1 DEF WriteStep, AnswerStep
<1>2. ASSUME NEW c \in Client,
             \/ UserEdit(c) \/ FinishEdit(c) \/ SendPush(c) \/ SendRetry(c)
             \/ ReceiveAnswer(c) \/ Requeue(c) \/ Pull(c) \/ FinishSync(c)
      PROVE  Goal
  BY <1>1, <1>2 DEF UserEdit, FinishEdit, SendPush, SendRetry, ReceiveAnswer, Requeue,
                    Pull, FinishSync, engineVars
<1>3. ASSUME NEW c \in Client, Timeout(c) \/ ClientCrash(c) PROVE Goal
  <2>1. HangUp(c)
    BY <1>3 DEF Timeout, ClientCrash
  <2>2. \A s \in Session : tx'[s].wr = tx[s].wr /\ tx'[s].rc = tx[s].rc
    BY <1>0, <2>1 DEF HangUp, Handler
  <2> QED
    BY <1>1, <2>1, <2>2 DEF HangUp
<1>4. ASSUME NEW s \in Session, clock' = clock,
             tx'[s].rc = {}, \A e \in Entity : tx'[s].wr[e].ver = 0,
             \A t \in Session \ {s} : tx'[t] = tx[t]
      PROVE  Goal
  BY <1>4 DEF WriteStep, AnswerStep
<1>5. ASSUME NEW s \in Session, NEW u, NEW batch, NEW live, BeginPush(s, u, batch, live)
      PROVE  Goal
  <2>1. tx'[s].rc = {} /\ tx'[s].wr = [e \in Entity |-> NoRow]
    BY <1>0, <1>5 DEF BeginPush, FreeHandler
  <2>2. clock' = clock /\ \A t \in Session \ {s} : tx'[t] = tx[t]
    BY <1>0, <1>5 DEF BeginPush
  <2> QED
    BY <1>4, <2>1, <2>2 DEF NoRow
<1>6. ASSUME NEW s \in Session, RollbackPush(s) \/ CommitPush(s) PROVE Goal
  <2>1. tx'[s].rc = {} /\ tx'[s].wr = [e \in Entity |-> NoRow]
    BY <1>0, <1>6 DEF RollbackPush, CommitPush, FreeHandler
  <2>2. clock' = clock /\ \A t \in Session \ {s} : tx'[t] = tx[t]
    BY <1>0, <1>6 DEF RollbackPush, CommitPush
  <2> QED
    BY <1>4, <2>1, <2>2 DEF NoRow
<1>7. ASSUME NEW s \in Session, Process(s) PROVE Goal
  <2>1. ProcessChange(s)
    BY <1>7 DEF Process
  <2>2. WriteStep(s) /\ AnswerStep(s)
    BY <1>0, <2>1, ProcessSteps
  <2>3. \A t \in Session \ {s} : WriteStep(t) /\ AnswerStep(t)
    BY <2>1, ProcessKeepsBooks DEF KeepsBooks, WriteStep, AnswerStep
  <2>4. clock' = clock \/ clock' = clock + 1
    BY <2>1 DEF ProcessChange, Refuse, Fetch, Conflict, RejectTarget, Insert, InsertClash,
                Update, SoftDelete, DeleteMissing, LockFailure, Record, Write
  <2> QED
    BY <2>2, <2>3, <2>4
<1>8. CASE UNCHANGED vars
  BY <1>1, <1>8 DEF vars, engineVars
<1> QED
  BY <1>2, <1>3, <1>5, <1>6, <1>7, <1>8
     DEF Next, Serve, ServeLate, Answer, FailRequest, ServerCrash, Abort

LEMMA ItemSteps ==
  ASSUME TypeInv, StoreInv, [Next]_vars
  PROVE  ItemStep
<1>1. CASE UNCHANGED <<item, audit>>
  BY <1>1 DEF ItemStep
<1>2. ASSUME NEW s \in Session, CommitPush(s) PROVE ItemStep
  <2>1. \A e \in Entity : item'[e] = item[e] \/ item[e].ver < item'[e].ver
    BY <1>2, Committed DEF StoreInv
  <2>2. \A e \in Entity : item'[e] # item[e] =>
          tx[s].wr[e].ver # 0 /\ item'[e] = tx[s].wr[e]
    BY <1>2 DEF CommitPush, Current
  <2> QED
    BY <2>1, <2>2 DEF ItemStep
<1> QED
  BY <1>1, <1>2, OnlyCommitsWrite


(* An answer carries the receipts of its handler, and the conflicts are    *)
(* those of an answer.                                                     *)
LEMMA AnswersPass ==
  ASSUME TypeInv, [Next]_vars
  PROVE  \A c \in Client :
           /\ \A y \in reply'[c] : y \in reply[c] \/ \E s \in Session : y.out = tx[s].rc
           /\ \A x \in conf'[c] :
                x \in conf[c] \/ \E y \in reply[c] : x \in WithStatus(y, "conflict")
<1>0. /\ reply \in [Client -> SUBSET Reply] /\ conf \in [Client -> SUBSET Receipt]
  BY DEF TypeInv, TypeOK, ClientTypeOK
<1> DEFINE Goal ==
      \A c \in Client :
        /\ \A y \in reply'[c] : y \in reply[c] \/ \E s \in Session : y.out = tx[s].rc
        /\ \A x \in conf'[c] :
             x \in conf[c] \/ \E y \in reply[c] : x \in WithStatus(y, "conflict")
<1>1. ASSUME reply' = reply, conf' = conf PROVE Goal
  BY <1>1
<1>2. ASSUME NEW c \in Client,
             \/ UserEdit(c) \/ FinishEdit(c) \/ SendPush(c) \/ SendRetry(c)
             \/ Pull(c) \/ FinishSync(c)
      PROVE  Goal
  BY <1>1, <1>2 DEF UserEdit, CreateRow, EditRow, RetireRow, RemoveRow, StartEdit,
                    FinishEdit, Enqueue, Discard, SendPush, StartSync, SendRetry,
                    RetryPush, Pull, HandlePull, FinishSync, SaveServerTime, netVars
<1>3. ASSUME NEW c \in Client, ReceiveAnswer(c) PROVE Goal
  <2>1. PICK r \in reply[c] : HandleAnswer(c, r) \/ HandleRetryAnswer(c, r)
    BY <1>3 DEF ReceiveAnswer
  <2>2. reply' = [reply EXCEPT ![c] = {}]
    BY <1>3 DEF ReceiveAnswer
  <2>3. conf' = conf \/ conf' = [conf EXCEPT ![c] = WithStatus(r, "conflict")]
    BY <2>1 DEF HandleAnswer, HandleRetryAnswer
  <2> QED
    BY <1>0, <2>1, <2>2, <2>3
<1>4. ASSUME NEW c \in Client, Requeue(c) PROVE Goal
  <2>1. PICK x : conf' = [conf EXCEPT ![c] = @ \ {x}]
    BY <1>4 DEF Requeue, RequeueConflict
  <2>2. reply' = reply
    BY <1>4 DEF Requeue, netVars
  <2> QED
    BY <1>0, <2>1, <2>2
<1>5. ASSUME NEW c \in Client, Timeout(c) \/ ClientCrash(c) PROVE Goal
  <2>1. Stop(c) /\ HangUp(c)
    BY <1>5, CrashClears DEF Timeout, ClientCrash, Interrupt, CrashInRequeue, CrashInPull
  <2> QED
    BY <1>0, <2>1 DEF Stop, HangUp
<1>6. ASSUME NEW s \in Session,
             (\E c \in Client : Serve(s, c)) \/ ServeLate(s) \/ Process(s)
      PROVE  Goal
  BY <1>1, <1>6 DEF Serve, ServeLate, Process, clientVars, syncVars, netVars
<1>7. ASSUME NEW s \in Session, Answer(s) PROVE Goal
  <2>1. conf' = conf
    BY <1>7 DEF Answer, clientVars, syncVars
  <2> DEFINE y == [dup |-> tx[s].dup, out |-> tx[s].rc]
  <2>2. reply' = reply \/ reply' = [reply EXCEPT ![tx[s].user] = {y}]
    BY <1>7 DEF Answer
  <2>3. y.out = tx[s].rc
    OBVIOUS
  <2> HIDE DEF y
  <2>4. \A c \in Client : reply'[c] \subseteq reply[c] \cup {y}
    BY <1>0, <2>2
  <2> QED
    BY <2>1, <2>3, <2>4
<1>8. ASSUME NEW s \in Session, FailRequest(s) \/ ServerCrash(s) PROVE Goal
  <2>1. reply' = reply
    BY <1>8 DEF FailRequest, ServerCrash, Abort, netVars
  <2>2. conf' = conf \/ Stop(tx[s].user)
    BY <1>8 DEF FailRequest, ServerCrash, Abort, Interrupt, clientVars, syncVars
  <2> QED
    BY <1>0, <2>1, <2>2 DEF Stop
<1>9. CASE UNCHANGED vars
  BY <1>1, <1>9 DEF vars, clientVars, syncVars, netVars
<1> QED
  BY <1>2, <1>3, <1>4, <1>5, <1>6, <1>7, <1>8, <1>9 DEF Next

-----------------------------------------------------------------------------
(* Each part of the invariant is kept. *)

PulledInv == DeviceInv /\ ChangesInv /\ TablesInv /\ AnswersInv /\ CursorInv

(* Versions are numbers and only grow, rows stay. *)
LEMMA Grows ==
  ASSUME TypeInv, TypeInv', SerialInv, PulledInv, ~Overlap, [Next]_vars
  PROVE  /\ \A e \in Entity : /\ item[e].ver \in Nat /\ item'[e].ver \in Nat
                              /\ item[e].ver <= item'[e].ver
         /\ \A e \in Entity : Made(e) => Made(e)'
         /\ nextId \in Nat /\ nextId' \in Nat /\ nextId <= nextId'
<1>1. \A e \in Entity : item[e].ver \in Nat /\ item'[e].ver \in Nat
  BY DEF TypeInv, TypeOK, EngineTypeOK, ServerRow
<1>2. ItemStep /\ DeviceStep
  BY ItemSteps, DeviceSteps DEF SerialInv, PulledInv
<1>3. \A e \in Entity : item[e].ver <= item'[e].ver
  BY <1>1, <1>2 DEF ItemStep
<1>4. \A e \in Entity : Made(e) => Made(e)'
  BY <1>2 DEF DeviceStep, RowStep, Made
<1>5. nextId \in Nat /\ nextId' \in {nextId, nextId + 1}
  BY IdsDrawn DEF TypeInv, TypeOK, ClientTypeOK
<1> QED
  BY <1>1, <1>3, <1>4, <1>5

(* A change that is queued is based on a version the server has. *)
LEMMA QueuedIsSound ==
  ASSUME TypeInv, PulledInv, NEW c \in Client, NEW new, Queues(c, new)
  PROVE  /\ new.ent \in Entity /\ row[c][new.ent].val # 0
         /\ new.val # 0 /\ new.base <= item[new.ent].ver
<1>0. /\ draft[c] \subseteq Draft /\ Outbox(c) \subseteq Change
  BY DEF TypeInv, TypeOK, ClientTypeOK, Outbox
<1>1. ASSUME NEW d \in draft[c], new.ent = d.ent, new.val = d.val,
             new.base = row[c][d.ent].ver
      PROVE  /\ new.ent \in Entity /\ row[c][new.ent].val # 0
             /\ new.val # 0 /\ new.base <= item[new.ent].ver
  BY <1>0, <1>1 DEF PulledInv, DeviceInv, CursorInv, Draft
<1>2. ASSUME NEW x \in conf[c], NEW p \in Outbox(c), p.id = x.id,
             new.ent = p.ent, new.val = p.val, new.base = x.sv
      PROVE  /\ new.ent \in Entity /\ row[c][new.ent].val # 0
             /\ new.val # 0 /\ new.base <= item[new.ent].ver
  <2>1. p \in Moving /\ p \in Change
    BY <1>0, MovingHolds
  <2>2. row[c][p.ent].val # 0 /\ p.val # 0
    BY <2>1 DEF PulledInv, DeviceInv, ChangesInv
  <2>3. x.sv <= item[p.ent].ver
    BY <1>2, <2>1 DEF PulledInv, AnswersInv, Answered
  <2> QED
    BY <1>2, <2>1, <2>2, <2>3 DEF Change
<1> QED
  BY <1>1, <1>2 DEF Queues

LEMMA DeviceKept ==
  ASSUME TypeInv, TypeInv', SerialInv, PulledInv, ~Overlap, [Next]_vars
  PROVE  DeviceInv'
<1>0. /\ \A c \in Client : draft[c] \subseteq Draft /\ Outbox(c) \subseteq Change
      /\ \A c \in Client : draft'[c] \subseteq Draft
      /\ \A p \in Change : p.ent \in Entity
      /\ \A d \in Draft : d.ent \in Entity
  BY DEF TypeInv, TypeOK, ClientTypeOK, Outbox, Change, Draft
<1>1. DeviceStep
  BY DeviceSteps DEF PulledInv
<1>2. nextId' # 0
  BY Grows DEF PulledInv, DeviceInv
<1>3. ASSUME NEW c \in Client, NEW d \in draft'[c] PROVE d.val # 0 /\ row'[c][d.ent].val # 0
  BY <1>0, <1>1, <1>3 DEF PulledInv, DeviceInv, DeviceStep, DraftStep, RowStep
<1>4. ASSUME NEW c \in Client, NEW p \in Outbox(c) PROVE row'[c][p.ent].val # 0
  BY <1>0, <1>1, <1>4 DEF PulledInv, DeviceInv, DeviceStep, RowStep
<1>5. ASSUME NEW c \in Client, NEW new, Queues(c, new), NEW d \in Client, NEW p \in Outbox(d)'
      PROVE  row'[d][p.ent].val # 0
  <2>1. CASE p \in Outbox(d)
    BY <1>4, <2>1
  <2>2. CASE p \notin Outbox(d)
    <3>1. d = c /\ p = new
      BY <1>5, <2>2 DEF Queues
    <3>2. row' = row
      BY <1>5 DEF Queues
    <3> QED
      BY <1>5, <3>1, <3>2, QueuedIsSound
  <2> QED
    BY <2>1, <2>2
<1>6. \A c \in Client : \A p \in Outbox(c)' : row'[c][p.ent].val # 0
  BY <1>4, <1>5, OutboxGrows DEF OnlyLess
<1> QED
  BY <1>2, <1>3, <1>6 DEF DeviceInv


LEMMA ChangesKept ==
  ASSUME TypeInv, TypeInv', SerialInv, PulledInv, ~Overlap, [Next]_vars
  PROVE  ChangesInv'
<1>0. /\ Moving \subseteq Change /\ Moving' \subseteq Change
      /\ \A p \in Change : p.ent \in Entity /\ p.id \in Nat /\ p.base \in Nat
  BY DEF Moving, Change
<1>1. ASSUME NEW p \in Moving
      PROVE  p.id < nextId' /\ p.val # 0 /\ Made(p.ent)' /\ p.base <= item'[p.ent].ver
  <2>1. p.id < nextId /\ p.val # 0 /\ Made(p.ent) /\ p.base <= item[p.ent].ver
    BY DEF PulledInv, ChangesInv
  <2>2. p.ent \in Entity /\ p.id \in Nat /\ p.base \in Nat
    BY <1>0
  <2>3. Made(p.ent)'
    BY <2>1, <2>2, Grows
  <2> QED
    BY <2>1, <2>2, <2>3, Grows
<1>2. CASE Moving' \subseteq Moving
  BY <1>1, <1>2 DEF PulledInv, ChangesInv
<1>3. ASSUME NEW c \in Client, NEW new, Queues(c, new), Moving' \subseteq Moving \cup {new}
      PROVE  ChangesInv'
  <2>1. /\ new.ent \in Entity /\ row[c][new.ent].val # 0
        /\ new.val # 0 /\ new.base <= item[new.ent].ver
    BY <1>3, QueuedIsSound
  <2>2. new.id = nextId /\ nextId' = nextId + 1 /\ row' = row /\ item' = item
    BY <1>3 DEF Queues, engineVars
  <2>3. \A p \in Moving : p.id # new.id
    BY <1>0, <2>2, Grows DEF PulledInv, ChangesInv
  <2>4. ASSUME NEW p \in Moving', NEW o \in Moving', p.id = o.id PROVE p = o
    BY <1>3, <2>3, <2>4 DEF PulledInv, ChangesInv
  <2>5. new.id < nextId' /\ Made(new.ent)' /\ new.base <= item'[new.ent].ver
    BY <2>1, <2>2, Grows DEF Made
  <2> QED
    BY <1>1, <1>3, <2>1, <2>4, <2>5 DEF ChangesInv
<1> QED
  BY <1>2, <1>3, MovingSteps

(* The rows that a handler writes stay ahead of every cursor. *)
LEMMA TablesKept ==
  ASSUME TypeInv, TypeInv', SerialInv, PulledInv, ~Overlap, [Next]_vars
  PROVE  TablesInv'
<1>0. /\ item \in [Entity -> ServerRow]
      /\ \A e \in Entity : item[e].ver \in Nat /\ item[e].upd \in Nat
      /\ \A s \in Session : \A e \in Entity : tx[s].wr[e].ver \in Nat /\ tx[s].wr[e].upd \in Nat
      /\ \A c \in Client : since[c] \in Nat /\ mark[c] \in Nat
      /\ clock \in Nat
  BY DEF TypeInv, TypeOK, EngineTypeOK, ClientTypeOK, Handler, ServerRow
<1>1. /\ DeviceStep /\ ItemStep /\ (\A s \in Session : WriteStep(s))
      /\ clock' \in {clock, clock + 1}
  BY DeviceSteps, ItemSteps, HandlerSteps DEF SerialInv, PulledInv
<1>2. \A e \in Entity : Made(e) => Made(e)'
  BY Grows
<1>3. ASSUME NEW e \in Entity
      PROVE  /\ item'[e].ver # 0 => item'[e].val # 0 /\ Made(e)'
             /\ item'[e].ver = 0 => item'[e].upd = 0
             /\ item'[e].upd <= clock'
  <2>1. CASE item'[e] = item[e]
    BY <1>0, <1>1, <1>2, <2>1 DEF PulledInv, TablesInv
  <2>2. CASE item'[e] # item[e]
    <3>1. PICK s \in Session : tx[s].wr[e].ver # 0 /\ item'[e] = tx[s].wr[e]
      BY <1>1, <2>2 DEF ItemStep
    <3>2. tx[s].wr[e].val # 0 /\ Made(e) /\ tx[s].wr[e].upd <= clock
      BY <3>1 DEF PulledInv, TablesInv
    <3> QED
      BY <1>0, <1>1, <1>2, <3>1, <3>2
  <2> QED
    BY <2>1, <2>2
<1>4. ASSUME NEW c \in Client PROVE since'[c] <= clock' /\ mark'[c] <= clock'
  <2>1. since[c] <= clock /\ mark[c] <= clock
    BY DEF PulledInv, TablesInv
  <2>2. since'[c] \in {since[c], mark[c]} /\ mark'[c] \in {mark[c], 0, clock}
    BY <1>1 DEF DeviceStep, CursorStep
  <2> QED
    BY <1>0, <1>1, <2>1, <2>2
<1>5. ASSUME NEW s \in Session, NEW e \in Entity, tx'[s].wr[e].ver # 0
      PROVE  /\ tx'[s].wr[e].val # 0 /\ Made(e)' /\ tx'[s].wr[e].upd <= clock'
             /\ \A c \in Client : since'[c] < tx'[s].wr[e].upd /\ mark'[c] < tx'[s].wr[e].upd
  <2>1. CASE tx'[s].wr[e] = tx[s].wr[e]
    <3>1. /\ tx[s].wr[e].val # 0 /\ Made(e) /\ tx[s].wr[e].upd <= clock
          /\ \A c \in Client : since[c] < tx[s].wr[e].upd /\ mark[c] < tx[s].wr[e].upd
      BY <1>5, <2>1 DEF PulledInv, TablesInv
    <3>2. ~Quiescent
      BY <1>5, <2>1 DEF SerialInv, StoreInv, WorkOK, Quiescent
    <3>3. ASSUME NEW c \in Client PROVE since'[c] \in {since[c], mark[c]} /\ mark'[c] \in {mark[c], 0}
      BY <1>1, <3>2 DEF DeviceStep, CursorStep
    <3>4. ASSUME NEW c \in Client
          PROVE  since'[c] < tx'[s].wr[e].upd /\ mark'[c] < tx'[s].wr[e].upd
      BY <1>0, <2>1, <3>1, <3>3
    <3>5. tx'[s].wr[e].upd <= clock'
      BY <1>0, <1>1, <2>1, <3>1
    <3> QED
      BY <1>2, <2>1, <3>1, <3>4, <3>5
  <2>2. CASE /\ tx'[s].wr[e].val # 0 /\ Made(e)
             /\ tx'[s].wr[e].upd = clock + 1 /\ clock' = clock + 1
    <3>1. ASSUME NEW c \in Client
          PROVE  since'[c] < tx'[s].wr[e].upd /\ mark'[c] < tx'[s].wr[e].upd
      <4>1. since[c] <= clock /\ mark[c] <= clock
        BY DEF PulledInv, TablesInv
      <4>2. since'[c] \in {since[c], mark[c]} /\ mark'[c] \in {mark[c], 0, clock}
        BY <1>1 DEF DeviceStep, CursorStep
      <4> QED
        BY <1>0, <2>2, <4>1, <4>2
    <3> QED
      BY <1>0, <1>2, <2>2, <3>1
  <2> QED
    BY <1>1, <1>5, <2>1, <2>2 DEF WriteStep
<1> QED
  BY <1>3, <1>4, <1>5 DEF TablesInv

LEMMA AnswersKept ==
  ASSUME TypeInv, TypeInv', SerialInv, PulledInv, ~Overlap, [Next]_vars
  PROVE  AnswersInv'
<1>0. /\ Moving \subseteq Change
      /\ \A p \in Change : p.ent \in Entity /\ p.id \in Nat
      /\ \A s \in Session : tx[s].rc \subseteq Receipt /\ tx'[s].rc \subseteq Receipt
      /\ \A c \in Client : conf[c] \subseteq Receipt
      /\ \A c \in Client : \A y \in reply[c] : y.out \subseteq Receipt
      /\ \A x \in Receipt : x.id \in Nat /\ x.sv \in Nat
  BY DEF Moving, Change, Receipt, Reply, TypeInv, TypeOK, EngineTypeOK, ClientTypeOK, Handler
<1>1. ASSUME NEW x \in Receipt, Answered(x) PROVE Answered(x)'
  <2>1. x.id < nextId /\ x.id < nextId'
    BY <1>0, <1>1, Grows DEF Answered
  <2>2. ASSUME NEW p \in Moving', p.id = x.id PROVE x.sv <= item'[p.ent].ver
    <3>1. p \in Moving
      BY <1>0, <2>1, <2>2, MovingSteps, Grows DEF Queues
    <3>2. x.sv <= item[p.ent].ver /\ p.ent \in Entity /\ x.sv \in Nat
      BY <1>0, <1>1, <2>2, <3>1 DEF Answered
    <3> QED
      BY <3>2, Grows
  <2> QED
    BY <2>1, <2>2 DEF Answered
<1>2. ASSUME NEW x \in Receipt, NEW ch \in Moving, x.id = ch.id,
             x.sv = 0 \/ x.sv = item[ch.ent].ver
      PROVE  Answered(x)
  <2>1. x.id < nextId /\ \A p \in Moving : p.id = x.id => p = ch
    BY <1>2 DEF PulledInv, ChangesInv
  <2>2. x.sv <= item[ch.ent].ver
    BY <1>0, <1>2, Grows
  <2> QED
    BY <2>1, <2>2 DEF Answered
<1>3. ASSUME NEW s \in Session, NEW x \in tx'[s].rc PROVE Answered(x)'
  <2>1. AnswerStep(s)
    BY HandlerSteps DEF SerialInv, PulledInv
  <2>2. CASE x \in tx[s].rc
    BY <1>0, <1>1, <2>2 DEF PulledInv, AnswersInv
  <2>3. CASE \E ch \in tx[s].todo : x.id = ch.id /\ (x.sv = 0 \/ x.sv = item[ch.ent].ver)
    BY <1>0, <1>1, <1>2, <2>3, MovingHolds
  <2> QED
    BY <2>1, <2>2, <2>3 DEF AnswerStep
<1>4. ASSUME NEW c \in Client, NEW y \in reply'[c], NEW x \in y.out PROVE Answered(x)'
  <2>1. CASE y \in reply[c]
    BY <1>0, <1>1, <2>1 DEF PulledInv, AnswersInv
  <2>2. ASSUME NEW s \in Session, y.out = tx[s].rc PROVE Answered(x)'
    BY <1>0, <1>1, <2>2 DEF PulledInv, AnswersInv
  <2> QED
    BY <2>1, <2>2, AnswersPass
<1>5. ASSUME NEW c \in Client, NEW x \in conf'[c] PROVE Answered(x)'
  <2>1. CASE x \in conf[c]
    BY <1>0, <1>1, <2>1 DEF PulledInv, AnswersInv
  <2>2. ASSUME NEW y \in reply[c], x \in y.out PROVE Answered(x)'
    BY <1>0, <1>1, <2>2 DEF PulledInv, AnswersInv
  <2> QED
    BY <2>1, <2>2, AnswersPass DEF WithStatus
<1> QED
  BY <1>3, <1>4, <1>5 DEF AnswersInv

LEMMA CursorKept ==
  ASSUME TypeInv, TypeInv', SerialInv, PulledInv, ~Overlap, [Next]_vars
  PROVE  CursorInv'
<1>0. /\ \A e \in Entity : item[e].ver \in Nat /\ item[e].upd \in Nat
      /\ \A e \in Entity : item'[e].ver \in Nat /\ item'[e].upd \in Nat
      /\ \A c \in Client : /\ since[c] \in Nat /\ mark[c] \in Nat
                           /\ since'[c] \in Nat /\ mark'[c] \in Nat
      /\ \A c \in Client : \A e \in Entity : row[c][e].ver \in Nat /\ row'[c][e].ver \in Nat
      /\ clock \in Nat
  BY DEF TypeInv, TypeOK, EngineTypeOK, ClientTypeOK, ServerRow, LocalRow
<1>1. DeviceStep /\ ItemStep
  BY DeviceSteps, ItemSteps DEF SerialInv, PulledInv
<1>2. ASSUME NEW c \in Client, NEW e \in Entity PROVE row'[c][e].ver <= item'[e].ver
  <2>1. row[c][e].ver <= item[e].ver
    BY DEF PulledInv, CursorInv
  <2>2. row'[c][e].ver = row[c][e].ver \/ row'[c][e].ver = item[e].ver
    BY <1>1 DEF DeviceStep, RowStep
  <2>3. item[e].ver <= item'[e].ver
    BY Grows
  <2> QED
    BY <1>0, <2>1, <2>2, <2>3
<1>3. ASSUME NEW c \in Client, NEW e \in Entity, row[c][e].ver >= item[e].ver
      PROVE  row'[c][e].ver >= item[e].ver
  BY <1>0, <1>1, <1>3 DEF DeviceStep, RowStep
<1>4. ASSUME NEW c \in Client, NEW e \in Entity, item'[e] # item[e]
      PROVE  ~(item'[e].upd <= since'[c]) /\ ~(item'[e].upd <= mark'[c])
  <2>1. PICK s \in Session : tx[s].wr[e].ver # 0 /\ item'[e] = tx[s].wr[e]
    BY <1>1, <1>4 DEF ItemStep
  <2>2. since[c] < item'[e].upd /\ mark[c] < item'[e].upd
    BY <2>1 DEF PulledInv, TablesInv
  <2>3. ~Quiescent
    BY <2>1 DEF SerialInv, StoreInv, WorkOK, Quiescent
  <2>4. since'[c] \in {since[c], mark[c]} /\ mark'[c] \in {mark[c], 0}
    BY <1>1, <2>3 DEF DeviceStep, CursorStep
  <2> QED
    BY <1>0, <2>2, <2>4
<1>5. ASSUME NEW c \in Client, NEW e \in Entity, item'[e].upd <= since'[c]
      PROVE  row'[c][e].ver >= item'[e].ver
  <2>1. item'[e] = item[e]
    BY <1>4, <1>5
  <2>2. since'[c] = since[c] \/ (pc[c] = "stamp" /\ since'[c] = mark[c])
    BY <1>1 DEF DeviceStep, CursorStep
  <2>3. row[c][e].ver >= item[e].ver
    BY <1>5, <2>1, <2>2 DEF PulledInv, CursorInv, CursorComplete
  <2> QED
    BY <1>3, <2>1, <2>3
<1>6. ASSUME NEW c \in Client, NEW e \in Entity, pc'[c] = "stamp", item'[e].upd <= mark'[c]
      PROVE  row'[c][e].ver >= item'[e].ver
  <2>1. item'[e] = item[e]
    BY <1>4, <1>6
  <2>2. CASE pc[c] = "stamp" /\ mark'[c] = mark[c]
    BY <1>3, <1>6, <2>1, <2>2 DEF PulledInv, CursorInv
  <2>3. CASE \A b \in Entity : row'[c][b].ver >= item[b].ver
    BY <2>1, <2>3
  <2> QED
    BY <1>1, <1>6, <2>2, <2>3 DEF DeviceStep, CursorStep
<1> QED
  BY <1>2, <1>5, <1>6 DEF CursorInv, CursorComplete

-----------------------------------------------------------------------------
LEMMA PulledAlways ==
  ASSUME ~Overlap
  PROVE  Spec => [](SerialInv /\ PulledInv)
<1>1. Init => PulledInv
  <2> SUFFICES ASSUME Init PROVE PulledInv
    OBVIOUS
  <2>1. /\ \A s \in Session : tx[s] = FreeHandler
        /\ item = [e \in Entity |-> NoRow] /\ clock = 0 /\ late = {} /\ nextId = 1
        /\ row = [c \in Client |-> [e \in Entity |-> NoLocal]]
        /\ \A c \in Client : /\ Outbox(c) = {} /\ wire[c] = {} /\ reply[c] = {}
                             /\ draft[c] = {} /\ conf[c] = {}
                             /\ since[c] = 0 /\ mark[c] = 0
    BY DEF Init, EngineInit, ClientInit, Outbox
  <2>2. Moving = {}
    BY <2>1 DEF Moving, FreeHandler
  <2>3. DeviceInv /\ ChangesInv /\ AnswersInv
    BY <2>1, <2>2 DEF DeviceInv, ChangesInv, AnswersInv, FreeHandler
  <2>4. TablesInv
    BY <2>1 DEF TablesInv, FreeHandler, NoRow
  <2>5. CursorInv
    BY <2>1 DEF CursorInv, CursorComplete, NoRow, NoLocal
  <2> QED
    BY <2>3, <2>4, <2>5 DEF PulledInv
<1>2. SerialInv /\ PulledInv /\ SerialInv' /\ [Next]_vars => PulledInv'
  <2> SUFFICES ASSUME SerialInv, PulledInv, SerialInv', [Next]_vars PROVE PulledInv'
    OBVIOUS
  <2>1. TypeInv /\ TypeInv'
    BY DEF SerialInv
  <2> QED
    BY <2>1, DeviceKept, ChangesKept, TablesKept, AnswersKept, CursorKept DEF PulledInv
<1> QED
  BY <1>1, <1>2, SerialAlways, PTL DEF Spec

(* While handlers run one at a time, last_server_time is complete: every   *)
(* row that was changed up to it has reached the device.                   *)
THEOREM CursorIsComplete ==
  ASSUME ~Overlap
  PROVE  Spec => []CursorComplete
<1>1. PulledInv => CursorComplete
  BY DEF PulledInv, CursorInv
<1> QED
  BY <1>1, PulledAlways, PTL

(* While handlers run one at a time, no device has a version, or queues an *)
(* edit of a version, that the server does not have.                       *)
THEOREM DevicesNeverAhead ==
  ASSUME ~Overlap
  PROVE  Spec => []NeverAhead
<1>1. SerialInv /\ PulledInv => NeverAhead
  BY MovingHolds DEF SerialInv, PulledInv, ChangesInv, CursorInv, NeverAhead
<1> QED
  BY <1>1, PulledAlways, PTL

-----------------------------------------------------------------------------
(* Changes without a base_version, with handlers overlapping or not.       *)

(* A row that a handler has found does not go away.                        *)
ReadsReal(s) ==
  tx[s].st = "read" /\ tx[s].seen.ver # 0 =>
    \A ch \in tx[s].todo :
      (\A o \in tx[s].todo : ch.id <= o.id) => Current(s, ch.ent).ver # 0

(* What is under way has content, and so has what is written.              *)
ContentInv ==
  /\ DeviceInv /\ FilledInv
  /\ \A p \in Moving : p.val # 0
  /\ \A s \in Session : \A e \in Entity :
       tx[s].wr[e].ver # 0 => tx[s].wr[e].val # 0
  /\ \A s \in Session : ReadsReal(s)

(* A conflict is reported with the version it was met at.                  *)
Versioned(S) == \A x \in S : x.status = "conflict" => x.sv # 0

ConflictInv ==
  /\ \A s \in Session : Versioned(tx[s].rc)
  /\ \A c \in Client : /\ \A y \in reply[c] : Versioned(y.out)
                       /\ \A x \in conf[c] : x.sv # 0

BasedInv ==
  /\ \A s \in Session : \A x \in tx[s].au : x.before # 0 => x.base \in {0, x.before}
  /\ \A x \in audit : x.before # 0 => x.base \in {0, x.before}

(* The row of e on device c, or a change of it under way or applied that   *)
(* the device's user sent, is as if the server had never heard of e.       *)
Claims(c, e) ==
  \/ Unsynced(c, e)
  \/ \E p \in Outbox(c) \cup wire[c] : p.ent = e /\ p.base = 0
  \/ \E q \in late : \E p \in q.todo : q.user = c /\ p.ent = e /\ p.base = 0
  \/ \E s \in Session : \E p \in tx[s].todo :
       tx[s].user = c /\ p.ent = e /\ p.base = 0
  \/ \E s \in Session : \E x \in tx[s].au : x.user = c /\ x.ent = e /\ x.base = 0
  \/ \E x \in audit : x.user = c /\ x.ent = e /\ x.base = 0

(* Only the device that made a row ever sends such changes of it.          *)
OwnerInv ==
  \A c \in Client : \A e \in Entity : Claims(c, e) =>
    /\ row[c][e].val # 0
    /\ \A d \in Client : Claims(d, e) => c = d

UnbasedInv == ContentInv /\ ConflictInv /\ BasedInv /\ OwnerInv

(* Rows only gain content, and only a row nobody has is made.              *)
MadeStep ==
  \A c \in Client : \A e \in Entity :
    /\ row[c][e].val # 0 => row'[c][e].val # 0
    /\ Unsynced(c, e)' =>
         Unsynced(c, e) \/ (/\ ~Made(e)
                            /\ \A d \in Client \ {c} : row'[d][e] = row[d][e])

LEMMA MakingSteps ==
  ASSUME TypeInv, ContentInv, [Next]_vars
  PROVE  MadeStep /\ \A c \in Client : DraftStep(c)
<1>0. /\ draft \in [Client -> SUBSET Draft]
      /\ row \in [Client -> [Entity -> LocalRow]]
      /\ DeviceInv /\ FilledInv
  BY DEF TypeInv, TypeOK, ClientTypeOK, ContentInv
<1> DEFINE Goal == MadeStep /\ \A c \in Client : DraftStep(c)
<1>1. ASSUME row' = row, \A c \in Client : draft'[c] \subseteq draft[c] PROVE Goal
  BY <1>1 DEF MadeStep, Unsynced, DraftStep
<1>2. ASSUME NEW c \in Client, NEW E, ApplyPull(c, item, E),
             \A d \in Client : draft'[d] \subseteq draft[d]
      PROVE  Goal
  BY <1>0, <1>2, PullBrings DEF RowStep, MadeStep, DraftStep
<1>3. ASSUME NEW c \in Client, UserEdit(c) PROVE Goal
  <2>1. PICK e \in Entity : \/ CreateRow(c, e) \/ EditRow(c, e)
                            \/ RetireRow(c, e) \/ RemoveRow(c, e)
    BY <1>3 DEF UserEdit
  <2>2. PICK r, op : /\ StartEdit(c, e, r, op) /\ r.val # 0
                     /\ (r.ver = row[c][e].ver /\ row[c][e].val # 0) \/ ~Made(e)
    <3>1. CASE CreateRow(c, e)
      <4> DEFINE r == [ver |-> 0, val |-> nextId, del |-> FALSE]
      <4>1. ~Made(e) /\ StartEdit(c, e, r, "upsert")
        BY <3>1 DEF CreateRow, Made
      <4>2. r.val # 0
        BY <1>0 DEF DeviceInv
      <4> QED
        BY <4>1, <4>2
    <3>2. CASE EditRow(c, e) \/ RetireRow(c, e)
      <4> DEFINE r == [row[c][e] EXCEPT !.val = nextId]
      <4>1. StartEdit(c, e, r, "upsert") \/ StartEdit(c, e, r, "retire")
        BY <3>2 DEF EditRow, RetireRow
      <4>2. r.val # 0 /\ r.ver = row[c][e].ver /\ row[c][e].val # 0
        BY <1>0, <3>2 DEF LocalRow, DeviceInv, EditRow, RetireRow, Listed
      <4> QED
        BY <4>1, <4>2
    <3>3. CASE RemoveRow(c, e)
      <4> DEFINE r == [row[c][e] EXCEPT !.del = TRUE]
      <4>1. row[c][e].val # 0 /\ (\E op : StartEdit(c, e, r, op))
        BY <3>3 DEF RemoveRow, Listed
      <4>2. r.val # 0 /\ r.ver = row[c][e].ver
        BY <1>0, <4>1 DEF LocalRow
      <4> QED
        BY <4>1, <4>2
    <3> QED
      BY <2>1, <3>1, <3>2, <3>3
  <2> DEFINE new == [ent |-> e, op |-> op, val |-> nextId]
  <2>3. row' = [row EXCEPT ![c][e] = r] /\ draft' = [draft EXCEPT ![c] = {new}]
    BY <2>2 DEF StartEdit
  <2>4. new.ent = e /\ new.val # 0
    BY <1>0 DEF DeviceInv
  <2> HIDE DEF new
  <2>5. /\ row'[c][e] = r /\ \A b \in Entity \ {e} : row'[c][b] = row[c][b]
        /\ \A d \in Client \ {c} : row'[d] = row[d]
    BY <1>0, <2>3
  <2>6. draft'[c] = {new} /\ \A d \in Client \ {c} : draft'[d] = draft[d]
    BY <1>0, <2>3
  <2>7. MadeStep
    BY <2>2, <2>5 DEF MadeStep, Unsynced, Made
  <2> QED
    BY <2>2, <2>4, <2>5, <2>6, <2>7 DEF DraftStep
<1>4. ASSUME NEW c \in Client,
             \/ FinishEdit(c) \/ SendPush(c) \/ SendRetry(c) \/ FinishSync(c)
             \/ ReceiveAnswer(c) \/ Requeue(c)
      PROVE  Goal
  <2>1. row' = row /\ (draft' = draft \/ draft' = [draft EXCEPT ![c] = {}])
    BY <1>4 DEF FinishEdit, Enqueue, Discard, SendPush, StartSync, SendRetry, RetryPush,
                FinishSync, SaveServerTime, ReceiveAnswer, HandleAnswer,
                HandleRetryAnswer, Requeue, RequeueConflict, tableVars
  <2> QED
    BY <1>0, <1>1, <2>1
<1>5. ASSUME NEW c \in Client, Pull(c) PROVE Goal
  BY <1>2, <1>5 DEF Pull, HandlePull
<1>6. ASSUME NEW c \in Client,
             Interrupt(c) \/ Timeout(c) \/ ClientCrash(c)
      PROVE  Goal
  <2>1. /\ Stop(c)
        /\ row' = row \/ \E E : ApplyPull(c, item, E)
    BY <1>6, CrashClears DEF Timeout, ClientCrash, Interrupt, CrashInRequeue, CrashInPull
  <2>2. \A d \in Client : draft'[d] \subseteq draft[d]
    BY <1>0, <2>1 DEF Stop
  <2> QED
    BY <1>1, <1>2, <2>1, <2>2
<1>7. ASSUME NEW s \in Session,
             \/ \E c \in Client : Serve(s, c)
             \/ ServeLate(s) \/ Process(s) \/ Answer(s)
      PROVE  Goal
  BY <1>1, <1>7 DEF Serve, ServeLate, Process, Answer, clientVars, tableVars, syncVars
<1>8. ASSUME NEW s \in Session, FailRequest(s) \/ ServerCrash(s) PROVE Goal
  <2>1. CASE tx[s].live
    <3>1. tx[s].user \in Client
      BY <1>8 DEF TypeInv, HandlersHaveUsers, FailRequest, ServerCrash, Abort, RollbackPush
    <3>2. Interrupt(tx[s].user)
      BY <1>8, <2>1 DEF FailRequest, ServerCrash, Abort
    <3> QED
      BY <1>6, <3>1, <3>2
  <2>2. CASE ~tx[s].live
    BY <1>1, <1>8, <2>2 DEF FailRequest, ServerCrash, Abort, clientVars, tableVars, syncVars
  <2> QED
    BY <2>1, <2>2
<1>9. ASSUME UNCHANGED vars PROVE Goal
  BY <1>1, <1>9 DEF vars, clientVars, tableVars, syncVars
<1> HIDE DEF Goal
<1>10. Goal
  BY <1>3, <1>4, <1>5, <1>6, <1>7, <1>8, <1>9 DEF Next
<1> QED
  BY <1>10 DEF Goal

(* What a step of handler s adds to its work.                              *)
FillStep(s) ==
  \A e \in Entity : tx'[s].wr[e].ver # 0 =>
    tx'[s].wr[e] = tx[s].wr[e] \/ tx'[s].wr[e].val # 0

AuditStep(s) ==
  \A x \in tx'[s].au :
    \/ x \in tx[s].au
    \/ \E ch \in tx[s].todo :
         /\ x.user = tx[s].user /\ x.ent = ch.ent /\ x.base = ch.base
         /\ x.before # 0 => x.base \in {0, x.before}

Adds(s) ==
  /\ FillStep(s) /\ AuditStep(s) /\ ReadsReal(s)'
  /\ Versioned(tx[s].rc) => Versioned(tx'[s].rc)

LEMMA RecordAdds ==
  ASSUME TypeInv, NEW s \in Session, NEW ch \in tx[s].todo, NEW status, NEW sv,
         Record(s, ch, status, sv), status = "conflict" => sv # 0
  PROVE  Adds(s)
<1> DEFINE r == [id |-> ch.id, user |-> tx[s].user, status |-> status, sv |-> sv]
           h == [tx[s] EXCEPT !.st = "ready", !.todo = tx[s].todo \ {ch},
                              !.seen = NoRow, !.rc = tx[s].rc \cup {r}]
<1>1. tx[s] \in Handler /\ tx \in [Session -> Handler]
  BY DEF TypeInv, TypeOK, EngineTypeOK
<1>2. tx' = [tx EXCEPT ![s] = h]
  BY DEF Record
<1>3. /\ h.wr = tx[s].wr /\ h.au = tx[s].au /\ h.st = "ready"
      /\ h.rc = tx[s].rc \cup {r} /\ r.status = status /\ r.sv = sv
  BY <1>1 DEF Handler
<1> HIDE DEF h, r
<1>4. tx'[s] = h
  BY <1>1, <1>2
<1> QED
  BY <1>3, <1>4 DEF Adds, FillStep, AuditStep, ReadsReal, Versioned

LEMMA WriteAdds ==
  ASSUME TypeInv, NEW s \in Session, NEW ch \in tx[s].todo, NEW new,
         Write(s, ch, new), new.val # 0, ~Mismatch(s, ch)
  PROVE  Adds(s)
<1> DEFINE r == [id |-> ch.id, user |-> tx[s].user, status |-> "accepted", sv |-> 0]
           b == [id |-> ch.id, user |-> tx[s].user, ent |-> ch.ent,
                 base |-> ch.base, val |-> ch.val,
                 before |-> tx[s].seen.ver, after |-> new.ver]
           w == [tx[s].wr EXCEPT ![ch.ent] = new]
           h == [tx[s] EXCEPT !.st = "ready", !.todo = tx[s].todo \ {ch},
                              !.seen = NoRow, !.wr = w,
                              !.rc = tx[s].rc \cup {r}, !.au = tx[s].au \cup {b}]
<1>1. tx[s] \in Handler /\ tx \in [Session -> Handler]
      /\ tx[s].wr \in [Entity -> ServerRow]
  BY DEF TypeInv, TypeOK, EngineTypeOK, Handler
<1>2. tx' = [tx EXCEPT ![s] = h]
  BY DEF Write
<1>3. /\ h.wr = w /\ h.st = "ready" /\ h.rc = tx[s].rc \cup {r}
      /\ h.au = tx[s].au \cup {b} /\ r.status = "accepted"
  BY <1>1 DEF Handler
<1>4. /\ b.user = tx[s].user /\ b.ent = ch.ent /\ b.base = ch.base
      /\ b.before # 0 => b.base \in {0, b.before}
  BY DEF Mismatch
<1>5. \A e \in Entity : w[e] = tx[s].wr[e] \/ w[e] = new
  BY <1>1
<1> HIDE DEF h, r, w, b
<1>6. tx'[s] = h
  BY <1>1, <1>2
<1>7. FillStep(s) /\ AuditStep(s)
  BY <1>3, <1>4, <1>5, <1>6 DEF FillStep, AuditStep
<1>8. ReadsReal(s)' /\ (Versioned(tx[s].rc) => Versioned(tx'[s].rc))
  BY <1>3, <1>6 DEF ReadsReal, Versioned
<1> QED
  BY <1>7, <1>8 DEF Adds

LEMMA ProcessAdds ==
  ASSUME TypeInv, BatchInv, ContentInv, NEW s \in Session, ProcessChange(s)
  PROVE  Adds(s)
<1>1. PICK ch \in tx[s].todo :
        \/ Refuse(s, ch) \/ Fetch(s, ch) \/ Conflict(s, ch)
        \/ RejectTarget(s, ch) \/ Insert(s, ch) \/ InsertClash(s, ch)
        \/ Update(s, ch) \/ SoftDelete(s, ch) \/ DeleteMissing(s, ch)
        \/ LockFailure(s, ch)
  BY DEF ProcessChange
<1>2. /\ tx[s] \in Handler /\ tx \in [Session -> Handler] /\ ch.ent \in Entity
      /\ \A o \in tx[s].todo : o.id \in Nat
  BY DEF TypeInv, TypeOK, EngineTypeOK, Handler, Change
<1>3. ch.val # 0
  BY MovingHolds DEF ContentInv
<1>4. CASE \/ Refuse(s, ch) \/ RejectTarget(s, ch)
           \/ InsertClash(s, ch) \/ DeleteMissing(s, ch) \/ LockFailure(s, ch)
  BY <1>4, RecordAdds DEF Refuse, RejectTarget, InsertClash, DeleteMissing, LockFailure
<1>5. CASE Conflict(s, ch)
  BY <1>5, RecordAdds DEF Conflict, Mismatch
<1>6. CASE Fetch(s, ch)
  <2>1. /\ tx'[s].wr = tx[s].wr /\ tx'[s].rc = tx[s].rc /\ tx'[s].au = tx[s].au
        /\ tx'[s].todo = tx[s].todo /\ tx'[s].seen = Current(s, ch.ent) /\ item' = item
    BY <1>2, <1>6 DEF Fetch, Handler
  <2>2. ASSUME NEW p \in tx[s].todo, \A o \in tx[s].todo : p.id <= o.id PROVE p = ch
    <3>1. \A o \in tx[s].todo : ch.id <= o.id
      BY <1>6 DEF Fetch, Turn
    <3>2. p.id = ch.id
      BY <1>2, <2>2, <3>1
    <3> QED
      BY <3>2 DEF BatchInv, Tidy
  <2>3. ReadsReal(s)'
    BY <2>1, <2>2 DEF ReadsReal, Current
  <2> QED
    BY <2>1, <2>3 DEF Adds, FillStep, AuditStep
<1>7. CASE Insert(s, ch)
  <2> DEFINE new == [ver |-> 1, val |-> ch.val, del |-> ch.op = "retire",
                     upd |-> clock + 1]
  <2>1. Write(s, ch, new) /\ new.val = ch.val /\ ~Mismatch(s, ch)
    BY <1>7 DEF Insert, Admitted
  <2> HIDE DEF new
  <2> QED
    BY <1>3, <2>1, WriteAdds
<1>8. CASE Update(s, ch)
  <2> DEFINE new == [ver |-> tx[s].seen.ver + (IF ch.op = "retire" THEN 2 ELSE 1),
                     val |-> ch.val,
                     del |-> ch.op = "retire" \/ Current(s, ch.ent).del,
                     upd |-> clock + 1]
  <2>1. Write(s, ch, new) /\ new.val = ch.val /\ ~Mismatch(s, ch)
    BY <1>8 DEF Update, Admitted
  <2> HIDE DEF new
  <2> QED
    BY <1>3, <2>1, WriteAdds
<1>9. CASE SoftDelete(s, ch)
  <2> DEFINE new == [ver |-> tx[s].seen.ver + 1, val |-> Current(s, ch.ent).val,
                     del |-> TRUE, upd |-> clock + 1]
  <2>1. Write(s, ch, new) /\ new.val = Current(s, ch.ent).val /\ ~Mismatch(s, ch)
    BY <1>9 DEF SoftDelete, Admitted
  <2>2. Current(s, ch.ent).ver # 0
    BY <1>9 DEF SoftDelete, Admitted, Turn, ContentInv, ReadsReal
  <2>3. Current(s, ch.ent).val # 0
    BY <1>2, <2>2 DEF Current, ContentInv, FilledInv
  <2> HIDE DEF new
  <2> QED
    BY <2>1, <2>3, WriteAdds
<1> QED
  BY <1>1, <1>4, <1>5, <1>6, <1>7, <1>8, <1>9

(* What is committed is what a handler had written.                        *)
TableStep ==
  /\ \A e \in Entity :
       \/ item'[e] = item[e]
       \/ \E s \in Session : tx[s].wr[e].ver # 0 /\ item'[e] = tx[s].wr[e]
  /\ \A x \in audit' : x \in audit \/ \E s \in Session : x \in tx[s].au

LEMMA TableSteps ==
  ASSUME TypeInv, [Next]_vars
  PROVE  TableStep
<1>1. CASE UNCHANGED <<item, audit>>
  BY <1>1 DEF TableStep
<1>2. ASSUME NEW s \in Session, CommitPush(s) PROVE TableStep
  BY <1>2 DEF CommitPush, Current, TableStep
<1> QED
  BY <1>1, <1>2, OnlyCommitsWrite

LEMMA HandlersAdd ==
  ASSUME TypeInv, BatchInv, ContentInv, [Next]_vars
  PROVE  \A s \in Session : Adds(s)
<1>0. tx \in [Session -> Handler] /\ (\A s \in Session : ReadsReal(s))
      /\ \A s \in Session : tx[s].todo \subseteq Change
  BY DEF TypeInv, TypeOK, EngineTypeOK, ContentInv, Handler
<1>1. \A e \in Entity : item[e].ver # 0 => item'[e].ver # 0
  BY TableSteps DEF TableStep
<1>2. ASSUME NEW s \in Session, tx'[s].st = tx[s].st, tx'[s].seen = tx[s].seen,
             tx'[s].todo = tx[s].todo, tx'[s].wr = tx[s].wr, tx'[s].rc = tx[s].rc,
             tx'[s].au = tx[s].au
      PROVE  Adds(s)
  <2>1. \A e \in Entity : Current(s, e).ver # 0 => Current(s, e)'.ver # 0
    BY <1>1, <1>2 DEF Current
  <2>2. \A ch \in tx[s].todo : ch.ent \in Entity
    BY <1>0 DEF Change
  <2>3. ReadsReal(s)'
    BY <1>0, <1>2, <2>1, <2>2 DEF ReadsReal
  <2> QED
    BY <1>2, <2>3 DEF Adds, FillStep, AuditStep
<1>3. ASSUME NEW s \in Session, tx'[s].st # "read", tx'[s].rc = {}, tx'[s].au = {},
             \A e \in Entity : tx'[s].wr[e].ver = 0
      PROVE  Adds(s)
  BY <1>3 DEF Adds, FillStep, AuditStep, ReadsReal, Versioned
<1> DEFINE Goal == \A s \in Session : Adds(s)
<1>4. ASSUME NEW c \in Client,
             \/ UserEdit(c) \/ FinishEdit(c) \/ SendPush(c) \/ SendRetry(c)
             \/ ReceiveAnswer(c) \/ Requeue(c) \/ Pull(c) \/ FinishSync(c)
      PROVE  Goal
  BY <1>2, <1>4 DEF UserEdit, FinishEdit, SendPush, SendRetry, ReceiveAnswer, Requeue,
                    Pull, FinishSync, engineVars
<1>5. ASSUME NEW c \in Client, Timeout(c) \/ ClientCrash(c) PROVE Goal
  <2>1. HangUp(c)
    BY <1>5 DEF Timeout, ClientCrash
  <2>2. ASSUME NEW s \in Session
        PROVE  /\ tx'[s].st = tx[s].st /\ tx'[s].seen = tx[s].seen
               /\ tx'[s].todo = tx[s].todo /\ tx'[s].wr = tx[s].wr
               /\ tx'[s].rc = tx[s].rc /\ tx'[s].au = tx[s].au
    BY <1>0, <2>1 DEF HangUp, Handler
  <2> QED
    BY <1>2, <2>2
<1>6. ASSUME NEW s \in Session,
             \/ \E u, batch, live : BeginPush(s, u, batch, live)
             \/ CommitPush(s) \/ RollbackPush(s)
      PROVE  Goal
  <2>1. \A t \in Session \ {s} : tx'[t] = tx[t]
    BY <1>0, <1>6 DEF BeginPush, CommitPush, RollbackPush
  <2>2. /\ tx'[s].st # "read" /\ tx'[s].rc = {} /\ tx'[s].au = {}
        /\ tx'[s].wr = [e \in Entity |-> NoRow]
    <3>1. ASSUME NEW u, NEW batch, NEW live, BeginPush(s, u, batch, live)
          PROVE  /\ tx'[s].st = "ready" /\ tx'[s].rc = {} /\ tx'[s].au = {}
                 /\ tx'[s].wr = [e \in Entity |-> NoRow]
      BY <1>0, <3>1 DEF BeginPush, FreeHandler
    <3>2. ASSUME CommitPush(s) \/ RollbackPush(s) PROVE tx'[s] = FreeHandler
      BY <1>0, <3>2 DEF CommitPush, RollbackPush
    <3> QED
      BY <1>6, <3>1, <3>2 DEF FreeHandler
  <2>3. Adds(s)
    BY <1>3, <2>2 DEF NoRow
  <2> QED
    BY <1>2, <2>1, <2>3
<1>7. ASSUME NEW s \in Session, Process(s) PROVE Goal
  <2>1. Adds(s)
    BY <1>7, ProcessAdds DEF Process
  <2>2. \A t \in Session \ {s} : tx'[t] = tx[t]
    BY <1>7, ProcessKeepsBooks DEF Process, KeepsBooks
  <2> QED
    BY <1>2, <2>1, <2>2
<1>8. ASSUME UNCHANGED vars PROVE Goal
  BY <1>2, <1>8 DEF vars, engineVars
<1> HIDE DEF Goal
<1>9. ASSUME NEW s \in Session, NEW c \in Client, Serve(s, c) PROVE Goal
  BY <1>6, <1>9 DEF Serve
<1>10. ASSUME NEW s \in Session, ServeLate(s) PROVE Goal
  BY <1>6, <1>10 DEF ServeLate
<1>11. ASSUME NEW s \in Session, Answer(s) \/ FailRequest(s) \/ ServerCrash(s) PROVE Goal
  BY <1>6, <1>11 DEF Answer, FailRequest, ServerCrash, Abort
<1>12. Goal
  BY <1>4, <1>5, <1>7, <1>8, <1>9, <1>10, <1>11 DEF Next
<1> QED
  BY <1>12 DEF Goal

(* Each part of the invariant is kept. *)
LEMMA ContentKept ==
  ASSUME TypeInv, TypeInv', BatchInv, ContentInv, ConflictInv, [Next]_vars
  PROVE  ContentInv'
<1>0. /\ \A c \in Client : draft[c] \subseteq Draft /\ Outbox(c) \subseteq Change
      /\ \A c \in Client : draft'[c] \subseteq Draft
      /\ \A p \in Change : p.ent \in Entity
      /\ \A d \in Draft : d.ent \in Entity
      /\ nextId \in Nat
  BY DEF TypeInv, TypeOK, ClientTypeOK, Outbox, Change, Draft
<1>1. /\ MadeStep /\ (\A c \in Client : DraftStep(c)) /\ TableStep
      /\ \A s \in Session : Adds(s)
  BY MakingSteps, TableSteps, HandlersAdd
<1>2. DeviceInv'
  <2>1. nextId' # 0
    BY <1>0, IdsDrawn DEF ContentInv, DeviceInv
  <2>2. ASSUME NEW c \in Client, NEW d \in draft'[c] PROVE d.val # 0 /\ row'[c][d.ent].val # 0
    BY <1>0, <1>1, <2>2 DEF ContentInv, DeviceInv, DraftStep, MadeStep
  <2>3. ASSUME NEW c \in Client, NEW p \in Outbox(c) PROVE row'[c][p.ent].val # 0
    BY <1>0, <1>1, <2>3 DEF ContentInv, DeviceInv, MadeStep
  <2>4. ASSUME NEW c \in Client, NEW new, Queues(c, new)
        PROVE  row'[c][new.ent].val # 0
    BY <2>4 DEF Queues, ContentInv, DeviceInv
  <2>5. \A c \in Client : \A p \in Outbox(c)' : row'[c][p.ent].val # 0
    <3>1. CASE OnlyLess
      BY <2>3, <3>1 DEF OnlyLess
    <3>2. ASSUME NEW c \in Client, NEW new, Queues(c, new), NEW d \in Client,
                 NEW p \in Outbox(d)'
          PROVE  row'[d][p.ent].val # 0
      <4>1. p \in Outbox(d) \/ (d = c /\ p = new)
        BY <3>2 DEF Queues
      <4> QED
        BY <2>3, <2>4, <3>2, <4>1
    <3> QED
      BY <3>1, <3>2, OutboxGrows
  <2> QED
    BY <2>1, <2>2, <2>5 DEF DeviceInv
<1>3. FilledInv'
  BY <1>1 DEF TableStep, ContentInv, FilledInv
<1>4. \A p \in Moving' : p.val # 0
  <2>1. CASE Moving' \subseteq Moving
    BY <2>1 DEF ContentInv
  <2>2. ASSUME NEW c \in Client, NEW new, Queues(c, new), Moving' \subseteq Moving \cup {new}
        PROVE  \A p \in Moving' : p.val # 0
    <3>1. new.val # 0
      BY <2>2, MovingHolds DEF Queues, ContentInv, DeviceInv
    <3> QED
      BY <2>2, <3>1 DEF ContentInv
  <2> QED
    BY <2>1, <2>2, MovingSteps
<1>5. \A s \in Session : \A e \in Entity : tx'[s].wr[e].ver # 0 => tx'[s].wr[e].val # 0
  BY <1>1 DEF Adds, FillStep, ContentInv
<1>6. \A s \in Session : ReadsReal(s)'
  BY <1>1 DEF Adds
<1> QED
  BY <1>2, <1>3, <1>4, <1>5, <1>6 DEF ContentInv

LEMMA ConflictKept ==
  ASSUME TypeInv, BatchInv, ContentInv, ConflictInv, [Next]_vars
  PROVE  ConflictInv'
<1>1. \A s \in Session : Versioned(tx'[s].rc)
  BY HandlersAdd DEF Adds, ConflictInv
<1>2. ASSUME NEW c \in Client PROVE \A y \in reply'[c] : Versioned(y.out)
  BY AnswersPass DEF ConflictInv
<1>3. ASSUME NEW c \in Client PROVE \A x \in conf'[c] : x.sv # 0
  BY AnswersPass DEF ConflictInv, WithStatus, Versioned
<1> QED
  BY <1>1, <1>2, <1>3 DEF ConflictInv

LEMMA BasedKept ==
  ASSUME TypeInv, BatchInv, ContentInv, BasedInv, [Next]_vars
  PROVE  BasedInv'
<1>1. \A s \in Session : \A x \in tx'[s].au : x.before # 0 => x.base \in {0, x.before}
  BY HandlersAdd DEF Adds, AuditStep, BasedInv
<1>2. \A x \in audit' : x.before # 0 => x.base \in {0, x.before}
  BY TableSteps DEF TableStep, BasedInv
<1> QED
  BY <1>1, <1>2 DEF BasedInv

(* A claim comes from an earlier one of the same device, or from making    *)
(* the row.                                                                *)
LEMMA ClaimSteps ==
  ASSUME TypeInv, BatchInv, ContentInv, ConflictInv, [Next]_vars,
         NEW c \in Client, NEW e \in Entity, Claims(c, e)'
  PROVE  \/ Claims(c, e)
         \/ /\ Unsynced(c, e)' /\ ~Made(e)
            /\ \A d \in Client \ {c} : row'[d][e] = row[d][e]
<1>1. CASE Unsynced(c, e)'
  <2>1. MadeStep
    BY MakingSteps
  <2> QED
    BY <1>1, <2>1 DEF MadeStep, Claims
<1>2. ASSUME NEW p \in Outbox(c)', p.ent = e, p.base = 0 PROVE Claims(c, e)
  <2>1. CASE p \in Outbox(c)
    BY <1>2, <2>1 DEF Claims
  <2>2. CASE p \notin Outbox(c)
    <3>1. Queues(c, p)
      BY <2>2, OutboxGrows DEF OnlyLess, Queues
    <3>2. CASE \E d \in draft[c] : p.ent = d.ent /\ p.base = row[c][d.ent].ver
      BY <1>2, <3>2 DEF ContentInv, DeviceInv, Claims, Unsynced
    <3>3. CASE \E x \in conf[c] : p.base = x.sv
      BY <1>2, <3>3 DEF ConflictInv
    <3> QED
      BY <3>1, <3>2, <3>3 DEF Queues
  <2> QED
    BY <2>1, <2>2
<1>3. /\ \A d \in Client : wire'[d] \subseteq Outbox(d) \cup wire[d]
      /\ \A q \in late' : q \in late \/ (q.user \in Client /\ q.todo = wire[q.user])
      /\ \A s \in Session : Carried(s)
  BY RequestSteps DEF RequestStep
<1>4. ASSUME NEW p \in wire'[c], p.ent = e, p.base = 0 PROVE Claims(c, e)
  BY <1>3, <1>4 DEF Claims
<1>5. ASSUME NEW q \in late', NEW p \in q.todo, q.user = c, p.ent = e, p.base = 0
      PROVE  Claims(c, e)
  BY <1>3, <1>5 DEF Claims
<1>6. ASSUME NEW s \in Session, NEW p \in tx'[s].todo, tx'[s].user = c,
             p.ent = e, p.base = 0
      PROVE  Claims(c, e)
  <2>1. Carried(s)
    BY <1>3
  <2> QED
    BY <1>6, <2>1 DEF Carried, Claims
<1>7. ASSUME NEW s \in Session, NEW x \in tx'[s].au, x.user = c, x.ent = e, x.base = 0
      PROVE  Claims(c, e)
  <2>1. AuditStep(s)
    BY HandlersAdd DEF Adds
  <2> QED
    BY <1>7, <2>1 DEF AuditStep, Claims
<1>8. ASSUME NEW x \in audit', x.user = c, x.ent = e, x.base = 0 PROVE Claims(c, e)
  <2>1. x \in audit \/ \E s \in Session : x \in tx[s].au
    BY TableSteps DEF TableStep
  <2> QED
    BY <1>8, <2>1 DEF Claims
<1> QED
  BY <1>1, <1>2, <1>4, <1>5, <1>6, <1>7, <1>8 DEF Claims

LEMMA OwnerKept ==
  ASSUME TypeInv, BatchInv, ContentInv, ConflictInv, OwnerInv, [Next]_vars
  PROVE  OwnerInv'
<1>1. MadeStep
  BY MakingSteps
<1>2. ASSUME NEW c \in Client, NEW e \in Entity, Claims(c, e)'
      PROVE  row'[c][e].val # 0
  BY <1>1, <1>2, ClaimSteps DEF OwnerInv, MadeStep, Unsynced
<1>3. ASSUME NEW c \in Client, NEW d \in Client, NEW e \in Entity,
             Claims(c, e)', Claims(d, e)', c # d
      PROVE  FALSE
  <2>1. ASSUME NEW a \in Client, Claims(a, e) PROVE Made(e)
    BY <2>1 DEF OwnerInv, Made
  <2>2. \/ Claims(c, e)
        \/ /\ ~Made(e) /\ \A b \in Client \ {c} : row'[b][e] = row[b][e]
    BY <1>3, ClaimSteps
  <2>3. \/ Claims(d, e)
        \/ Unsynced(d, e)' /\ ~Made(e)
    BY <1>3, ClaimSteps
  <2>4. CASE Claims(c, e) /\ Claims(d, e)
    BY <1>3, <2>4 DEF OwnerInv
  <2>5. CASE ~Made(e) /\ Unsynced(d, e)' /\ row'[d][e] = row[d][e]
    BY <2>5 DEF Made, Unsynced
  <2> QED
    BY <1>3, <2>1, <2>2, <2>3, <2>4, <2>5
<1> QED
  BY <1>2, <1>3 DEF OwnerInv

LEMMA UnbasedAlways == Spec => [](TypeInv /\ UnbasedInv)
<1>1. Init => OutboxInv /\ BatchInv /\ UnbasedInv
  <2> SUFFICES ASSUME Init PROVE OutboxInv /\ BatchInv /\ UnbasedInv
    OBVIOUS
  <2>1. /\ \A s \in Session : tx[s] = FreeHandler
        /\ item = [e \in Entity |-> NoRow] /\ audit = {} /\ late = {} /\ nextId = 1
        /\ row = [c \in Client |-> [e \in Entity |-> NoLocal]]
        /\ \A c \in Client : /\ Outbox(c) = {} /\ wire[c] = {} /\ reply[c] = {}
                             /\ draft[c] = {} /\ conf[c] = {}
    BY DEF Init, EngineInit, ClientInit, Outbox
  <2>2. OutboxInv /\ BatchInv
    BY <2>1 DEF OutboxInv, BatchInv, Tidy, FreeHandler
  <2>3. Moving = {}
    BY <2>1 DEF Moving, FreeHandler
  <2>4. ContentInv
    BY <2>1, <2>3 DEF ContentInv, DeviceInv, FilledInv, ReadsReal, FreeHandler, NoRow
  <2>5. ConflictInv /\ BasedInv
    BY <2>1 DEF ConflictInv, BasedInv, Versioned, FreeHandler
  <2>6. OwnerInv
    BY <2>1 DEF OwnerInv, Claims, Unsynced, NoLocal, FreeHandler
  <2> QED
    BY <2>2, <2>4, <2>5, <2>6 DEF UnbasedInv
<1>2. TypeInv /\ TypeInv' /\ BatchInv /\ UnbasedInv /\ [Next]_vars => UnbasedInv'
  BY ContentKept, ConflictKept, BasedKept, OwnerKept DEF UnbasedInv
<1> QED
  BY <1>1, <1>2, ReceiptsAlways, OutboxTidy, BatchesTidy, PTL DEF Spec

(* A base_version that is sent is checked, and changes without one are     *)
(* sent only by the user who made the row: with handlers overlapping, with *)
(* any number of users and failures.                                       *)
THEOREM AppliedToItsBase == Spec => []AppliedOnBase
<1>1. TypeInv /\ UnbasedInv => AppliedOnBase
  <2> SUFFICES ASSUME TypeInv, UnbasedInv PROVE AppliedOnBase
    OBVIOUS
  <2>1. \A x \in audit : x.user \in Client /\ x.ent \in Entity
    BY DEF TypeInv, TypeOK, EngineTypeOK, AuditRow
  <2>2. ASSUME NEW x \in audit, NEW y \in audit, x.ent = y.ent, x.base = 0, y.base = 0
        PROVE  x.user = y.user
    <3>1. Claims(x.user, x.ent) /\ Claims(y.user, x.ent)
      BY <2>2 DEF Claims
    <3> QED
      BY <2>1, <3>1 DEF UnbasedInv, OwnerInv
  <2> QED
    BY <2>2 DEF UnbasedInv, BasedInv, AppliedOnBase
<1> QED
  BY <1>1, UnbasedAlways, PTL
==============================================================================
