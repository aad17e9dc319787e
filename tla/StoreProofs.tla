---------------------------- MODULE StoreProofs ----------------------------
(***************************************************************************)
(* Without Overlap, when the server runs one push handler at a time, the   *)
(* tables implement ProjectStore and the history of every row is linear,   *)
(* for every set of clients, rows and sessions, every batch limit and      *)
(* every number of edits and failures.  The run two_writers shows that     *)
(* the assumption is needed.                                               *)
(***************************************************************************)
EXTENDS RiskSyncProofs

-----------------------------------------------------------------------------
(* No batch names a change or a row twice. *)

Tidy(S) == \A p, o \in S : p.id = o.id \/ p.ent = o.ent => p = o

OutboxInv ==
  \A c \in Client : /\ Tidy(Outbox(c))
                    /\ \A p \in Outbox(c) : p.id < nextId

BatchInv ==
  /\ \A c \in Client : Tidy(wire[c])
  /\ \A q \in late : Tidy(q.todo)
  /\ \A s \in Session : Tidy(tx[s].todo)

LEMMA ReplaceKeepsTidy ==
  ASSUME ClientTypeOK, OutboxInv, NEW c \in Client, NEW e, NEW op,
         NEW base, NEW val, ReplaceEntry(c, e, op, base, val),
         nextId' = nextId + 1
  PROVE  OutboxInv'
<1> DEFINE new == [id |-> nextId, ent |-> e, op |-> op, base |-> base, val |-> val]
<1>0. new.ent = e /\ new.id = nextId /\ nextId \in Nat
  BY DEF ClientTypeOK
<1>1. Outbox(c)' = Except(Outbox(c), e) \cup {new}
  BY DEF Outbox, ReplaceEntry, Except, ClientTypeOK
<1>2. \A d \in Client : \A p \in Outbox(d) : p.id < nextId /\ p.id \in Nat
  <2>1. \A d \in Client : Outbox(d) \subseteq Change
    BY DEF ClientTypeOK, Outbox
  <2>2. \A p \in Change : p.id \in Nat
    BY DEF Change
  <2> QED
    BY <2>1, <2>2 DEF OutboxInv
<1> HIDE DEF new
<1>3. \A p \in Except(Outbox(c), e) :
        p \in Outbox(c) /\ p.ent # new.ent /\ p.id < new.id /\ p.id \in Nat
  BY <1>0, <1>2 DEF Except
<1>4. ASSUME NEW p \in Outbox(c)', NEW o \in Outbox(c)', p.id = o.id \/ p.ent = o.ent
      PROVE  p = o
  <2>1. CASE p = new \/ o = new
    BY <1>0, <1>1, <1>3, <1>4, <2>1
  <2>2. CASE p # new /\ o # new
    BY <1>1, <1>3, <1>4, <2>2 DEF OutboxInv, Tidy
  <2> QED
    BY <2>1, <2>2
<1>5. \A p \in Outbox(c)' : p.id < nextId'
  BY <1>0, <1>1, <1>3
<1>6. \A d \in Client \ {c} : Outbox(d)' = Outbox(d)
  BY DEF Outbox, ReplaceEntry, ClientTypeOK
<1>7. \A d \in Client \ {c} : \A p \in Outbox(d) : p.id < nextId + 1
  BY <1>0, <1>2
<1> QED
  BY <1>4, <1>5, <1>6, <1>7 DEF OutboxInv, Tidy

(* Every entry that is queued draws a new id. *)
LEMMA IdsDrawn ==
  ASSUME TypeInv, [Next]_vars
  PROVE  /\ nextId' \in {nextId, nextId + 1}
         /\ \/ \A d \in Client : Outbox(d)' \subseteq Outbox(d)
            \/ nextId' = nextId + 1
<1> DEFINE Less == \A d \in Client : Outbox(d)' \subseteq Outbox(d)
           Drawn == nextId' = nextId + 1
           Kept == nextId' = nextId
<1>0. ClientTypeOK
  BY DEF TypeInv, TypeOK
<1>1. ASSUME NEW c \in Client, UserEdit(c) PROVE Drawn
  BY <1>1 DEF UserEdit, CreateRow, EditRow, RetireRow, RemoveRow, StartEdit
<1>2. ASSUME NEW c \in Client,
             SendPush(c) \/ SendRetry(c) \/ Pull(c) \/ FinishSync(c)
      PROVE  Less /\ Kept
  BY <1>2 DEF SendPush, SendRetry, Pull, FinishSync, StartSync, RetryPush,
              HandlePull, SaveServerTime, tableVars, Outbox
<1>3. ASSUME NEW c \in Client, FinishEdit(c) PROVE Drawn \/ (Less /\ Kept)
  <2>1. CASE Enqueue(c)
    BY <2>1 DEF Enqueue
  <2>2. CASE Discard(c)
    <3>1. PICK e : /\ pending' = [pending EXCEPT ![c] = Except(@, e)]
                   /\ blocked' = [blocked EXCEPT ![c] = Except(@, e)]
      BY <2>2 DEF Discard
    <3>2. Kept
      BY <2>2 DEF Discard
    <3> QED
      BY <1>0, <3>1, <3>2 DEF ClientTypeOK, Outbox, Except
  <2> QED
    BY <1>3, <2>1, <2>2 DEF FinishEdit
<1>4. ASSUME NEW c \in Client, ReceiveAnswer(c) PROVE Less /\ Kept
  BY <1>0, <1>4, ClearShrinks
     DEF ReceiveAnswer, HandleAnswer, HandleRetryAnswer, ProcessPush
<1>5. ASSUME NEW c \in Client, Requeue(c) PROVE Drawn
  BY <1>5 DEF Requeue, RequeueConflict
<1>6. ASSUME NEW c \in Client, Timeout(c) \/ ClientCrash(c) PROVE Less /\ Kept
  <2>1. Less
    BY <1>0, <1>6, StopShrinks DEF Timeout, ClientCrash
  <2>2. Kept
    BY <1>6, CrashClears
       DEF Timeout, ClientCrash, Interrupt, CrashInRequeue, CrashInPull, Stop
  <2> QED
    BY <2>1, <2>2
<1>7. ASSUME NEW s \in Session,
             \/ \E c \in Client : Serve(s, c)
             \/ ServeLate(s) \/ Process(s) \/ Answer(s)
      PROVE  Less /\ Kept
  BY <1>7 DEF Serve, ServeLate, Process, Answer, clientVars, tableVars, Outbox
<1>8. ASSUME NEW s \in Session, Abort(s) PROVE Less /\ Kept
  BY <1>8 DEF Abort, Interrupt, Stop, clientVars, tableVars, Outbox
<1>9. ASSUME UNCHANGED vars PROVE Less /\ Kept
  BY <1>9 DEF vars, clientVars, tableVars, Outbox
<1> HIDE DEF Less, Drawn, Kept
<1>10. Drawn \/ (Less /\ Kept)
  BY <1>1, <1>2, <1>3, <1>4, <1>5, <1>6, <1>7, <1>8, <1>9
     DEF Next, FailRequest, ServerCrash
<1> QED
  BY <1>10 DEF Less, Drawn, Kept

LEMMA OutboxTidy == TypeInv /\ OutboxInv /\ [Next]_vars => OutboxInv'
<1> SUFFICES ASSUME TypeInv, OutboxInv, [Next]_vars PROVE OutboxInv'
  OBVIOUS
<1>0. ClientTypeOK /\ nextId \in Nat /\ \A c \in Client : \A p \in Outbox(c) : p.id \in Nat
  BY DEF TypeInv, TypeOK, ClientTypeOK, Outbox, Change
<1>1. CASE \A d \in Client : Outbox(d)' \subseteq Outbox(d)
  <2>1. nextId' = nextId \/ nextId' = nextId + 1
    BY IdsDrawn
  <2>2. \A c \in Client : \A p \in Outbox(c) : p.id < nextId'
    BY <1>0, <2>1 DEF OutboxInv
  <2>3. \A c \in Client : Tidy(Outbox(c))'
    BY <1>1 DEF OutboxInv, Tidy
  <2> QED
    BY <1>1, <2>2, <2>3 DEF OutboxInv
<1>2. CASE nextId' = nextId + 1
           /\ \E c \in Client : \E e, op, base, val : ReplaceEntry(c, e, op, base, val)
  BY <1>0, <1>2, ReplaceKeepsTidy
<1> QED
  BY <1>1, <1>2, IdsDrawn, OutboxSteps

LEMMA BatchesTidy == TypeInv /\ OutboxInv /\ BatchInv /\ [Next]_vars => BatchInv'
<1> SUFFICES ASSUME TypeInv, OutboxInv, BatchInv, [Next]_vars PROVE BatchInv'
  OBVIOUS
<1>0. tx \in [Session -> Handler] /\ wire \in [Client -> SUBSET Change]
      /\ sent \in [Client -> SUBSET Change] /\ late \in SUBSET Request
  BY DEF TypeInv, TypeOK, EngineTypeOK, ClientTypeOK
<1>1. ASSUME \A c \in Client : wire'[c] \subseteq wire[c],
             \A q \in late' : q \in late \/ \E c \in Client : q.todo = wire[c],
             \A s \in Session : tx'[s].todo \subseteq tx[s].todo
      PROVE  BatchInv'
  <2>1. \A c \in Client : Tidy(wire[c])'
    BY <1>1 DEF BatchInv, Tidy
  <2>2. ASSUME NEW q \in late' PROVE Tidy(q.todo)
    BY <1>1 DEF BatchInv
  <2>3. \A s \in Session : Tidy(tx[s].todo)'
    BY <1>1 DEF BatchInv, Tidy
  <2> QED
    BY <2>1, <2>2, <2>3 DEF BatchInv
<1>2. ASSUME NEW c \in Client,
             \/ UserEdit(c) \/ FinishEdit(c) \/ ReceiveAnswer(c) \/ Requeue(c)
             \/ Pull(c) \/ FinishSync(c)
      PROVE  BatchInv'
  BY <1>1, <1>2 DEF UserEdit, FinishEdit, ReceiveAnswer, Requeue, Pull, FinishSync,
                    engineVars, netVars
<1>3. ASSUME NEW c \in Client, SendPush(c) \/ SendRetry(c) PROVE BatchInv'
  <2>1. wire' = [wire EXCEPT ![c] = sent'[c]] /\ UNCHANGED <<late, tx>>
    BY <1>3 DEF SendPush, SendRetry, engineVars
  <2>2. sent'[c] \subseteq Outbox(c)
    <3>1. OldestPending(c) \subseteq Outbox(c)
      BY DEF OldestPending, Outbox
    <3>2. sent'[c] \subseteq OldestPending(c)
      <4>1. \/ sent' = [sent EXCEPT ![c] = OldestPending(c)]
            \/ sent' = [sent EXCEPT ![c] = {p \in OldestPending(c) : p.id \in again[c]}]
        BY <1>3 DEF SendPush, SendRetry, StartSync, RetryPush
      <4> QED
        BY <1>0, <4>1
    <3> QED
      BY <3>1, <3>2
  <2>3. Tidy(wire'[c])
    BY <1>0, <2>1, <2>2 DEF OutboxInv, Tidy
  <2>4. \A d \in Client \ {c} : wire'[d] = wire[d]
    BY <1>0, <2>1
  <2> QED
    BY <2>1, <2>3, <2>4 DEF BatchInv, Tidy
<1>4. ASSUME NEW c \in Client, Timeout(c) \/ ClientCrash(c) PROVE BatchInv'
  <2>1. HangUp(c)
    BY <1>4 DEF Timeout, ClientCrash
  <2>2. \A s \in Session : tx'[s].todo = tx[s].todo
    BY <1>0, <2>1 DEF HangUp, Handler
  <2>3. \A d \in Client : wire'[d] \subseteq wire[d]
    BY <1>0, <2>1 DEF HangUp
  <2>4. \A q \in late' : q \in late \/ \E d \in Client : q.todo = wire[d]
    BY <2>1 DEF HangUp
  <2> QED
    BY <1>1, <2>2, <2>3, <2>4
<1>5. ASSUME NEW s \in Session, NEW c \in Client, Serve(s, c) PROVE BatchInv'
  <2>1. tx'[s].todo \subseteq wire[c] /\ \A t \in Session \ {s} : tx'[t] = tx[t]
    BY <1>0, <1>5 DEF Serve, BeginPush, FreeHandler
  <2>2. late' = late /\ \A d \in Client : wire'[d] \subseteq wire[d]
    BY <1>0, <1>5 DEF Serve
  <2> QED
    BY <2>1, <2>2 DEF BatchInv, Tidy
<1>6. ASSUME NEW s \in Session, ServeLate(s) PROVE BatchInv'
  <2>1. PICK q \in late : BeginPush(s, q.user, q.todo, FALSE) /\ late' = late \ {q}
    BY <1>6 DEF ServeLate
  <2>2. tx'[s].todo \subseteq q.todo /\ \A t \in Session \ {s} : tx'[t] = tx[t]
    BY <1>0, <2>1 DEF BeginPush, FreeHandler
  <2>3. wire' = wire
    BY <1>6 DEF ServeLate
  <2> QED
    BY <2>1, <2>2, <2>3 DEF BatchInv, Tidy
<1>7. ASSUME NEW s \in Session, Process(s) PROVE BatchInv'
  <2>1. PICK ch \in tx[s].todo :
          \/ \E status, sv : Record(s, ch, status, sv)
          \/ \E new : Write(s, ch, new)
          \/ Fetch(s, ch)
    BY <1>7 DEF Process, ProcessChange, Refuse, Conflict, RejectTarget, Insert,
                InsertClash, Update, SoftDelete, DeleteMissing, LockFailure
  <2>2. \A t \in Session : tx'[t].todo \subseteq tx[t].todo
    <3>1. CASE Fetch(s, ch)
      BY <1>0, <3>1 DEF Fetch, Handler
    <3>2. CASE Decides(s, ch)
      BY <3>2 DEF Decides
    <3> QED
      BY <2>1, <3>1, <3>2, RecordDecides, WriteDecides
  <2> QED
    BY <1>1, <1>7, <2>2 DEF Process, netVars
<1>8. ASSUME NEW s \in Session, Answer(s) \/ Abort(s) PROVE BatchInv'
  <2>1. tx'[s].todo = {} /\ \A t \in Session \ {s} : tx'[t] = tx[t]
    BY <1>0, <1>8 DEF Answer, Abort, CommitPush, RollbackPush, FreeHandler
  <2>2. UNCHANGED <<wire, late>>
    BY <1>8 DEF Answer, Abort, netVars
  <2> QED
    BY <1>1, <2>1, <2>2
<1>9. ASSUME UNCHANGED vars PROVE BatchInv'
  BY <1>1, <1>9 DEF vars, engineVars, netVars
<1> QED
  BY <1>2, <1>3, <1>4, <1>5, <1>6, <1>7, <1>8, <1>9
     DEF Next, FailRequest, ServerCrash

-----------------------------------------------------------------------------
(* The handler that runs works on the committed rows. *)

Alone ==
  \A s, t \in Session : tx[s].st # "free" /\ tx[t].st # "free" => s = t

LEMMA AloneSteps == ~Overlap /\ TypeInv /\ Alone /\ [Next]_vars => Alone'
<1> SUFFICES ASSUME ~Overlap, TypeInv, Alone, [Next]_vars PROVE Alone'
  OBVIOUS
<1>0. tx \in [Session -> Handler]
  BY DEF TypeInv, TypeOK, EngineTypeOK
<1>1. ASSUME \A t \in Session : tx'[t].st # "free" => tx[t].st # "free"
      PROVE  Alone'
  BY <1>1 DEF Alone
<1>2. ASSUME NEW c \in Client,
             \/ UserEdit(c) \/ FinishEdit(c) \/ SendPush(c) \/ SendRetry(c)
             \/ ReceiveAnswer(c) \/ Requeue(c) \/ Pull(c) \/ FinishSync(c)
      PROVE  tx' = tx
  BY <1>2 DEF UserEdit, FinishEdit, SendPush, SendRetry, ReceiveAnswer, Requeue,
              Pull, FinishSync, engineVars
<1>3. ASSUME NEW c \in Client, Timeout(c) \/ ClientCrash(c), NEW s \in Session
      PROVE  tx'[s].st = tx[s].st
  BY <1>0, <1>3 DEF Timeout, ClientCrash, HangUp, Handler
<1>4. ASSUME NEW s \in Session, NEW u, NEW batch, NEW live, BeginPush(s, u, batch, live)
      PROVE  Alone'
  <2>1. \A t \in Session : tx[t].st = "free"
    BY <1>4 DEF BeginPush, Quiescent
  <2>2. \A t \in Session \ {s} : tx'[t] = tx[t]
    BY <1>0, <1>4 DEF BeginPush
  <2> QED
    BY <2>1, <2>2 DEF Alone
<1>5. ASSUME NEW s \in Session, Process(s)
      PROVE  tx[s].st # "free" /\ \A t \in Session \ {s} : tx'[t] = tx[t]
  <2>1. tx[s].st # "free"
    BY <1>5 DEF Process, ProcessChange, Refuse, Conflict, RejectTarget, Insert,
                InsertClash, Update, SoftDelete, DeleteMissing, LockFailure, Fetch, Turn
  <2> QED
    BY <1>5, <2>1, ProcessKeepsBooks DEF Process, KeepsBooks
<1>6. ASSUME NEW s \in Session, Answer(s) \/ Abort(s)
      PROVE  tx'[s].st = "free" /\ \A t \in Session \ {s} : tx'[t] = tx[t]
  BY <1>0, <1>6 DEF Answer, Abort, CommitPush, RollbackPush, FreeHandler
<1>7. ASSUME UNCHANGED vars PROVE tx' = tx
  BY <1>7 DEF vars, engineVars
<1>8. ASSUME NEW c \in Client,
             \/ UserEdit(c) \/ FinishEdit(c) \/ SendPush(c) \/ SendRetry(c)
             \/ ReceiveAnswer(c) \/ Requeue(c) \/ Pull(c) \/ FinishSync(c)
             \/ Timeout(c) \/ ClientCrash(c)
      PROVE  Alone'
  BY <1>1, <1>2, <1>3, <1>8
<1>9. ASSUME NEW s \in Session, (\E c \in Client : Serve(s, c)) \/ ServeLate(s)
      PROVE  Alone'
  BY <1>4, <1>9 DEF Serve, ServeLate
<1>10. ASSUME NEW s \in Session, Process(s) \/ Answer(s) \/ Abort(s) PROVE Alone'
  BY <1>1, <1>5, <1>6, <1>10
<1>11. CASE UNCHANGED vars
  BY <1>1, <1>7, <1>11
<1> QED
  BY <1>8, <1>9, <1>10, <1>11 DEF Next, FailRequest, ServerCrash

(* What the open handler has read is the committed row, what it has        *)
(* written goes one version further, and no row is written twice.          *)
WorkOK(s) ==
  /\ tx[s].st = "free" => tx[s].au = {}
  /\ \A e \in Entity : tx[s].wr[e].ver # 0 =>
       /\ \E h \in tx[s].au : h.ent = e
       /\ item[e].del => tx[s].wr[e].del
  /\ \A h \in tx[s].au :
       /\ h.before = item[h.ent].ver /\ h.after = tx[s].wr[h.ent].ver
       /\ h.before < h.after
       /\ \A ch \in tx[s].todo : ch.ent # h.ent
       /\ \A g \in tx[s].au : h.ent = g.ent => h = g
  /\ tx[s].st = "read" =>
       \A ch \in tx[s].todo :
         (\A o \in tx[s].todo : ch.id <= o.id) => tx[s].seen = item[ch.ent]

(* Every version in the audit log is one its row has left behind. *)
HistoryInv ==
  /\ \A e \in Entity : item[e].ver = 0 => ~item[e].del
  /\ \A x \in audit : x.before < item[x.ent].ver

LEMMA SameWork ==
  ASSUME NEW s \in Session, WorkOK(s), item' = item,
         tx'[s].st = tx[s].st, tx'[s].todo = tx[s].todo, tx'[s].seen = tx[s].seen,
         tx'[s].wr = tx[s].wr, tx'[s].au = tx[s].au
  PROVE  WorkOK(s)'
  BY DEF WorkOK

LEMMA NoWork ==
  ASSUME NEW s \in Session, tx'[s].au = {}, tx'[s].st # "read",
         \A e \in Entity : tx'[s].wr[e].ver = 0
  PROVE  WorkOK(s)'
  BY DEF WorkOK

(* A row that is still to be processed is as it was committed. *)
LEMMA ReadsCommitted ==
  ASSUME TypeInv, NEW s \in Session, WorkOK(s), NEW ch \in tx[s].todo
  PROVE  tx[s].wr[ch.ent].ver = 0 /\ Current(s, ch.ent) = item[ch.ent]
<1>1. ch.ent \in Entity
  BY DEF TypeInv, TypeOK, EngineTypeOK, Handler, Change
<1>2. tx[s].wr[ch.ent].ver = 0
  BY <1>1 DEF WorkOK
<1> QED
  BY <1>2 DEF Current

LEMMA RecordWorks ==
  ASSUME TypeInv, NEW s \in Session, WorkOK(s), NEW ch, NEW status, NEW sv,
         Record(s, ch, status, sv), tx[s].st # "free"
  PROVE  WorkOK(s)'
<1> DEFINE r == [id |-> ch.id, user |-> tx[s].user, status |-> status, sv |-> sv]
           h == [tx[s] EXCEPT !.st = "ready", !.todo = tx[s].todo \ {ch},
                              !.seen = NoRow, !.rc = tx[s].rc \cup {r}]
<1>1. tx[s] \in Handler /\ tx \in [Session -> Handler]
  BY DEF TypeInv, TypeOK, EngineTypeOK
<1>2. tx' = [tx EXCEPT ![s] = h] /\ item' = item
  BY DEF Record
<1>3. h.st = "ready" /\ h.todo = tx[s].todo \ {ch} /\ h.wr = tx[s].wr /\ h.au = tx[s].au
  BY <1>1 DEF Handler
<1> HIDE DEF h
<1>4. tx'[s] = h
  BY <1>1, <1>2
<1> QED
  BY <1>2, <1>3, <1>4 DEF WorkOK

LEMMA FetchWorks ==
  ASSUME TypeInv, NEW s \in Session, WorkOK(s), Tidy(tx[s].todo),
         NEW ch \in tx[s].todo, Fetch(s, ch)
  PROVE  WorkOK(s)'
<1> DEFINE h == [tx[s] EXCEPT !.st = "read", !.seen = Current(s, ch.ent)]
<1>1. tx[s] \in Handler /\ tx \in [Session -> Handler] /\ tx[s].todo \subseteq Change
  BY DEF TypeInv, TypeOK, EngineTypeOK, Handler
<1>2. tx' = [tx EXCEPT ![s] = h] /\ item' = item
  BY DEF Fetch
<1>3. h.st = "read" /\ h.todo = tx[s].todo /\ h.wr = tx[s].wr /\ h.au = tx[s].au
      /\ h.seen = item[ch.ent]
  BY <1>1, ReadsCommitted DEF Handler
<1> HIDE DEF h
<1>4. tx'[s] = h
  BY <1>1, <1>2
<1>5. \A o \in tx[s].todo : o.id \in Nat
  BY <1>1 DEF Change
<1>6. ASSUME NEW d \in tx[s].todo, \A o \in tx[s].todo : d.id <= o.id PROVE d = ch
  <2>1. \A o \in tx[s].todo : ch.id <= o.id
    BY DEF Fetch, Turn
  <2>2. d.id = ch.id
    BY <1>5, <1>6, <2>1
  <2> QED
    BY <2>2 DEF Tidy
<1>7. \A d \in tx[s].todo : (\A o \in tx[s].todo : d.id <= o.id) => h.seen = item[d.ent]
  BY <1>3, <1>6
<1>9. \A e \in Entity : tx'[s].wr[e].ver # 0 =>
        /\ \E g \in tx'[s].au : g.ent = e
        /\ item'[e].del => tx'[s].wr[e].del
  BY <1>2, <1>3, <1>4 DEF WorkOK
<1>10. \A x \in tx'[s].au :
         /\ x.before = item'[x.ent].ver /\ x.after = tx'[s].wr[x.ent].ver
         /\ x.before < x.after
         /\ \A d \in tx'[s].todo : d.ent # x.ent
         /\ \A g \in tx'[s].au : x.ent = g.ent => x = g
  BY <1>2, <1>3, <1>4 DEF WorkOK
<1>11. tx'[s].st # "free" /\ \A d \in tx'[s].todo :
         (\A o \in tx'[s].todo : d.id <= o.id) => tx'[s].seen = item'[d.ent]
  BY <1>2, <1>3, <1>4, <1>7
<1> QED
  BY <1>9, <1>10, <1>11 DEF WorkOK

(* A flush: the row goes one version further than the committed one. *)
LEMMA WriteWorks ==
  ASSUME TypeInv, NEW s \in Session, WorkOK(s), Tidy(tx[s].todo),
         NEW ch \in tx[s].todo, NEW new \in ServerRow, Write(s, ch, new),
         tx[s].seen = item[ch.ent], item[ch.ent].ver < new.ver,
         item[ch.ent].del => new.del
  PROVE  WorkOK(s)'
<1> DEFINE r == [id |-> ch.id, user |-> tx[s].user, status |-> "accepted", sv |-> 0]
           b == [id |-> ch.id, user |-> tx[s].user, ent |-> ch.ent,
                 base |-> ch.base, val |-> ch.val,
                 before |-> tx[s].seen.ver, after |-> new.ver]
           w == [tx[s].wr EXCEPT ![ch.ent] = new]
           h == [tx[s] EXCEPT !.st = "ready", !.todo = tx[s].todo \ {ch},
                              !.seen = NoRow, !.wr = w,
                              !.rc = tx[s].rc \cup {r}, !.au = tx[s].au \cup {b}]
<1>1. /\ tx[s] \in Handler /\ tx \in [Session -> Handler] /\ ch.ent \in Entity
      /\ tx[s].wr \in [Entity -> ServerRow] /\ tx[s].au \subseteq AuditRow
  BY DEF TypeInv, TypeOK, EngineTypeOK, Handler, Change
<1>2. tx' = [tx EXCEPT ![s] = h] /\ item' = item
  BY DEF Write
<1>3. h.st = "ready" /\ h.todo = tx[s].todo \ {ch} /\ h.wr = w /\ h.au = tx[s].au \cup {b}
  BY <1>1 DEF Handler
<1>4. b.ent = ch.ent /\ b.before = item[ch.ent].ver /\ b.after = new.ver
  OBVIOUS
<1>5. w[ch.ent] = new /\ \A e \in Entity \ {ch.ent} : w[e] = tx[s].wr[e]
  BY <1>1
<1> HIDE DEF h, b, w, r
<1>6. tx'[s] = h
  BY <1>1, <1>2
<1>7. \A x \in tx[s].au : x.ent \in Entity \ {ch.ent}
  BY <1>1 DEF WorkOK, AuditRow
<1>8. \A d \in tx[s].todo \ {ch} : d.ent # ch.ent
  BY DEF Tidy
<1>9. ASSUME NEW e \in Entity, w[e].ver # 0
      PROVE  (\E g \in h.au : g.ent = e) /\ (item[e].del => w[e].del)
  <2>1. CASE e = ch.ent
    BY <1>3, <1>4, <1>5, <2>1
  <2>2. CASE e # ch.ent
    BY <1>3, <1>5, <1>9, <2>2 DEF WorkOK
  <2> QED
    BY <2>1, <2>2
<1>10. ASSUME NEW x \in h.au
       PROVE  /\ x.before = item[x.ent].ver /\ x.after = w[x.ent].ver
              /\ x.before < x.after
              /\ \A d \in h.todo : d.ent # x.ent
              /\ \A g \in h.au : x.ent = g.ent => x = g
  <2>1. CASE x = b
    BY <1>3, <1>4, <1>5, <1>7, <1>8, <2>1
  <2>2. CASE x \in tx[s].au
    BY <1>3, <1>4, <1>5, <1>7, <2>2 DEF WorkOK
  <2> QED
    BY <1>3, <2>1, <2>2
<1> QED
  BY <1>2, <1>3, <1>6, <1>9, <1>10 DEF WorkOK

LEMMA ProcessWorks ==
  ASSUME TypeInv, NEW s \in Session, WorkOK(s), Tidy(tx[s].todo), HistoryInv,
         ProcessChange(s)
  PROVE  WorkOK(s)'
<1>1. PICK ch \in tx[s].todo :
        \/ Refuse(s, ch) \/ Fetch(s, ch) \/ Conflict(s, ch)
        \/ RejectTarget(s, ch) \/ Insert(s, ch) \/ InsertClash(s, ch)
        \/ Update(s, ch) \/ SoftDelete(s, ch) \/ DeleteMissing(s, ch)
        \/ LockFailure(s, ch)
  BY DEF ProcessChange
<1>2. /\ tx[s] \in Handler /\ clock \in Nat /\ ch \in Change /\ ch.ent \in Entity
      /\ Current(s, ch.ent) = item[ch.ent]
      /\ item[ch.ent] \in ServerRow
  BY ReadsCommitted DEF TypeInv, TypeOK, EngineTypeOK, Handler, Change
<1>3. ch.val \in Nat /\ item[ch.ent].ver \in Nat /\ item[ch.ent].val \in Nat
      /\ item[ch.ent].del \in BOOLEAN
  BY <1>2 DEF Change, ServerRow
<1>4. CASE \/ Refuse(s, ch) \/ Conflict(s, ch) \/ RejectTarget(s, ch)
           \/ InsertClash(s, ch) \/ DeleteMissing(s, ch) \/ LockFailure(s, ch)
  BY <1>4, RecordWorks DEF Refuse, Conflict, RejectTarget, InsertClash,
                           DeleteMissing, LockFailure, Turn
<1>5. CASE Fetch(s, ch)
  BY <1>5, FetchWorks
<1>6. Turn(s, ch, "read") => tx[s].seen = item[ch.ent]
  BY DEF WorkOK, Turn
<1>7. CASE Insert(s, ch)
  <2> DEFINE new == [ver |-> 1, val |-> ch.val, del |-> ch.op = "retire",
                     upd |-> clock + 1]
  <2>1. /\ new \in ServerRow /\ new.ver = 1
    BY <1>2, <1>3 DEF ServerRow
  <2>2. Write(s, ch, new) /\ tx[s].seen = item[ch.ent] /\ item[ch.ent].ver = 0
    BY <1>2, <1>6, <1>7 DEF Insert
  <2>3. ~item[ch.ent].del
    BY <1>2, <2>2 DEF HistoryInv
  <2> HIDE DEF new
  <2> QED
    BY <2>1, <2>2, <2>3, WriteWorks
<1>8. CASE Update(s, ch)
  <2> DEFINE new == [ver |-> tx[s].seen.ver + (IF ch.op = "retire" THEN 2 ELSE 1),
                     val |-> ch.val,
                     del |-> ch.op = "retire" \/ Current(s, ch.ent).del,
                     upd |-> clock + 1]
  <2>1. tx[s].seen = item[ch.ent]
    BY <1>6, <1>8 DEF Update
  <2>2. new \in ServerRow
    BY <1>2, <1>3, <2>1 DEF ServerRow
  <2>3. item[ch.ent].ver < new.ver
    BY <1>3, <2>1
  <2>4. item[ch.ent].del => new.del
    BY <1>2
  <2>5. Write(s, ch, new)
    BY <1>8 DEF Update
  <2> HIDE DEF new
  <2> QED
    BY <2>1, <2>2, <2>3, <2>4, <2>5, WriteWorks
<1>9. CASE SoftDelete(s, ch)
  <2> DEFINE new == [ver |-> tx[s].seen.ver + 1, val |-> Current(s, ch.ent).val,
                     del |-> TRUE, upd |-> clock + 1]
  <2>1. tx[s].seen = item[ch.ent]
    BY <1>6, <1>9 DEF SoftDelete
  <2>2. new \in ServerRow
    BY <1>2, <1>3, <2>1 DEF ServerRow
  <2>3. item[ch.ent].ver < new.ver /\ new.del
    BY <1>3, <2>1
  <2>4. Write(s, ch, new)
    BY <1>9 DEF SoftDelete
  <2> HIDE DEF new
  <2> QED
    BY <2>1, <2>2, <2>3, <2>4, WriteWorks
<1> QED
  BY <1>1, <1>4, <1>5, <1>7, <1>8, <1>9

-----------------------------------------------------------------------------
(* The commit. *)

StoreInv ==
  /\ \A s \in Session : WorkOK(s)
  /\ HistoryInv
  /\ VersionsLinear

(* What the commit of session s makes of the rows. *)
LEMMA Committed ==
  ASSUME TypeInv, NEW s \in Session, WorkOK(s), CommitPush(s)
  PROVE  /\ \A h \in tx[s].au : /\ h.ent \in Entity
                                /\ h.before = item[h.ent].ver
                                /\ h.after = item'[h.ent].ver
                                /\ h.before < h.after
         /\ \A e \in Entity :
              \/ item'[e] = item[e]
              \/ /\ \E h \in tx[s].au : h.ent = e
                 /\ item[e].ver < item'[e].ver
                 /\ item[e].del => item'[e].del
<1>1. /\ tx[s].au \subseteq AuditRow /\ tx[s].wr \in [Entity -> ServerRow]
      /\ item \in [Entity -> ServerRow]
  BY DEF TypeInv, TypeOK, EngineTypeOK, Handler
<1>2. ASSUME NEW h \in tx[s].au
      PROVE  /\ h.ent \in Entity
             /\ h.before = item[h.ent].ver
             /\ h.after = item'[h.ent].ver
             /\ h.before < h.after
  <2>1. h.ent \in Entity /\ h.before \in Nat /\ h.after \in Nat
    BY <1>1 DEF AuditRow
  <2>2. h.before = item[h.ent].ver /\ h.after = tx[s].wr[h.ent].ver /\ h.before < h.after
    BY DEF WorkOK
  <2>3. item'[h.ent] = tx[s].wr[h.ent]
    BY <2>1, <2>2 DEF CommitPush, Current
  <2> QED
    BY <2>1, <2>2, <2>3
<1>3. ASSUME NEW e \in Entity, item'[e] # item[e]
      PROVE  /\ \E h \in tx[s].au : h.ent = e
             /\ item[e].ver < item'[e].ver
             /\ item[e].del => item'[e].del
  <2>1. tx[s].wr[e].ver # 0 /\ item'[e] = tx[s].wr[e]
    BY <1>3 DEF CommitPush, Current
  <2>2. PICK h \in tx[s].au : h.ent = e
    BY <2>1 DEF WorkOK
  <2> QED
    BY <1>2, <2>1, <2>2 DEF WorkOK
<1> QED
  BY <1>2, <1>3

LEMMA CommitWorks ==
  ASSUME TypeInv, Alone, StoreInv, NEW s \in Session, CommitPush(s)
  PROVE  StoreInv'
<1>1. /\ tx[s] \in Handler /\ tx \in [Session -> Handler] /\ WorkOK(s)
      /\ audit \subseteq AuditRow /\ item \in [Entity -> ServerRow]
      /\ item' \in [Entity -> ServerRow]
  <2>1. \A e \in Entity : Current(s, e) \in ServerRow
    BY CurrentType DEF TypeInv, TypeOK
  <2> QED
    BY <2>1 DEF TypeInv, TypeOK, EngineTypeOK, StoreInv, CommitPush
<1>2. tx' = [tx EXCEPT ![s] = FreeHandler] /\ audit' = audit \cup tx[s].au
      /\ tx[s].st = "ready"
  BY DEF CommitPush
<1>3. ASSUME NEW t \in Session PROVE WorkOK(t)'
  <2>1. CASE t = s
    <3>1. tx'[t].au = {} /\ tx'[t].st # "read" /\ \A e \in Entity : tx'[t].wr[e].ver = 0
      BY <1>1, <1>2, <2>1 DEF FreeHandler, NoRow
    <3> QED
      BY <3>1, NoWork
  <2>2. CASE t # s
    <3>1. tx[t].st = "free" /\ tx'[t] = tx[t] /\ WorkOK(t)
      BY <1>1, <1>2, <2>2 DEF Alone, StoreInv
    <3>2. tx'[t].au = {} /\ tx'[t].st # "read" /\ \A e \in Entity : tx'[t].wr[e].ver = 0
      BY <3>1 DEF WorkOK
    <3> QED
      BY <3>2, NoWork
  <2> QED
    BY <2>1, <2>2
<1>4. \A e \in Entity : /\ item[e].ver \in Nat /\ item'[e].ver \in Nat
                        /\ item[e].ver <= item'[e].ver
  BY <1>1, Committed DEF ServerRow
<1>5. ASSUME NEW x \in audit' PROVE x.before < item'[x.ent].ver
  <2>1. CASE x \in audit
    <3>1. x.ent \in Entity /\ x.before \in Nat /\ x.before < item[x.ent].ver
      BY <1>1, <2>1 DEF AuditRow, StoreInv, HistoryInv
    <3> QED
      BY <1>4, <3>1
  <2>2. CASE x \in tx[s].au
    BY <1>1, <2>2, Committed
  <2> QED
    BY <1>2, <2>1, <2>2
<1>6. ASSUME NEW e \in Entity, item'[e].ver = 0 PROVE ~item'[e].del
  <2>1. item'[e] = item[e]
    BY <1>1, <1>4, <1>6, Committed
  <2> QED
    BY <1>6, <2>1 DEF StoreInv, HistoryInv
<1>7. ASSUME NEW x \in audit', NEW y \in audit', x.ent = y.ent, x.before = y.before
      PROVE  x = y
  <2>1. \A z \in audit : z.ent \in Entity /\ z.before \in Nat /\ z.before < item[z.ent].ver
    BY <1>1 DEF AuditRow, StoreInv, HistoryInv
  <2>2. \A z \in tx[s].au : z.ent \in Entity /\ z.before = item[z.ent].ver
    BY <1>1, Committed
  <2>3. CASE x \in audit /\ y \in audit
    BY <1>7, <2>3 DEF StoreInv, VersionsLinear
  <2>4. CASE x \in tx[s].au /\ y \in tx[s].au
    BY <1>1, <1>7, <2>4 DEF WorkOK
  <2>5. ASSUME NEW z \in audit, NEW w \in tx[s].au, z.ent = w.ent PROVE z.before # w.before
    BY <1>4, <2>1, <2>2, <2>5
  <2> QED
    BY <1>2, <1>7, <2>3, <2>4, <2>5
<1> QED
  BY <1>3, <1>5, <1>6, <1>7 DEF StoreInv, HistoryInv, VersionsLinear

LEMMA StoreSteps ==
  TypeInv /\ BatchInv /\ Alone /\ StoreInv /\ [Next]_vars => StoreInv'
<1> SUFFICES ASSUME TypeInv, BatchInv, Alone, StoreInv, [Next]_vars PROVE StoreInv'
  OBVIOUS
<1>0. tx \in [Session -> Handler] /\ \A s \in Session : WorkOK(s) /\ Tidy(tx[s].todo)
  BY DEF TypeInv, TypeOK, EngineTypeOK, StoreInv, BatchInv
<1>1. ASSUME UNCHANGED <<item, audit>>, \A s \in Session : WorkOK(s)'
      PROVE  StoreInv'
  BY <1>1 DEF StoreInv, HistoryInv, VersionsLinear
<1>2. ASSUME UNCHANGED <<item, audit, tx>> PROVE StoreInv'
  BY <1>0, <1>1, <1>2, SameWork
<1>3. ASSUME NEW c \in Client,
             \/ UserEdit(c) \/ FinishEdit(c) \/ SendPush(c) \/ SendRetry(c)
             \/ ReceiveAnswer(c) \/ Requeue(c) \/ Pull(c) \/ FinishSync(c)
      PROVE  UNCHANGED <<item, audit, tx>>
  BY <1>3 DEF UserEdit, FinishEdit, SendPush, SendRetry, ReceiveAnswer, Requeue,
              Pull, FinishSync, engineVars
<1>4. ASSUME NEW c \in Client, Timeout(c) \/ ClientCrash(c) PROVE StoreInv'
  <2>1. HangUp(c)
    BY <1>4 DEF Timeout, ClientCrash
  <2>2. ASSUME NEW s \in Session PROVE WorkOK(s)'
    <3>1. /\ tx'[s].st = tx[s].st /\ tx'[s].todo = tx[s].todo /\ tx'[s].seen = tx[s].seen
          /\ tx'[s].wr = tx[s].wr /\ tx'[s].au = tx[s].au
      BY <1>0, <2>1 DEF HangUp, Handler
    <3> QED
      BY <1>0, <2>1, <3>1, SameWork DEF HangUp
  <2> QED
    BY <1>1, <2>1, <2>2 DEF HangUp
<1>5. ASSUME NEW s \in Session, UNCHANGED <<item, audit>>,
             \A t \in Session \ {s} : tx'[t] = tx[t],
             tx'[s].au = {} /\ tx'[s].st # "read" /\ \A e \in Entity : tx'[s].wr[e].ver = 0
      PROVE  StoreInv'
  <2>1. WorkOK(s)'
    BY <1>5, NoWork
  <2>2. \A t \in Session \ {s} : WorkOK(t)'
    BY <1>0, <1>5, SameWork
  <2> QED
    BY <1>1, <1>5, <2>1, <2>2
<1>6. ASSUME NEW s \in Session, NEW u, NEW batch, NEW live, BeginPush(s, u, batch, live)
      PROVE  StoreInv'
  <2>1. tx'[s].au = {} /\ tx'[s].st = "ready" /\ tx'[s].wr = [e \in Entity |-> NoRow]
    BY <1>0, <1>6 DEF BeginPush, FreeHandler
  <2>2. \A t \in Session \ {s} : tx'[t] = tx[t]
    BY <1>0, <1>6 DEF BeginPush
  <2>3. UNCHANGED <<item, audit>>
    BY <1>6 DEF BeginPush
  <2> QED
    BY <1>5, <2>1, <2>2, <2>3 DEF NoRow
<1>7. ASSUME NEW s \in Session, RollbackPush(s) PROVE StoreInv'
  <2>1. tx'[s].au = {} /\ tx'[s].st = "free" /\ tx'[s].wr = [e \in Entity |-> NoRow]
    BY <1>0, <1>7 DEF RollbackPush, FreeHandler
  <2>2. \A t \in Session \ {s} : tx'[t] = tx[t]
    BY <1>0, <1>7 DEF RollbackPush
  <2>3. UNCHANGED <<item, audit>>
    BY <1>7 DEF RollbackPush
  <2> QED
    BY <1>5, <2>1, <2>2, <2>3 DEF NoRow
<1>8. ASSUME NEW s \in Session, Process(s) PROVE StoreInv'
  <2>1. ProcessChange(s)
    BY <1>8 DEF Process
  <2>2. WorkOK(s)'
    BY <1>0, <2>1, ProcessWorks DEF StoreInv
  <2>3. UNCHANGED <<item, audit>>
    BY <2>1 DEF ProcessChange, Refuse, Fetch, Conflict, RejectTarget, Insert, InsertClash,
                Update, SoftDelete, DeleteMissing, LockFailure, Record, Write
  <2>4. \A t \in Session \ {s} : WorkOK(t)'
    BY <1>0, <2>1, <2>3, ProcessKeepsBooks, SameWork DEF KeepsBooks
  <2> QED
    BY <1>1, <2>2, <2>3, <2>4
<1>9. ASSUME NEW s \in Session, Answer(s) PROVE StoreInv'
  BY <1>9, CommitWorks DEF Answer
<1>10. ASSUME NEW s \in Session,
              \/ (\E c \in Client : Serve(s, c)) \/ ServeLate(s)
              \/ FailRequest(s) \/ ServerCrash(s)
       PROVE  StoreInv'
  BY <1>6, <1>7, <1>10 DEF Serve, ServeLate, FailRequest, ServerCrash, Abort
<1>11. CASE UNCHANGED vars
  BY <1>2, <1>11 DEF vars, engineVars
<1> QED
  BY <1>2, <1>3, <1>4, <1>8, <1>9, <1>10, <1>11 DEF Next

SerialInv == TypeInv /\ ReceiptInv /\ OutboxInv /\ BatchInv /\ Alone /\ StoreInv

LEMMA SerialAlways ==
  ASSUME ~Overlap
  PROVE  Spec => []SerialInv
<1>1. Init => OutboxInv /\ BatchInv /\ Alone /\ StoreInv
  <2> SUFFICES ASSUME Init PROVE OutboxInv /\ BatchInv /\ Alone /\ StoreInv
    OBVIOUS
  <2>1. /\ \A s \in Session : tx[s] = FreeHandler
        /\ item = [e \in Entity |-> NoRow] /\ audit = {} /\ late = {}
        /\ \A c \in Client : Outbox(c) = {} /\ wire[c] = {}
    BY DEF Init, EngineInit, ClientInit, Outbox
  <2>2. OutboxInv /\ BatchInv /\ Alone
    BY <2>1 DEF OutboxInv, BatchInv, Alone, Tidy, FreeHandler
  <2>3. StoreInv
    BY <2>1 DEF StoreInv, WorkOK, HistoryInv, VersionsLinear, FreeHandler, NoRow
  <2> QED
    BY <2>2, <2>3
<1>2. TypeInv /\ Alone /\ [Next]_vars => Alone'
  BY AloneSteps
<1> QED
  BY <1>1, <1>2, ReceiptsAlways, OutboxTidy, BatchesTidy, StoreSteps, PTL
     DEF Spec, SerialInv

(* While handlers run one at a time, no two changes are ever applied to    *)
(* the same version of a row: each accepted push sees what it replaces.    *)
THEOREM HistoryIsLinear ==
  ASSUME ~Overlap
  PROVE  Spec => []VersionsLinear
<1>1. SerialInv => VersionsLinear
  BY DEF SerialInv, StoreInv
<1> QED
  BY <1>1, SerialAlways, PTL

-----------------------------------------------------------------------------
(* The refinement. *)

LEMMA CommitRefines ==
  ASSUME SerialInv, TypeInv', NEW s \in Session, CommitPush(s)
  PROVE  Store!Commit
<1> DEFINE new == audit' \ audit
<1>1. WorkOK(s) /\ TypeInv /\ audit' = audit \cup tx[s].au /\ new \subseteq tx[s].au
  BY DEF SerialInv, StoreInv, CommitPush
<1>2. \A h \in tx[s].au : h.id \notin Ids(audit)
  BY DEF SerialInv, ReceiptInv, Accepted, Ids
<1>3. /\ item \in [Entity -> ServerRow] /\ item' \in [Entity -> ServerRow]
      /\ \A e \in Entity : item[e].ver \in Nat
  BY <1>1 DEF TypeInv, TypeOK, EngineTypeOK, ServerRow
<1>4. \A h \in new : Store!Advances(h)
  <2>1. Store!Ids(audit) = Ids(audit)
    BY DEF Store!Ids, Ids
  <2> QED
    BY <1>1, <1>2, <2>1, Committed DEF Store!Advances
<1>5. \A h, g \in new : h.id = g.id \/ h.ent = g.ent => h = g
  BY <1>1 DEF SerialInv, ReceiptInv, Unique, WorkOK
<1>6. [e \in Entity |-> [ver |-> item'[e].ver, val |-> item'[e].val,
                         del |-> item'[e].del]] \in [Entity -> Store!Version]
  BY <1>3 DEF Store!Version, ServerRow
<1>7. ASSUME NEW e \in Entity
      PROVE  \/ item'[e] = item[e]
             \/ /\ \E h \in new : h.ent = e
                /\ item[e].del => item'[e].del
  <2>1. CASE item'[e] # item[e]
    <3>1. PICK h \in tx[s].au : h.ent = e
      BY <1>1, <2>1, Committed
    <3>2. h \notin audit
      BY <1>2 DEF Ids
    <3> QED
      BY <1>1, <2>1, <3>1, <3>2, Committed
  <2> QED
    BY <2>1
<1>8. audit' = audit \cup new
  BY <1>1
<1> QED
  BY <1>4, <1>5, <1>6, <1>7, <1>8 DEF Store!Commit

(* The other steps leave the committed rows and the audit log alone. *)
LEMMA OnlyCommitsWrite ==
  ASSUME [Next]_vars
  PROVE  \/ UNCHANGED <<item, audit>>
         \/ \E s \in Session : CommitPush(s)
<1>1. ASSUME NEW c \in Client,
             \/ UserEdit(c) \/ FinishEdit(c) \/ SendPush(c) \/ SendRetry(c)
             \/ ReceiveAnswer(c) \/ Requeue(c) \/ Pull(c) \/ FinishSync(c)
             \/ Timeout(c) \/ ClientCrash(c)
      PROVE  UNCHANGED <<item, audit>>
  BY <1>1 DEF UserEdit, FinishEdit, SendPush, SendRetry, ReceiveAnswer, Requeue,
              Pull, FinishSync, Timeout, ClientCrash, HangUp, engineVars
<1>2. ASSUME NEW s \in Session,
             \/ (\E c \in Client : Serve(s, c)) \/ ServeLate(s)
             \/ FailRequest(s) \/ ServerCrash(s)
      PROVE  UNCHANGED <<item, audit>>
  BY <1>2 DEF Serve, ServeLate, BeginPush, FailRequest, ServerCrash, Abort, RollbackPush
<1>3. ASSUME NEW s \in Session, Process(s) PROVE UNCHANGED <<item, audit>>
  BY <1>3 DEF Process, ProcessChange, Refuse, Fetch, Conflict, RejectTarget, Insert,
              InsertClash, Update, SoftDelete, DeleteMissing, LockFailure, Record, Write
<1>4. CASE UNCHANGED vars
  BY <1>4 DEF vars, engineVars
<1> QED
  BY <1>1, <1>2, <1>3, <1>4 DEF Next, Answer

(* While handlers run one at a time, what the server commits is what       *)
(* ProjectStore promises: whole batches, each row taken from its current   *)
(* version to a higher one by a change never applied before, and deleted   *)
(* rows stay deleted.                                                      *)
THEOREM TablesImplementStore ==
  ASSUME ~Overlap
  PROVE  Spec => ImplementsStore
<1>1. Init => Store!Init
  BY DEF Init, EngineInit, NoRow, Store!Init
<1>2. SerialInv /\ TypeInv' /\ [Next]_vars
        => [Store!Commit]_<<[e \in Entity |-> [ver |-> item[e].ver, val |-> item[e].val,
                                               del |-> item[e].del]], audit>>
  <2> SUFFICES ASSUME SerialInv, TypeInv', [Next]_vars
               PROVE  \/ Store!Commit
                      \/ UNCHANGED <<item, audit>>
    OBVIOUS
  <2> QED
    BY CommitRefines, OnlyCommitsWrite
<1>3. SerialInv => TypeInv
  BY DEF SerialInv
<1> QED
  BY <1>1, <1>2, <1>3, SerialAlways, PTL DEF Spec, ImplementsStore, Store!Spec

=============================================================================
