------------------------------ MODULE CalmProofs ------------------------------
(***************************************************************************)
(* Without failures and without Overlap the offline client keeps what its  *)
(* texts promise, for every set of clients, rows and sessions, every batch *)
(* limit and every number of edits.  The runs lost_answer and lost_create  *)
(* show that one lost answer breaks two of these properties.               *)
(***************************************************************************)
EXTENDS CursorProofs

-----------------------------------------------------------------------------
(* The invariant. *)

(* A handler belongs to a client that waits for it, and has met nothing    *)
(* that was answered before.                                               *)
Sends(c, id) == \E p \in sent[c] : p.id = id

SentInv ==
  /\ late = {}
  /\ \A s \in Session :
       /\ IF tx[s].st = "free" THEN tx[s] = FreeHandler ELSE tx[s].live
       /\ tx[s].dup = {}
       /\ \A p \in tx[s].todo : p \in sent[tx[s].user] /\ p.id \notin Ids(receipts)
       /\ \A x \in tx[s].rc : Sends(tx[s].user, x.id)
       /\ \A h \in tx[s].au : \E p \in sent[tx[s].user] : p.id = h.id /\ p.ent = h.ent
  /\ \A c \in Client :
       /\ sent[c] \subseteq pending[c] /\ (~Waiting(c) => sent[c] = {})
       /\ \A y \in reply[c] : y.dup = {} /\ \A x \in y.out : Sends(c, x.id)

(* Every entry is in one outbox, once. *)
EntriesInv ==
  /\ \A c, d \in Client : \A p \in Outbox(c), o \in Outbox(d) : p.id = o.id => c = d
  /\ \A c \in Client : \A p \in pending[c], o \in blocked[c] : p.id # o.id

(* A pending entry has a receipt only while its answer is on the way, or   *)
(* when it is a conflict about to be requeued.                             *)
DecidedInv ==
  /\ \A x \in receipts : x.id < nextId
  /\ \A c \in Client :
       /\ conf[c] # {} => pc[c] = "requeue"
       /\ \A x \in conf[c] : x.sv # 0 /\ x.id \notin Ids(blocked[c])
       /\ \A p \in pending[c] : p.id \in Ids(receipts) =>
            (reply[c] # {} /\ p \in sent[c]) \/ p.id \in Ids(conf[c])
  /\ \A s \in Session : \A x \in tx[s].rc : x.status = "conflict" => x.sv # 0
  /\ \A c \in Client : \A y \in reply[c] : \A x \in y.out :
       x.status = "conflict" => x.sv # 0

(* A row of version 0 is one the server has not heard of, or one whose     *)
(* creation a running sync has pushed and not yet pulled.                  *)
Syncing(c) == pc[c] \in {"wait", "requeue", "rewait", "pull"}

FreshInv ==
  /\ \A c \in Client : \A e \in Entity :
       row[c][e].val # 0 /\ row[c][e].ver = 0 /\ item[e].ver # 0 => Syncing(c)
  /\ \A c, d \in Client : \A e \in Entity :
       (/\ row[c][e].val # 0 /\ row[c][e].ver = 0
        /\ row[d][e].val # 0 /\ row[d][e].ver = 0) => c = d
  /\ \A c \in Client : \A p \in Outbox(c) :
       p.base = 0 /\ item[p.ent].ver # 0 => p.id \in Ids(receipts)

DraftInv ==
  \A c \in Client :
    /\ draft[c] # {} => pc[c] = "queue"
    /\ \A d, b \in draft[c] : d = b
    /\ \A d \in draft[c] :
         /\ d.op = "discard" => row[c][d.ent].ver = 0
         /\ d.op \in {"upsert", "retire"} => row[c][d.ent].val = d.val

ShownInv ==
  \A c \in Client : \A p \in pending[c] :
    p.op # "delete" => \/ row[c][p.ent].val = p.val
                       \/ \E d \in draft[c] : d.ent = p.ent

(* What was accepted is newer on the server than on the device. *)
AcceptedInv ==
  /\ \A s \in Session : \A x \in tx[s].rc : x.status = "accepted" =>
       \/ \E h \in tx[s].au : h.id = x.id
       \/ \E p \in sent[tx[s].user] : p.id = x.id /\ item[p.ent].ver = 0
  /\ \A c \in Client : \A y \in reply[c] : \A x \in y.out : x.status = "accepted" =>
       \A p \in sent[c] : p.id = x.id =>
         item[p.ent].ver = 0 \/ row[c][p.ent].ver < item[p.ent].ver

SeenInv ==
  \A c \in Client : \A e \in Entity :
    (/\ row[c][e].ver = item[e].ver /\ item[e].ver # 0
     /\ \A d \in draft[c] : d.ent # e
     /\ \A p \in Outbox(c) : p.ent # e) =>
       row[c][e].val = item[e].val /\ row[c][e].del = item[e].del

CalmInv ==
  /\ SentInv /\ EntriesInv /\ DecidedInv /\ FreshInv /\ DraftInv
  /\ ShownInv /\ AcceptedInv /\ SeenInv

(* All that is known of the system when nothing fails. *)
Known == SerialInv /\ PulledInv /\ ExchangeInv /\ CalmInv

-----------------------------------------------------------------------------
(* The steps. *)

(* What the device does on its own, without an answer. *)
DeviceMoves(c) ==
  \/ UserEdit(c) \/ FinishEdit(c) \/ SendPush(c) \/ SendRetry(c)
  \/ Requeue(c) \/ Pull(c) \/ FinishSync(c)

LEMMA CalmSteps ==
  ASSUME MaxFaults = 0, TypeInv, SentInv, [Next]_vars
  PROVE  \/ \E c \in Client : DeviceMoves(c) \/ ReceiveAnswer(c)
         \/ \E s \in Session : (\E c \in Client : Serve(s, c)) \/ Process(s) \/ Answer(s)
         \/ UNCHANGED vars
<1>1. ~Fault
  BY DEF Fault, TypeInv, TypeOK
<1>2. \A c \in Client : ~Timeout(c) /\ ~ClientCrash(c)
  BY <1>1 DEF Timeout, ClientCrash
<1>3. \A s \in Session : ~ServerCrash(s)
  BY <1>1 DEF ServerCrash
<1>4. \A s \in Session : ~ServeLate(s)
  BY DEF ServeLate, SentInv
<1>5. \A s \in Session : ~FailRequest(s)
  BY DEF FailRequest, ReceiptClash, SentInv
<1> QED
  BY <1>2, <1>3, <1>4, <1>5 DEF Next, DeviceMoves

LEMMA DeviceMovesAlone ==
  ASSUME NEW c \in Client, DeviceMoves(c)
  PROVE  UNCHANGED <<engineVars, late, reply>>
  BY DEF DeviceMoves, UserEdit, FinishEdit, SendPush, SendRetry, Requeue, Pull,
         FinishSync, netVars

(* A handler that runs serves a client that waits for it. *)
LEMMA Runs ==
  ASSUME TypeInv, ExchangeInv, SentInv, NEW s \in Session, tx[s].st # "free"
  PROVE  /\ tx[s].live /\ tx[s].user \in Client /\ Waiting(tx[s].user)
         /\ reply[tx[s].user] = {}
  BY DEF TypeInv, HandlersHaveUsers, ExchangeInv, HandlerOK, SentInv

LEMMA Rests ==
  ASSUME SentInv, NEW s \in Session, tx[s].st = "free"
  PROVE  tx[s].todo = {} /\ tx[s].rc = {} /\ tx[s].au = {} /\ tx[s].dup = {}
  BY DEF SentInv, FreeHandler

(* A batch that is sent has not been answered. *)
LEMMA SentUnanswered ==
  ASSUME TypeInv, SentInv, DecidedInv, NEW c \in Client, Waiting(c), reply[c] = {}
  PROVE  \A p \in sent[c] : p.id \notin Ids(receipts)
  BY DEF SentInv, DecidedInv, Waiting, Ids

(* The end of a change: a receipt, and an audit row when it was applied. *)
Ends(s) ==
  /\ tx'[s].st # "free" /\ tx'[s].user = tx[s].user /\ tx'[s].live = tx[s].live
  /\ tx'[s].dup = tx[s].dup /\ tx'[s].todo \subseteq tx[s].todo
  /\ \A t \in Session \ {s} : tx'[t] = tx[t]
  /\ tx[s].au \subseteq tx'[s].au
  /\ \A x \in tx'[s].rc : x \notin tx[s].rc => \E p \in tx[s].todo :
       /\ x.id = p.id
       /\ x.status = "conflict" => x.sv # 0
       /\ x.status = "accepted" =>
            (\E h \in tx'[s].au : h.id = x.id) \/ item[p.ent].ver = 0
  /\ \A h \in tx'[s].au : h \notin tx[s].au => \E p \in tx[s].todo :
       /\ h.id = p.id /\ h.ent = p.ent /\ h.base = p.base
       /\ h.before = item[p.ent].ver
       /\ h.before = 0 \/ h.base = 0 \/ h.base = h.before

LEMMA RecordEnds ==
  ASSUME TypeInv, NEW s \in Session, NEW p \in tx[s].todo, NEW status, NEW sv,
         Record(s, p, status, sv),
         status = "conflict" => sv # 0,
         status = "accepted" => item[p.ent].ver = 0
  PROVE  Ends(s)
<1> DEFINE r == [id |-> p.id, user |-> tx[s].user, status |-> status, sv |-> sv]
           h == [tx[s] EXCEPT !.st = "ready", !.todo = tx[s].todo \ {p},
                              !.seen = NoRow, !.rc = tx[s].rc \cup {r}]
<1>1. tx[s] \in Handler /\ tx \in [Session -> Handler]
  BY DEF TypeInv, TypeOK, EngineTypeOK
<1>2. tx' = [tx EXCEPT ![s] = h]
  BY DEF Record
<1>3. /\ h.st = "ready" /\ h.todo = tx[s].todo \ {p} /\ h.au = tx[s].au
      /\ h.user = tx[s].user /\ h.live = tx[s].live /\ h.dup = tx[s].dup
      /\ h.rc = tx[s].rc \cup {r}
  BY <1>1 DEF Handler
<1>4. r.id = p.id /\ r.status = status /\ r.sv = sv
  OBVIOUS
<1> HIDE DEF h, r
<1>5. tx'[s] = h /\ \A t \in Session \ {s} : tx'[t] = tx[t]
  BY <1>1, <1>2
<1> QED
  BY <1>3, <1>4, <1>5 DEF Ends

LEMMA WriteEnds ==
  ASSUME TypeInv, NEW s \in Session, NEW p \in tx[s].todo, NEW new, Write(s, p, new),
         tx[s].seen = item[p.ent], ~Mismatch(s, p)
  PROVE  Ends(s)
<1> DEFINE r == [id |-> p.id, user |-> tx[s].user, status |-> "accepted", sv |-> 0]
           b == [id |-> p.id, user |-> tx[s].user, ent |-> p.ent,
                 base |-> p.base, val |-> p.val,
                 before |-> tx[s].seen.ver, after |-> new.ver]
           h == [tx[s] EXCEPT !.st = "ready", !.todo = tx[s].todo \ {p},
                              !.seen = NoRow, !.wr = [tx[s].wr EXCEPT ![p.ent] = new],
                              !.rc = tx[s].rc \cup {r}, !.au = tx[s].au \cup {b}]
<1>1. tx[s] \in Handler /\ tx \in [Session -> Handler]
  BY DEF TypeInv, TypeOK, EngineTypeOK
<1>2. tx' = [tx EXCEPT ![s] = h]
  BY DEF Write
<1>3. /\ h.st = "ready" /\ h.todo = tx[s].todo \ {p} /\ h.au = tx[s].au \cup {b}
      /\ h.user = tx[s].user /\ h.live = tx[s].live /\ h.dup = tx[s].dup
      /\ h.rc = tx[s].rc \cup {r}
  BY <1>1 DEF Handler
<1>4. /\ r.id = p.id /\ r.status = "accepted"
      /\ b.id = p.id /\ b.ent = p.ent /\ b.base = p.base /\ b.before = item[p.ent].ver
  OBVIOUS
<1>5. item[p.ent].ver = 0 \/ p.base = 0 \/ p.base = item[p.ent].ver
  BY DEF Mismatch
<1> HIDE DEF h, r, b
<1>6. tx'[s] = h /\ \A t \in Session \ {s} : tx'[t] = tx[t]
  BY <1>1, <1>2
<1> QED
  BY <1>3, <1>4, <1>5, <1>6 DEF Ends

LEMMA ProcessEnds ==
  ASSUME TypeInv, NEW s \in Session, WorkOK(s), ProcessChange(s)
  PROVE  Ends(s)
<1>1. PICK p \in tx[s].todo :
        \/ Refuse(s, p) \/ Fetch(s, p) \/ Conflict(s, p)
        \/ RejectTarget(s, p) \/ Insert(s, p) \/ InsertClash(s, p)
        \/ Update(s, p) \/ SoftDelete(s, p) \/ DeleteMissing(s, p)
        \/ LockFailure(s, p)
  BY DEF ProcessChange
<1>2. tx[s] \in Handler /\ tx \in [Session -> Handler]
  BY DEF TypeInv, TypeOK, EngineTypeOK
<1>3. Turn(s, p, "read") => tx[s].seen = item[p.ent]
  BY DEF WorkOK, Turn
<1>4. CASE Refuse(s, p) \/ RejectTarget(s, p) \/ InsertClash(s, p) \/ LockFailure(s, p)
  BY <1>4, RecordEnds DEF Refuse, RejectTarget, InsertClash, LockFailure
<1>5. CASE Conflict(s, p)
  BY <1>5, RecordEnds DEF Conflict, Mismatch
<1>6. CASE DeleteMissing(s, p)
  BY <1>3, <1>6, RecordEnds DEF DeleteMissing
<1>7. CASE Fetch(s, p)
  <2>1. /\ tx'[s].st = "read" /\ tx'[s].todo = tx[s].todo /\ tx'[s].au = tx[s].au
        /\ tx'[s].user = tx[s].user /\ tx'[s].live = tx[s].live /\ tx'[s].dup = tx[s].dup
        /\ tx'[s].rc = tx[s].rc /\ \A t \in Session \ {s} : tx'[t] = tx[t]
    BY <1>2, <1>7 DEF Fetch, Handler
  <2> QED
    BY <2>1 DEF Ends
<1>8. CASE Insert(s, p) \/ Update(s, p) \/ SoftDelete(s, p)
  <2>1. PICK new : Write(s, p, new)
    BY <1>8 DEF Insert, Update, SoftDelete
  <2>2. Turn(s, p, "read") /\ ~Mismatch(s, p)
    BY <1>8 DEF Insert, Update, SoftDelete, Admitted
  <2> QED
    BY <1>3, <2>1, <2>2, WriteEnds
<1> QED
  BY <1>1, <1>4, <1>5, <1>6, <1>7, <1>8

(* Devices move one at a time, and not while they wait. *)
LEMMA MovesApart ==
  ASSUME TypeInv, NEW c \in Client, DeviceMoves(c) \/ ReceiveAnswer(c)
  PROVE  /\ \A d \in Client \ {c} :
              /\ pending'[d] = pending[d] /\ blocked'[d] = blocked[d] /\ row'[d] = row[d]
              /\ draft'[d] = draft[d] /\ sent'[d] = sent[d] /\ conf'[d] = conf[d]
              /\ pc'[d] = pc[d] /\ reply'[d] = reply[d]
         /\ UNCHANGED <<engineVars, late>>
         /\ DeviceMoves(c) => ~Waiting(c) /\ reply' = reply
<1>0. ClientTypeOK /\ reply \in [Client -> SUBSET Reply]
  BY DEF TypeInv, TypeOK
<1>1. CASE UserEdit(c)
  BY <1>0, <1>1 DEF UserEdit, CreateRow, EditRow, RetireRow, RemoveRow, StartEdit,
                    ClientTypeOK, Waiting, netVars
<1>2. CASE FinishEdit(c)
  BY <1>0, <1>2 DEF FinishEdit, Enqueue, Discard, ReplaceEntry, ClientTypeOK, Waiting,
                    netVars
<1>3. CASE SendPush(c) \/ SendRetry(c)
  BY <1>0, <1>3 DEF SendPush, SendRetry, StartSync, RetryPush, ClientTypeOK, Waiting,
                    tableVars
<1>4. CASE Requeue(c)
  BY <1>0, <1>4 DEF Requeue, RequeueConflict, ReplaceEntry, ClientTypeOK, Waiting, netVars
<1>5. CASE Pull(c) \/ FinishSync(c)
  BY <1>0, <1>5 DEF Pull, HandlePull, ApplyPull, FinishSync, SaveServerTime, ClientTypeOK,
                    Waiting, netVars
<1>6. CASE ReceiveAnswer(c) /\ ~DeviceMoves(c)
  BY <1>0, <1>6 DEF ReceiveAnswer, HandleAnswer, HandleRetryAnswer, ProcessPush, Clear,
                    ClientTypeOK
<1> QED
  BY <1>1, <1>2, <1>3, <1>4, <1>5, <1>6 DEF DeviceMoves

(* A device that does not wait is not being served. *)
LEMMA NotServed ==
  ASSUME TypeInv, ExchangeInv, SentInv, NEW c \in Client, ~Waiting(c)
  PROVE  /\ reply[c] = {} /\ sent[c] = {}
         /\ \A s \in Session : tx[s].st # "free" => tx[s].user # c
  BY Runs DEF ExchangeInv, ReplyOK, SentInv

-----------------------------------------------------------------------------
(* Each part of the invariant is kept. *)

LEMMA SentKept ==
  ASSUME ~Overlap, MaxFaults = 0, TypeInv, Known, [Next]_vars
  PROVE  SentInv'
<1> USE DEF Known, CalmInv, SerialInv
<1>0. /\ tx \in [Session -> Handler] /\ sent \in [Client -> SUBSET Change]
      /\ wire \in [Client -> SUBSET Change] /\ reply \in [Client -> SUBSET Reply]
      /\ pending \in [Client -> SUBSET Change] /\ pc \in [Client -> Place]
  BY DEF TypeInv, TypeOK, EngineTypeOK, ClientTypeOK
<1>1. ASSUME NEW c \in Client, UNCHANGED <<tx, receipts, late>>,
             \A d \in Client \ {c} : /\ sent'[d] = sent[d] /\ pending'[d] = pending[d]
                                     /\ pc'[d] = pc[d] /\ reply'[d] = reply[d],
             \A s \in Session : tx[s].st # "free" => tx[s].user # c,
             reply'[c] = {}, sent'[c] \subseteq pending'[c],
             Waiting(c)' \/ sent'[c] = {}
      PROVE  SentInv'
  <2>1. ASSUME NEW s \in Session
        PROVE  /\ IF tx'[s].st = "free" THEN tx'[s] = FreeHandler ELSE tx'[s].live
               /\ tx'[s].dup = {}
               /\ \A p \in tx'[s].todo : p \in sent'[tx'[s].user] /\ p.id \notin Ids(receipts')
               /\ \A x \in tx'[s].rc : Sends(tx[s].user, x.id)'
               /\ \A h \in tx'[s].au : \E p \in sent'[tx'[s].user] : p.id = h.id /\ p.ent = h.ent
    <3>1. CASE tx[s].st = "free"
      BY <1>1, <3>1, Rests DEF SentInv
    <3>2. CASE tx[s].st # "free"
      <4>1. tx[s].user \in Client \ {c}
        BY <1>1, <3>2, Runs
      <4>2. sent'[tx[s].user] = sent[tx[s].user] /\ tx'[s] = tx[s]
        BY <1>1, <4>1
      <4> QED
        BY <1>1, <4>2 DEF SentInv, Sends
    <3> QED
      BY <3>1, <3>2
  <2>2. ASSUME NEW d \in Client
        PROVE  /\ sent'[d] \subseteq pending'[d] /\ (~Waiting(d)' => sent'[d] = {})
               /\ \A y \in reply'[d] : y.dup = {} /\ \A x \in y.out : Sends(d, x.id)'
    BY <1>1 DEF SentInv, Sends, Waiting
  <2> QED
    BY <1>1, <2>1, <2>2 DEF SentInv, Sends
<1>2. ASSUME NEW c \in Client, DeviceMoves(c) PROVE SentInv'
  <2>1. /\ ~Waiting(c) /\ UNCHANGED <<engineVars, late, reply>>
        /\ \A d \in Client \ {c} : /\ sent'[d] = sent[d] /\ pending'[d] = pending[d]
                                   /\ pc'[d] = pc[d] /\ reply'[d] = reply[d]
    BY <1>2, MovesApart, DeviceMovesAlone
  <2>2. reply[c] = {} /\ sent[c] = {} /\ \A s \in Session : tx[s].st # "free" => tx[s].user # c
    BY <2>1, NotServed
  <2>3. sent'[c] \subseteq pending'[c] /\ (Waiting(c)' \/ sent'[c] = {})
    <3>1. CASE SendPush(c) \/ SendRetry(c)
      <4>1. PICK batch \in SUBSET pending[c] :
              /\ sent' = [sent EXCEPT ![c] = batch] /\ pending' = pending
              /\ \/ pc' = [pc EXCEPT ![c] = IF batch = {} THEN "pull" ELSE "wait"]
                 \/ pc' = [pc EXCEPT ![c] = IF batch = {} THEN "pull" ELSE "rewait"]
        <5>1. CASE SendPush(c)
          <6>1. OldestPending(c) \in SUBSET pending[c]
            BY DEF OldestPending
          <6> QED
            BY <5>1, <6>1 DEF SendPush, StartSync, tableVars
        <5>2. CASE SendRetry(c)
          <6>1. {p \in OldestPending(c) : p.id \in again[c]} \in SUBSET pending[c]
            BY DEF OldestPending
          <6> QED
            BY <5>2, <6>1 DEF SendRetry, RetryPush, tableVars
        <5> QED
          BY <3>1, <5>1, <5>2
      <4>2. sent'[c] = batch /\ pending'[c] = pending[c]
        BY <1>0, <4>1
      <4>3. batch # {} => pc'[c] \in {"wait", "rewait"}
        BY <1>0, <4>1
      <4> QED
        BY <4>2, <4>3 DEF Waiting
    <3>2. CASE ~(SendPush(c) \/ SendRetry(c))
      <4>1. sent' = sent
        BY <1>2, <3>2 DEF DeviceMoves, UserEdit, CreateRow, EditRow, RetireRow, RemoveRow,
                  StartEdit, FinishEdit, Enqueue, Discard, Requeue, RequeueConflict, Pull,
                  HandlePull, FinishSync, SaveServerTime
      <4> QED
        BY <2>2, <4>1
    <3> QED
      BY <3>1, <3>2
  <2> QED
    BY <1>1, <2>1, <2>2, <2>3 DEF engineVars
<1>3. ASSUME NEW c \in Client, ReceiveAnswer(c) PROVE SentInv'
  <2>1. /\ \A d \in Client \ {c} : /\ sent'[d] = sent[d] /\ pending'[d] = pending[d]
                                   /\ pc'[d] = pc[d] /\ reply'[d] = reply[d]
        /\ UNCHANGED <<engineVars, late>>
    BY <1>3, MovesApart
  <2>2. reply'[c] = {} /\ sent'[c] = {} /\ reply[c] # {}
    BY <1>0, <1>3 DEF ReceiveAnswer, HandleAnswer, HandleRetryAnswer
  <2>3. \A s \in Session : tx[s].st # "free" => tx[s].user # c
    BY <2>2, Runs
  <2> QED
    BY <1>1, <2>1, <2>2, <2>3 DEF engineVars
<1>4. ASSUME UNCHANGED <<clientVars, late>>,
             \A c \in Client : reply'[c] = reply[c],
             NEW s \in Session, \A t \in Session \ {s} : tx'[t] = tx[t],
             receipts' = receipts,
             IF tx'[s].st = "free" THEN tx'[s] = FreeHandler ELSE tx'[s].live,
             tx'[s].dup = {},
             \A p \in tx'[s].todo : p \in sent[tx'[s].user] /\ p.id \notin Ids(receipts),
             \A x \in tx'[s].rc : Sends(tx'[s].user, x.id),
             \A h \in tx'[s].au : \E p \in sent[tx'[s].user] : p.id = h.id /\ p.ent = h.ent
      PROVE  SentInv'
  <2>1. UNCHANGED <<sent, pending, pc>>
    BY <1>4 DEF clientVars, tableVars, syncVars
  <2> QED
    BY <1>4, <2>1 DEF SentInv, Sends, Waiting
<1>5. ASSUME NEW s \in Session, NEW c \in Client, Serve(s, c) PROVE SentInv'
  <2>1. /\ wire[c] = sent[c] /\ Waiting(c) /\ reply[c] = {}
    BY <1>5 DEF Serve, ExchangeInv, WireOK
  <2>2. \A p \in wire[c] : p.id \notin Ids(receipts)
    BY <2>1, SentUnanswered
  <2>3. UNCHANGED <<clientVars, late, reply, receipts>> /\ \A t \in Session \ {s} : tx'[t] = tx[t]
    BY <1>0, <1>5 DEF Serve, BeginPush
  <2>4. /\ tx'[s].st = "ready" /\ tx'[s].live /\ tx'[s].user = c
        /\ tx'[s].rc = {} /\ tx'[s].au = {} /\ tx'[s].todo \subseteq wire[c]
        /\ tx'[s].dup \subseteq Ids(wire[c]) /\ tx'[s].dup \subseteq Ids(receipts)
    BY <1>0, <1>5 DEF Serve, BeginPush, FreeHandler, Ids
  <2>5. tx'[s].dup = {}
    BY <2>2, <2>4 DEF Ids
  <2> QED
    BY <1>4, <2>1, <2>2, <2>3, <2>4, <2>5
<1>6. ASSUME NEW s \in Session, Process(s) PROVE SentInv'
  <2>1. Ends(s) /\ UNCHANGED <<clientVars, netVars>> /\ receipts' = receipts
    BY <1>6, ProcessEnds, ProcessKeepsBooks DEF Process, StoreInv, KeepsBooks
  <2>2. tx[s].st # "free"
    BY <1>6, Rests DEF Process, ProcessChange
  <2>3. tx[s].live /\ tx[s].user \in Client
    BY <2>2, Runs
  <2>4. /\ \A p \in tx'[s].todo : p \in sent[tx'[s].user] /\ p.id \notin Ids(receipts)
        /\ \A x \in tx'[s].rc : Sends(tx'[s].user, x.id)
        /\ \A h \in tx'[s].au : \E p \in sent[tx'[s].user] : p.id = h.id /\ p.ent = h.ent
    BY <2>1 DEF Ends, SentInv, Sends
  <2>5. tx'[s].dup = {} /\ tx'[s].st # "free" /\ tx'[s].live
        /\ \A t \in Session \ {s} : tx'[t] = tx[t]
    BY <2>1, <2>3 DEF Ends, SentInv
  <2> QED
    BY <1>4, <2>1, <2>4, <2>5 DEF netVars
<1>7. ASSUME NEW s \in Session, Answer(s) PROVE SentInv'
  <2>1. /\ tx' = [tx EXCEPT ![s] = FreeHandler] /\ tx[s].st = "ready"
        /\ UNCHANGED <<clientVars, late>>
    BY <1>7 DEF Answer, CommitPush
  <2>2. \A t \in Session : tx'[t] = FreeHandler
    BY <1>0, <2>1 DEF Alone, SentInv
  <2>3. tx[s].live /\ tx[s].user \in Client
    BY <2>1, Runs
  <2> DEFINE y == [dup |-> tx[s].dup, out |-> tx[s].rc]
  <2>4. reply' = [reply EXCEPT ![tx[s].user] = {y}]
    BY <1>7, <2>3 DEF Answer
  <2>5. y.dup = {} /\ \A x \in y.out : Sends(tx[s].user, x.id)
    BY DEF SentInv
  <2>6. UNCHANGED <<sent, pending, pc>>
    BY <2>1 DEF clientVars, tableVars, syncVars
  <2> HIDE DEF y
  <2>7. ASSUME NEW c \in Client, NEW z \in reply'[c]
        PROVE  z.dup = {} /\ \A x \in z.out : Sends(c, x.id)'
    <3>1. CASE c = tx[s].user
      BY <1>0, <2>3, <2>4, <2>5, <2>6, <2>7, <3>1 DEF Sends
    <3>2. CASE c # tx[s].user
      BY <1>0, <2>3, <2>4, <2>6, <2>7, <3>2 DEF SentInv, Sends
    <3> QED
      BY <3>1, <3>2
  <2>8. \A t \in Session : /\ tx'[t].st = "free" /\ tx'[t].dup = {} /\ tx'[t].todo = {}
                           /\ tx'[t].rc = {} /\ tx'[t].au = {} /\ tx'[t] = FreeHandler
    <3>1. /\ FreeHandler.st = "free" /\ FreeHandler.dup = {} /\ FreeHandler.todo = {}
          /\ FreeHandler.rc = {} /\ FreeHandler.au = {}
      BY DEF FreeHandler
    <3> QED
      BY <2>2, <3>1
  <2>9. ASSUME NEW c \in Client
        PROVE  sent'[c] \subseteq pending'[c] /\ (~Waiting(c)' => sent'[c] = {})
    BY <2>6 DEF SentInv, Waiting
  <2>10. late' = {}
    BY <2>1 DEF SentInv
  <2> QED
    BY <2>7, <2>8, <2>9, <2>10 DEF SentInv
<1>8. CASE UNCHANGED vars
  BY <1>8 DEF vars, engineVars, clientVars, tableVars, syncVars, netVars, SentInv, Sends,
              Waiting
<1> QED
  BY <1>2, <1>3, <1>5, <1>6, <1>7, <1>8, CalmSteps

-----------------------------------------------------------------------------
(* What each step makes of the device that takes it. *)

Edits(c) ==
  /\ pc[c] = "idle" /\ pc'[c] = "queue"
  /\ pending'[c] = pending[c] /\ blocked'[c] = blocked[c] /\ conf'[c] = conf[c]
  /\ \E e \in Entity : \E op :
       /\ draft'[c] = {[ent |-> e, op |-> op, val |-> nextId]}
       /\ \A f \in Entity \ {e} : row'[c][f] = row[c][f]
       /\ \/ \A d \in Client : row[d][e].val = 0
          \/ row[c][e].val # 0 /\ row'[c][e].ver = row[c][e].ver
       /\ op = "discard" => row'[c][e].ver = 0
       /\ op \in {"upsert", "retire"} => row'[c][e].val = nextId

Enqueues(c) ==
  /\ pc[c] = "queue" /\ pc'[c] = "idle" /\ row'[c] = row[c] /\ conf'[c] = conf[c]
  /\ draft'[c] = {}
  /\ \E d \in draft[c] : \E new :
       /\ new.id = nextId /\ new.ent = d.ent /\ new.op = d.op /\ new.val = d.val
       /\ new.base = row[c][d.ent].ver /\ d.op # "discard"
       /\ pending'[c] = Except(pending[c], d.ent) \cup {new}
       /\ blocked'[c] = Except(blocked[c], d.ent)

Discards(c) ==
  /\ pc[c] = "queue" /\ pc'[c] = "idle" /\ row'[c] = row[c] /\ conf'[c] = conf[c]
  /\ draft'[c] = {}
  /\ \E d \in draft[c] :
       /\ d.op = "discard"
       /\ pending'[c] = Except(pending[c], d.ent)
       /\ blocked'[c] = Except(blocked[c], d.ent)

Asks(c) ==
  /\ \/ pc[c] = "idle" /\ pc'[c] \in {"wait", "pull"}
     \/ pc[c] = "requeue" /\ conf[c] = {} /\ pc'[c] \in {"rewait", "pull"}
  /\ row'[c] = row[c] /\ conf'[c] = conf[c] /\ draft'[c] = draft[c]
  /\ pending'[c] = pending[c] /\ blocked'[c] = blocked[c]

Requeues(c) ==
  /\ pc[c] = "requeue" /\ pc'[c] = "requeue" /\ row'[c] = row[c] /\ draft'[c] = draft[c]
  /\ \E x \in conf[c] : \E p \in Outbox(c) : \E new :
       /\ p.id = x.id /\ conf'[c] = conf[c] \ {x}
       /\ new.id = nextId /\ new.ent = p.ent /\ new.op = p.op /\ new.val = p.val
       /\ new.base = x.sv
       /\ pending'[c] = Except(pending[c], p.ent) \cup {new}
       /\ blocked'[c] = Except(blocked[c], p.ent)

Pulls(c) ==
  /\ pc[c] = "pull" /\ pc'[c] = "stamp" /\ conf'[c] = conf[c] /\ draft'[c] = draft[c]
  /\ pending'[c] = pending[c] /\ blocked'[c] = blocked[c]
  /\ \A e \in Entity :
       row'[c][e] = IF item[e].upd > since[c]
                    THEN Pulled(c, e, row[c][e], item[e]) ELSE row[c][e]

Finishes(c) ==
  /\ pc[c] = "stamp" /\ pc'[c] = "idle" /\ conf'[c] = conf[c] /\ draft'[c] = draft[c]
  /\ pending'[c] = pending[c] /\ blocked'[c] = blocked[c] /\ row'[c] = row[c]

Refused(r) == Ids(WithStatus(r, "conflict")) \cup Ids(WithStatus(r, "error"))
Done(c, r) == (Ids(sent[c]) \ Refused(r)) \cup r.dup

Leaves(c, done, toBlock) ==
  /\ pending'[c] = {p \in pending[c] : p.id \notin done /\ p.id \notin toBlock}
  /\ blocked'[c] = {p \in blocked[c] : p.id \notin done}
       \cup {p \in pending[c] : p.id \notin done /\ p.id \in toBlock}

Receives(c) ==
  /\ Waiting(c) /\ row'[c] = row[c] /\ draft'[c] = draft[c] /\ reply'[c] = {}
  /\ \E r \in reply[c] :
       \/ /\ pc[c] = "wait" /\ pc'[c] = "requeue"
          /\ conf'[c] = WithStatus(r, "conflict")
          /\ Leaves(c, Done(c, r), Ids(WithStatus(r, "error")))
       \/ /\ pc[c] = "rewait" /\ pc'[c] = "pull" /\ conf'[c] = conf[c]
          /\ Leaves(c, Done(c, r), Refused(r))

LEMMA EditMoves ==
  ASSUME TypeInv, DeviceInv, NEW c \in Client, UserEdit(c)
  PROVE  Edits(c)
<1>0. /\ row \in [Client -> [Entity -> LocalRow]] /\ pc \in [Client -> Place]
      /\ draft \in [Client -> SUBSET Draft] /\ nextId \in Nat
  BY DEF TypeInv, TypeOK, ClientTypeOK
<1>1. PICK e \in Entity : CreateRow(c, e) \/ EditRow(c, e) \/ RetireRow(c, e) \/ RemoveRow(c, e)
  BY DEF UserEdit
<1>2. row[c] \in [Entity -> LocalRow] /\ row[c][e] \in LocalRow
  BY <1>0
<1>3. ASSUME NEW l, NEW op, StartEdit(c, e, l, op),
             \/ \A d \in Client : row[d][e].val = 0
             \/ row[c][e].val # 0 /\ l.ver = row[c][e].ver,
             op = "discard" => l.ver = 0,
             op \in {"upsert", "retire"} => l.val = nextId
      PROVE  Edits(c)
  <2>1. row'[c][e] = l /\ \A f \in Entity \ {e} : row'[c][f] = row[c][f]
    BY <1>0, <1>2, <1>3 DEF StartEdit
  <2>2. draft'[c] = {[ent |-> e, op |-> op, val |-> nextId]}
    BY <1>0, <1>3 DEF StartEdit
  <2>3. /\ pc[c] = "idle" /\ pc'[c] = "queue"
        /\ pending'[c] = pending[c] /\ blocked'[c] = blocked[c] /\ conf'[c] = conf[c]
    BY <1>0, <1>3 DEF StartEdit
  <2> QED
    BY <1>3, <2>1, <2>2, <2>3 DEF Edits
<1>4. CASE CreateRow(c, e)
  <2> DEFINE l == [ver |-> 0, val |-> nextId, del |-> FALSE]
  <2>1. StartEdit(c, e, l, "upsert") /\ l.ver = 0 /\ l.val = nextId
    BY <1>4 DEF CreateRow
  <2>2. \A d \in Client : row[d][e].val = 0
    BY <1>4 DEF CreateRow
  <2> HIDE DEF l
  <2> QED
    BY <1>3, <2>1, <2>2
<1>5. CASE EditRow(c, e) \/ RetireRow(c, e)
  <2> DEFINE l == [row[c][e] EXCEPT !.val = nextId]
  <2>1. StartEdit(c, e, l, "upsert") \/ StartEdit(c, e, l, "retire")
    BY <1>5 DEF EditRow, RetireRow
  <2>2. row[c][e].val # 0 /\ l.ver = row[c][e].ver /\ l.val = nextId
    BY <1>2, <1>5 DEF EditRow, RetireRow, Listed, LocalRow
  <2> HIDE DEF l
  <2> QED
    BY <1>3, <2>1, <2>2
<1>6. CASE RemoveRow(c, e)
  <2> DEFINE l == [row[c][e] EXCEPT !.del = TRUE]
             op == IF row[c][e].ver < 1 THEN "discard" ELSE "delete"
  <2>1. StartEdit(c, e, l, op) /\ row[c][e].val # 0
    BY <1>6 DEF RemoveRow, Listed
  <2>2. l.ver = row[c][e].ver /\ row[c][e].ver \in Nat
    BY <1>2 DEF LocalRow
  <2>3. op = "discard" => l.ver = 0
    BY <2>2
  <2>4. op \notin {"upsert", "retire"}
    OBVIOUS
  <2> HIDE DEF l, op
  <2> QED
    BY <1>3, <2>1, <2>2, <2>3, <2>4
<1> QED
  BY <1>1, <1>4, <1>5, <1>6

LEMMA DeviceDoes ==
  ASSUME TypeInv, DeviceInv, NEW c \in Client, DeviceMoves(c)
  PROVE  \/ Edits(c) \/ Enqueues(c) \/ Discards(c) \/ Asks(c)
         \/ Requeues(c) \/ Pulls(c) \/ Finishes(c)
<1>0. ClientTypeOK
  BY DEF TypeInv, TypeOK
<1>1. CASE UserEdit(c)
  BY <1>1, EditMoves
<1>2. CASE FinishEdit(c)
  <2>1. CASE Enqueue(c)
    <3>1. PICK d \in draft[c] :
            d.op # "discard" /\ ReplaceEntry(c, d.ent, d.op, row[c][d.ent].ver, d.val)
      BY <2>1 DEF Enqueue
    <3> DEFINE new == [id |-> nextId, ent |-> d.ent, op |-> d.op,
                       base |-> row[c][d.ent].ver, val |-> d.val]
    <3>2. /\ pending'[c] = Except(pending[c], d.ent) \cup {new}
          /\ blocked'[c] = Except(blocked[c], d.ent)
      BY <1>0, <3>1 DEF ReplaceEntry, ClientTypeOK
    <3>3. /\ new.id = nextId /\ new.ent = d.ent /\ new.op = d.op /\ new.val = d.val
          /\ new.base = row[c][d.ent].ver
      OBVIOUS
    <3> HIDE DEF new
    <3>4. /\ pc[c] = "queue" /\ pc'[c] = "idle" /\ row'[c] = row[c] /\ conf'[c] = conf[c]
          /\ draft'[c] = {}
      BY <1>0, <2>1 DEF Enqueue, ClientTypeOK
    <3> QED
      BY <3>1, <3>2, <3>3, <3>4 DEF Enqueues
  <2>2. CASE Discard(c)
    BY <1>0, <2>2 DEF Discard, Discards, ClientTypeOK
  <2> QED
    BY <1>2, <2>1, <2>2 DEF FinishEdit
<1>3. CASE SendPush(c)
  BY <1>0, <1>3 DEF SendPush, StartSync, Asks, ClientTypeOK, tableVars
<1>4. CASE SendRetry(c)
  BY <1>0, <1>4 DEF SendRetry, RetryPush, Asks, ClientTypeOK, tableVars
<1>5. CASE Requeue(c)
  <2>1. PICK x \in conf[c], p \in Outbox(c) :
          /\ p.id = x.id /\ conf' = [conf EXCEPT ![c] = @ \ {x}]
          /\ ReplaceEntry(c, p.ent, p.op, x.sv, p.val)
    BY <1>5 DEF Requeue, RequeueConflict
  <2> DEFINE new == [id |-> nextId, ent |-> p.ent, op |-> p.op,
                     base |-> x.sv, val |-> p.val]
  <2>2. /\ pending'[c] = Except(pending[c], p.ent) \cup {new}
        /\ blocked'[c] = Except(blocked[c], p.ent)
    BY <1>0, <2>1 DEF ReplaceEntry, ClientTypeOK
  <2>3. /\ new.id = nextId /\ new.ent = p.ent /\ new.op = p.op /\ new.val = p.val
        /\ new.base = x.sv
    OBVIOUS
  <2> HIDE DEF new
  <2>4. conf'[c] = conf[c] \ {x}
    BY <1>0, <2>1 DEF ClientTypeOK
  <2>5. /\ pc[c] = "requeue" /\ pc'[c] = "requeue" /\ row'[c] = row[c]
        /\ draft'[c] = draft[c]
    BY <1>5 DEF Requeue, RequeueConflict
  <2> QED
    BY <2>1, <2>2, <2>3, <2>4, <2>5 DEF Requeues
<1>6. CASE Pull(c)
  <2>1. row'[c] = [e \in Entity |-> IF e \in Entity /\ item[e].upd > since[c]
                                    THEN Pulled(c, e, row[c][e], item[e]) ELSE row[c][e]]
    BY <1>0, <1>6 DEF Pull, HandlePull, ApplyPull, ClientTypeOK
  <2>2. /\ pc[c] = "pull" /\ pc'[c] = "stamp" /\ UNCHANGED <<conf, draft, pending, blocked>>
    BY <1>0, <1>6 DEF Pull, HandlePull, ClientTypeOK
  <2> QED
    BY <2>1, <2>2 DEF Pulls
<1>7. CASE FinishSync(c)
  BY <1>0, <1>7 DEF FinishSync, SaveServerTime, Finishes, ClientTypeOK
<1> QED
  BY <1>1, <1>2, <1>3, <1>4, <1>5, <1>6, <1>7 DEF DeviceMoves

LEMMA AnswerMoves ==
  ASSUME TypeInv, NEW c \in Client, ReceiveAnswer(c)
  PROVE  Receives(c)
<1>0. ClientTypeOK /\ reply \in [Client -> SUBSET Reply]
  BY DEF TypeInv, TypeOK
<1>1. PICK r \in reply[c] : HandleAnswer(c, r) \/ HandleRetryAnswer(c, r)
  BY DEF ReceiveAnswer
<1>2. /\ Waiting(c) /\ row'[c] = row[c] /\ draft'[c] = draft[c] /\ reply'[c] = {}
  BY <1>0, <1>1 DEF HandleAnswer, HandleRetryAnswer, Waiting, ReceiveAnswer
<1>3. ASSUME NEW block, ProcessPush(c, r, block)
      PROVE  Leaves(c, Done(c, r),
                    IF block THEN Refused(r) ELSE Ids(WithStatus(r, "error")))
  <2> DEFINE done == Done(c, r)
             toBlock == IF block THEN Refused(r) ELSE Ids(WithStatus(r, "error"))
  <2>1. /\ pending' = [pending EXCEPT ![c] =
                         {p \in {q \in pending[c] : q.id \notin done} : p.id \notin toBlock}]
        /\ blocked' = [blocked EXCEPT ![c] =
                         {q \in blocked[c] : q.id \notin done}
                           \cup {p \in {q \in pending[c] : q.id \notin done} : p.id \in toBlock}]
    BY <1>3 DEF ProcessPush, Clear, ToBlock, Done, Refused
  <2> HIDE DEF done, toBlock
  <2>2. Leaves(c, done, toBlock)
    BY <1>0, <2>1 DEF ClientTypeOK, Leaves
  <2> QED
    BY <2>2 DEF done, toBlock
<1>4. CASE HandleAnswer(c, r)
  <2>1. /\ pc[c] = "wait" /\ pc'[c] = "requeue" /\ conf'[c] = WithStatus(r, "conflict")
    BY <1>0, <1>4 DEF HandleAnswer, ClientTypeOK
  <2>2. ProcessPush(c, r, FALSE)
    BY <1>4 DEF HandleAnswer
  <2>3. Leaves(c, Done(c, r), Ids(WithStatus(r, "error")))
    BY <1>3, <2>2
  <2> QED
    BY <1>1, <1>2, <2>1, <2>3 DEF Receives
<1>5. CASE HandleRetryAnswer(c, r)
  <2>1. /\ pc[c] = "rewait" /\ pc'[c] = "pull" /\ conf'[c] = conf[c]
    BY <1>0, <1>5 DEF HandleRetryAnswer, ClientTypeOK
  <2>2. ProcessPush(c, r, TRUE)
    BY <1>5 DEF HandleRetryAnswer
  <2>3. Leaves(c, Done(c, r), Refused(r))
    BY <1>3, <2>2
  <2> QED
    BY <1>1, <1>2, <2>1, <2>3 DEF Receives
<1> QED
  BY <1>1, <1>4, <1>5

-----------------------------------------------------------------------------
(* The steps, by what they do. *)

(* Device c moves, on its own or with an answer. *)
Moves(c) ==
  /\ \A d \in Client \ {c} :
       /\ pending'[d] = pending[d] /\ blocked'[d] = blocked[d] /\ row'[d] = row[d]
       /\ draft'[d] = draft[d] /\ sent'[d] = sent[d] /\ conf'[d] = conf[d]
       /\ pc'[d] = pc[d] /\ reply'[d] = reply[d]
  /\ UNCHANGED engineVars
  /\ reply'[c] = {}
  /\ \A s \in Session : tx[s].st # "free" => tx[s].user # c
  /\ \/ /\ reply[c] = {} /\ sent[c] = {} /\ ~Waiting(c)
        /\ \/ Edits(c) \/ Enqueues(c) \/ Discards(c) \/ Asks(c)
           \/ Requeues(c) \/ Pulls(c) \/ Finishes(c)
     \/ Receives(c)

(* Handler s starts or works. *)
Works(s) ==
  /\ UNCHANGED <<clientVars, reply, item, receipts, audit>>
  /\ \A t \in Session \ {s} : tx'[t] = tx[t]
  /\ Ends(s) \/ (tx'[s].rc = {} /\ tx'[s].au = {})

(* Handler s commits and answers. *)
Answers(s) ==
  /\ UNCHANGED clientVars
  /\ tx[s].user \in Client /\ Waiting(tx[s].user) /\ reply[tx[s].user] = {}
  /\ \E y : y.out = tx[s].rc /\ reply'[tx[s].user] = {y}
  /\ \A c \in Client \ {tx[s].user} : reply'[c] = reply[c]
  /\ receipts' = receipts \cup tx[s].rc /\ audit' = audit \cup tx[s].au
  /\ \A t \in Session : tx'[t].rc = {} /\ tx'[t].au = {}
  /\ \A h \in tx[s].au : h.before = item[h.ent].ver /\ item[h.ent].ver < item'[h.ent].ver
  /\ \A e \in Entity : item'[e] = item[e] \/ \E h \in tx[s].au : h.ent = e

LEMMA CalmDoes ==
  ASSUME ~Overlap, MaxFaults = 0, TypeInv, Known, [Next]_vars
  PROVE  \/ \E c \in Client : Moves(c)
         \/ \E s \in Session : Works(s) \/ Answers(s)
         \/ UNCHANGED vars
<1> USE DEF Known, CalmInv, SerialInv, PulledInv
<1>0. /\ tx \in [Session -> Handler] /\ reply \in [Client -> SUBSET Reply]
  BY DEF TypeInv, TypeOK, EngineTypeOK
<1>1. ASSUME NEW c \in Client, DeviceMoves(c) PROVE Moves(c)
  <2>1. ~Waiting(c) /\ reply' = reply
    BY <1>1, MovesApart
  <2>2. /\ reply[c] = {} /\ sent[c] = {}
        /\ \A s \in Session : tx[s].st # "free" => tx[s].user # c
    BY <2>1, NotServed
  <2>3. \/ Edits(c) \/ Enqueues(c) \/ Discards(c) \/ Asks(c)
        \/ Requeues(c) \/ Pulls(c) \/ Finishes(c)
    BY <1>1, DeviceDoes
  <2>4. /\ \A d \in Client \ {c} :
              /\ pending'[d] = pending[d] /\ blocked'[d] = blocked[d] /\ row'[d] = row[d]
              /\ draft'[d] = draft[d] /\ sent'[d] = sent[d] /\ conf'[d] = conf[d]
              /\ pc'[d] = pc[d] /\ reply'[d] = reply[d]
        /\ UNCHANGED engineVars
    BY <1>1, MovesApart
  <2> QED
    BY <2>1, <2>2, <2>3, <2>4 DEF Moves
<1>2. ASSUME NEW c \in Client, ReceiveAnswer(c) PROVE Moves(c)
  <2>1. Receives(c)
    BY <1>2, AnswerMoves
  <2>2. reply[c] # {}
    BY <1>2 DEF ReceiveAnswer
  <2>3. \A s \in Session : tx[s].st # "free" => tx[s].user # c
    BY <2>2, Runs
  <2>4. /\ \A d \in Client \ {c} :
              /\ pending'[d] = pending[d] /\ blocked'[d] = blocked[d] /\ row'[d] = row[d]
              /\ draft'[d] = draft[d] /\ sent'[d] = sent[d] /\ conf'[d] = conf[d]
              /\ pc'[d] = pc[d] /\ reply'[d] = reply[d]
        /\ UNCHANGED engineVars
    BY <1>2, MovesApart
  <2> QED
    BY <2>1, <2>3, <2>4 DEF Moves, Receives
<1>3. ASSUME NEW s \in Session, NEW c \in Client, Serve(s, c) PROVE Works(s)
  <2>1. /\ UNCHANGED <<clientVars, reply, item, receipts, audit>>
        /\ \A t \in Session \ {s} : tx'[t] = tx[t]
    BY <1>0, <1>3 DEF Serve, BeginPush
  <2>2. tx'[s].rc = {} /\ tx'[s].au = {}
    BY <1>0, <1>3 DEF Serve, BeginPush, FreeHandler
  <2> QED
    BY <2>1, <2>2 DEF Works
<1>4. ASSUME NEW s \in Session, Process(s) PROVE Works(s)
  <2>1. Ends(s)
    BY <1>4, ProcessEnds DEF Process, StoreInv
  <2>2. UNCHANGED <<clientVars, reply, item, receipts, audit>>
    BY <1>4 DEF Process, netVars, ProcessChange, Refuse, Fetch, Conflict, RejectTarget,
                Insert, InsertClash, Update, SoftDelete, DeleteMissing, LockFailure,
                Record, Write
  <2> QED
    BY <2>1, <2>2 DEF Works, Ends
<1>5. ASSUME NEW s \in Session, Answer(s) PROVE Answers(s)
  <2>1. /\ tx' = [tx EXCEPT ![s] = FreeHandler] /\ tx[s].st = "ready"
        /\ receipts' = receipts \cup tx[s].rc /\ audit' = audit \cup tx[s].au
        /\ UNCHANGED clientVars
    BY <1>5 DEF Answer, CommitPush
  <2>2. /\ tx[s].user \in Client /\ Waiting(tx[s].user) /\ reply[tx[s].user] = {}
        /\ tx[s].live
    BY <2>1, Runs
  <2>3. \A t \in Session : tx'[t] = FreeHandler
    BY <1>0, <2>1 DEF Alone, SentInv
  <2>4. \A t \in Session : tx'[t].rc = {} /\ tx'[t].au = {}
    <3>1. FreeHandler.rc = {} /\ FreeHandler.au = {}
      BY DEF FreeHandler
    <3> QED
      BY <2>3, <3>1
  <2> DEFINE y == [dup |-> tx[s].dup, out |-> tx[s].rc]
  <2>5. reply' = [reply EXCEPT ![tx[s].user] = {y}] /\ y.out = tx[s].rc
    BY <1>5, <2>2 DEF Answer
  <2> HIDE DEF y
  <2>6. /\ reply'[tx[s].user] = {y}
        /\ \A c \in Client \ {tx[s].user} : reply'[c] = reply[c]
    BY <1>0, <2>2, <2>5
  <2>7. CommitPush(s) /\ WorkOK(s)
    BY <1>5 DEF Answer, StoreInv
  <2>8. /\ \A h \in tx[s].au : h.before = item[h.ent].ver /\ item[h.ent].ver < item'[h.ent].ver
        /\ \A e \in Entity : item'[e] = item[e] \/ \E h \in tx[s].au : h.ent = e
    BY <2>7, Committed
  <2> QED
    BY <2>1, <2>2, <2>4, <2>5, <2>6, <2>8 DEF Answers
<1> QED
  BY <1>1, <1>2, <1>3, <1>4, <1>5, CalmSteps

(* An entry has its number to itself. *)
LEMMA Sole ==
  ASSUME TypeInv, Known, NEW c \in Client, NEW d \in Client, NEW p \in Outbox(c),
         NEW o \in Outbox(d), p.id = o.id
  PROVE  p = o /\ c = d
<1>1. p \in Moving /\ o \in Moving
  BY MovingHolds
<1> QED
  BY <1>1 DEF Known, CalmInv, PulledInv, ChangesInv, EntriesInv

(* What an answer takes out of an outbox was sent, and accepted. *)
LEMMA Cleared ==
  ASSUME TypeInv, Known, NEW c \in Client, Receives(c), NEW p \in Outbox(c),
         p \notin Outbox(c)'
  PROVE  p \in sent[c] /\ \E y \in reply[c] : \E x \in y.out :
           x.id = p.id /\ x.status = "accepted"
<1> USE DEF Known, CalmInv
<1>0. reply[c] \subseteq Reply
  BY DEF TypeInv, TypeOK
<1>1. PICK r \in reply[c] :
        \/ Leaves(c, Done(c, r), Ids(WithStatus(r, "error")))
        \/ Leaves(c, Done(c, r), Refused(r))
  BY DEF Receives
<1>2. p.id \in Done(c, r)
  BY <1>1 DEF Leaves, Outbox
<1>3. r.dup = {} /\ r.out \subseteq Receipt /\ sent[c] \subseteq pending[c]
  BY <1>0, <1>1 DEF SentInv, Reply
<1>4. p.id \in Ids(sent[c]) /\ p.id \notin Refused(r)
  BY <1>2, <1>3 DEF Done
<1>5. PICK q \in sent[c] : q.id = p.id
  BY <1>4 DEF Ids
<1>6. q \in Outbox(c)
  BY <1>3, <1>5 DEF Outbox
<1>7. q = p
  BY <1>5, <1>6, Sole
<1>8. p.id \in Ids(r.out)
  BY <1>3, <1>4 DEF ExchangeInv, ReplyOK
<1>9. PICK x \in r.out : x.id = p.id
  BY <1>8 DEF Ids
<1>10. x.status \in {"accepted", "conflict", "error"}
  BY <1>3, <1>9 DEF Receipt
<1>11. x.status = "accepted"
  BY <1>4, <1>9, <1>10 DEF Refused, WithStatus, Ids
<1> QED
  BY <1>1, <1>5, <1>7, <1>9, <1>11

LEMMA EntriesKept ==
  ASSUME ~Overlap, MaxFaults = 0, TypeInv, Known, [Next]_vars
  PROVE  EntriesInv'
<1> USE DEF Known, CalmInv, SerialInv
<1>0. nextId \in Nat
  BY DEF TypeInv, TypeOK, ClientTypeOK
<1>1. ASSUME NEW c \in Client, NEW d \in Client, NEW p \in Outbox(c)', NEW o \in Outbox(d)',
             p.id = o.id
      PROVE  c = d
  <2>1. CASE OnlyLess
    BY <1>1, <2>1 DEF OnlyLess, EntriesInv
  <2>2. CASE \E b \in Client : \E new : Queues(b, new)
    <3>1. PICK b, new : b \in Client /\ Queues(b, new)
      BY <2>2
    <3>2. /\ p \in Outbox(c) \/ (c = b /\ p = new)
          /\ o \in Outbox(d) \/ (d = b /\ o = new)
      BY <1>1, <3>1 DEF Queues
    <3>3. new.id = nextId
      BY <3>1 DEF Queues
    <3>4. /\ p \in Outbox(c) => p.id < nextId
          /\ o \in Outbox(d) => o.id < nextId
      BY DEF OutboxInv
    <3>5. p.id # nextId \/ p \notin Outbox(c)
      BY <1>0, <3>4
    <3>6. o.id # nextId \/ o \notin Outbox(d)
      BY <1>0, <3>4
    <3> QED
      BY <1>1, <3>2, <3>3, <3>5, <3>6 DEF EntriesInv
  <2> QED
    BY <2>1, <2>2, OutboxGrows
<1>2. ASSUME NEW c \in Client, NEW p \in pending'[c], NEW o \in blocked'[c]
      PROVE  p.id # o.id
  <2>1. \A q \in Outbox(c) : q.id # nextId
    BY <1>0 DEF OutboxInv
  <2>2. CASE pending'[c] \subseteq pending[c] /\ blocked'[c] \subseteq blocked[c]
    BY <1>2, <2>2 DEF EntriesInv
  <2>3. CASE \E e, new : /\ new.id = nextId
                         /\ pending'[c] = Except(pending[c], e) \cup {new}
                         /\ blocked'[c] = Except(blocked[c], e)
    BY <1>2, <2>1, <2>3 DEF EntriesInv, Except, Outbox
  <2>4. CASE \E done, toBlock : Leaves(c, done, toBlock)
    BY <1>2, <2>4 DEF EntriesInv, Leaves
  <2>5. CASE \E b \in Client : Moves(b)
    <3>1. PICK b \in Client : Moves(b)
      BY <2>5
    <3>2. CASE b # c
      <4>1. pending'[c] = pending[c] /\ blocked'[c] = blocked[c]
        BY <3>1, <3>2 DEF Moves
      <4> QED
        BY <2>2, <4>1
    <3>3. CASE Edits(c) \/ Asks(c) \/ Pulls(c) \/ Finishes(c) \/ Discards(c)
      BY <2>2, <3>3 DEF Edits, Asks, Pulls, Finishes, Discards, Except
    <3>4. CASE Enqueues(c)
      <4>1. \E e, new : /\ new.id = nextId
                        /\ pending'[c] = Except(pending[c], e) \cup {new}
                        /\ blocked'[c] = Except(blocked[c], e)
        BY <3>4 DEF Enqueues
      <4> QED
        BY <2>3, <4>1
    <3>5. CASE Requeues(c)
      <4>1. \E e, new : /\ new.id = nextId
                        /\ pending'[c] = Except(pending[c], e) \cup {new}
                        /\ blocked'[c] = Except(blocked[c], e)
        BY <3>5 DEF Requeues
      <4> QED
        BY <2>3, <4>1
    <3>6. CASE Receives(c)
      <4>1. \E done, toBlock : Leaves(c, done, toBlock)
        BY <3>6 DEF Receives
      <4> QED
        BY <2>4, <4>1
    <3> QED
      BY <3>1, <3>2, <3>3, <3>4, <3>5, <3>6 DEF Moves
  <2>6. CASE \E s \in Session : Works(s) \/ Answers(s)
    <3>1. pending' = pending /\ blocked' = blocked
      BY <2>6 DEF Works, Answers, clientVars, tableVars
    <3> QED
      BY <2>2, <3>1
  <2>7. CASE UNCHANGED vars
    BY <2>2, <2>7 DEF vars, clientVars, tableVars
  <2> QED
    BY <2>5, <2>6, <2>7, CalmDoes
<1>3. \A c \in Client : Outbox(c)' = pending'[c] \cup blocked'[c]
  BY DEF Outbox
<1> QED
  BY <1>1, <1>2 DEF EntriesInv

(* What is known of the conflicts and refusals an answer brings. *)
LEMMA DecidedMoves ==
  ASSUME TypeInv, Known, NEW c \in Client, Moves(c)
  PROVE  /\ conf'[c] # {} => pc'[c] = "requeue"
         /\ \A x \in conf'[c] : x.sv # 0 /\ x.id \notin Ids(blocked'[c])
         /\ \A p \in pending'[c] : p.id \in Ids(receipts) => p.id \in Ids(conf'[c])
<1> USE DEF Known, CalmInv, SerialInv
<1>0. /\ pending[c] \subseteq Change /\ blocked[c] \subseteq Change
      /\ conf[c] \subseteq Receipt /\ reply[c] \subseteq Reply /\ nextId \in Nat
      /\ receipts \subseteq Receipt
  BY DEF TypeInv, TypeOK, ClientTypeOK, EngineTypeOK
<1>1. /\ conf[c] # {} => pc[c] = "requeue"
      /\ \A x \in conf[c] : x.sv # 0 /\ x.id \notin Ids(blocked[c])
      /\ \A p \in pending[c] : p.id \in Ids(receipts) =>
            (reply[c] # {} /\ p \in sent[c]) \/ p.id \in Ids(conf[c])
      /\ \A x \in receipts : x.id < nextId
  BY DEF DecidedInv
<1>2. nextId \notin Ids(receipts)
  <2>1. \A x \in receipts : x.id \in Nat /\ x.id # nextId
    BY <1>0, <1>1 DEF Receipt
  <2> QED
    BY <2>1 DEF Ids
<1>3. CASE reply[c] = {} /\ (Edits(c) \/ Asks(c) \/ Pulls(c) \/ Finishes(c))
  <2>1. /\ pending'[c] = pending[c] /\ blocked'[c] = blocked[c] /\ conf'[c] = conf[c]
        /\ conf[c] = {}
    BY <1>1, <1>3 DEF Edits, Asks, Pulls, Finishes
  <2> QED
    BY <1>1, <1>3, <2>1
<1>4. CASE reply[c] = {} /\ (Enqueues(c) \/ Discards(c))
  <2>1. conf'[c] = {} /\ conf[c] = {}
    BY <1>1, <1>4 DEF Enqueues, Discards
  <2>2. \A p \in pending'[c] : p \in pending[c] \/ p.id = nextId
    BY <1>4 DEF Enqueues, Discards, Except
  <2> QED
    BY <1>1, <1>2, <1>4, <2>1, <2>2
<1>5. CASE reply[c] = {} /\ Requeues(c)
  <2>1. PICK x, q, new :
          /\ x \in conf[c] /\ q \in Outbox(c)
          /\ q.id = x.id /\ conf'[c] = conf[c] \ {x} /\ new.id = nextId
          /\ pending'[c] = Except(pending[c], q.ent) \cup {new}
          /\ blocked'[c] = Except(blocked[c], q.ent)
    BY <1>5 DEF Requeues
  <2>2. ASSUME NEW p \in pending'[c], p.id \in Ids(receipts) PROVE p.id \in Ids(conf'[c])
    <3>1. p \in pending[c] /\ p.ent # q.ent
      BY <1>2, <2>1, <2>2 DEF Except
    <3>2. p.id \in Ids(conf[c])
      BY <1>1, <1>5, <2>2, <3>1
    <3>3. p \in Outbox(c)
      BY <3>1 DEF Outbox
    <3>4. p.id # x.id
      BY <2>1, <3>1, <3>3, Sole
    <3> QED
      BY <2>1, <3>2, <3>4 DEF Ids
  <2>3. \A z \in conf'[c] : z.sv # 0 /\ z.id \notin Ids(blocked'[c])
    BY <1>1, <2>1 DEF Ids, Except
  <2> QED
    BY <1>5, <2>2, <2>3 DEF Requeues
<1>6. CASE Receives(c)
  <2>1. PICK r \in reply[c] :
       \/ /\ pc[c] = "wait" /\ pc'[c] = "requeue"
          /\ conf'[c] = WithStatus(r, "conflict")
          /\ Leaves(c, Done(c, r), Ids(WithStatus(r, "error")))
       \/ /\ pc[c] = "rewait" /\ pc'[c] = "pull" /\ conf'[c] = conf[c]
          /\ Leaves(c, Done(c, r), Refused(r))
    BY <1>6 DEF Receives
  <2>2. conf[c] = {} /\ r.out \subseteq Receipt
    BY <1>0, <1>1, <2>1 DEF Reply
  <2>3. ASSUME NEW p \in pending[c], p.id \in Ids(receipts), p.id \notin Done(c, r)
        PROVE  p.id \in Refused(r)
    <3>1. p \in sent[c]
      BY <1>1, <2>2, <2>3 DEF Ids
    <3> QED
      BY <2>3, <3>1 DEF Done, Ids
  <2>4. CASE pc[c] = "rewait"
    <3>1. conf'[c] = {} /\ Leaves(c, Done(c, r), Refused(r))
      BY <2>1, <2>2, <2>4
    <3>2. \A p \in pending'[c] : p \in pending[c] /\ p.id \notin Done(c, r) /\ p.id \notin Refused(r)
      BY <3>1 DEF Leaves
    <3> QED
      BY <2>3, <3>1, <3>2
  <2>5. CASE pc[c] = "wait"
    <3>1. /\ conf'[c] = WithStatus(r, "conflict") /\ pc'[c] = "requeue"
          /\ Leaves(c, Done(c, r), Ids(WithStatus(r, "error")))
      BY <2>1, <2>5
    <3>2. \A p \in pending'[c] : /\ p \in pending[c] /\ p.id \notin Done(c, r)
                                 /\ p.id \notin Ids(WithStatus(r, "error"))
      BY <3>1 DEF Leaves
    <3>3. \A p \in pending'[c] : p.id \in Ids(receipts) => p.id \in Ids(conf'[c])
      BY <2>3, <3>1, <3>2 DEF Refused
    <3>4. ASSUME NEW x \in conf'[c] PROVE x.sv # 0 /\ x.id \notin Ids(blocked'[c])
      <4>1. x \in r.out /\ x.status = "conflict"
        BY <3>1, <3>4 DEF WithStatus
      <4>2. x.sv # 0
        BY <2>1, <4>1 DEF DecidedInv
      <4>3. Sends(c, x.id) /\ sent[c] \subseteq pending[c]
        BY <2>1, <4>1 DEF SentInv
      <4>4. x.id \notin Ids(blocked[c])
        BY <4>3 DEF Sends, EntriesInv, Ids
      <4>5. r.out \subseteq receipts
        BY <2>1 DEF ExchangeInv, ReplyOK
      <4>6. x.id \notin Ids(WithStatus(r, "error"))
        BY <4>1, <4>5 DEF ReceiptInv, Unique, WithStatus, Ids
      <4> QED
        BY <3>1, <4>2, <4>4, <4>6 DEF Leaves, Ids
    <3> QED
      BY <3>1, <3>3, <3>4
  <2> QED
    BY <2>1, <2>4, <2>5
<1> QED
  BY <1>3, <1>4, <1>5, <1>6 DEF Moves

LEMMA DecidedKept ==
  ASSUME ~Overlap, MaxFaults = 0, TypeInv, TypeInv', Known, [Next]_vars
  PROVE  DecidedInv'
<1> USE DEF Known, CalmInv, SerialInv
<1>0. /\ nextId \in Nat /\ nextId' \in Nat /\ nextId <= nextId'
      /\ receipts \subseteq Receipt /\ \A x \in Receipt : x.id \in Nat
      /\ \A s \in Session : tx[s].rc \subseteq Receipt
  <2>1. /\ receipts \subseteq Receipt /\ tx \in [Session -> Handler]
    BY DEF TypeInv, TypeOK, EngineTypeOK
  <2> QED
    BY <2>1, Grows DEF Receipt, Handler
<1>1. ASSUME NEW x \in receipts' PROVE x.id < nextId'
  <2>1. CASE x \in receipts
    <3>1. x.id < nextId
      BY <2>1 DEF DecidedInv
    <3> QED
      BY <1>0, <2>1, <3>1
  <2>2. CASE \E s \in Session : x \in tx[s].rc
    <3>1. x.id < nextId /\ x \in Receipt
      BY <1>0, <2>2 DEF PulledInv, AnswersInv, Answered
    <3> QED
      BY <1>0, <3>1
  <2>3. x \in receipts \/ \E s \in Session : x \in tx[s].rc
    <3>1. CASE \E c \in Client : Moves(c)
      BY <3>1 DEF Moves, engineVars
    <3>2. CASE \E s \in Session : Works(s) \/ Answers(s)
      BY <3>2 DEF Works, Answers
    <3>3. CASE UNCHANGED vars
      BY <3>3 DEF vars, engineVars
    <3> QED
      BY <3>1, <3>2, <3>3, CalmDoes
  <2> QED
    BY <2>1, <2>2, <2>3
<1> DEFINE Kept(c) ==
             /\ conf'[c] # {} => pc'[c] = "requeue"
             /\ \A x \in conf'[c] : x.sv # 0 /\ x.id \notin Ids(blocked'[c])
             /\ \A p \in pending'[c] : p.id \in Ids(receipts') =>
                  (reply'[c] # {} /\ p \in sent'[c]) \/ p.id \in Ids(conf'[c])
<1>2. ASSUME NEW c \in Client PROVE Kept(c)
  <2>1. ASSUME conf'[c] = conf[c], pc'[c] = pc[c], blocked'[c] = blocked[c],
               pending'[c] = pending[c], sent'[c] = sent[c], reply'[c] = reply[c],
               receipts' = receipts
        PROVE  Kept(c)
    BY <2>1 DEF DecidedInv
  <2>2. CASE \E d \in Client : Moves(d)
    <3>1. PICK d \in Client : Moves(d)
      BY <2>2
    <3>2. receipts' = receipts
      BY <3>1 DEF Moves, engineVars
    <3>3. CASE d = c
      BY <3>1, <3>2, <3>3, DecidedMoves
    <3>4. CASE d # c
      BY <2>1, <3>1, <3>2, <3>4 DEF Moves
    <3> QED
      BY <3>3, <3>4
  <2>3. CASE (\E s \in Session : Works(s)) \/ UNCHANGED vars
    BY <2>1, <2>3 DEF Works, vars, engineVars, clientVars, tableVars, syncVars, netVars
  <2>4. ASSUME NEW s \in Session, Answers(s) PROVE Kept(c)
    <3>1. /\ conf'[c] = conf[c] /\ pc'[c] = pc[c] /\ blocked'[c] = blocked[c]
          /\ pending'[c] = pending[c] /\ sent'[c] = sent[c]
      BY <2>4 DEF Answers, clientVars, tableVars, syncVars
    <3>2. ASSUME NEW p \in pending[c], p.id \in Ids(receipts')
          PROVE  (reply'[c] # {} /\ p \in sent[c]) \/ p.id \in Ids(conf[c])
      <4>1. CASE p.id \in Ids(receipts)
        <5>1. (reply[c] # {} /\ p \in sent[c]) \/ p.id \in Ids(conf[c])
          BY <4>1 DEF DecidedInv
        <5>2. reply[c] # {} => reply'[c] = reply[c]
          BY <2>4 DEF Answers
        <5> QED
          BY <5>1, <5>2
      <4>2. CASE p.id \notin Ids(receipts)
        <5>1. PICK x \in tx[s].rc : x.id = p.id
          BY <2>4, <3>2, <4>2 DEF Answers, Ids
        <5>2. PICK q \in sent[tx[s].user] : q.id = x.id
          BY <5>1 DEF SentInv, Sends
        <5>3. tx[s].user \in Client /\ reply'[tx[s].user] # {}
          BY <2>4 DEF Answers
        <5>4. q \in Outbox(tx[s].user) /\ p \in Outbox(c)
          BY <5>3 DEF SentInv, Outbox
        <5>5. q = p /\ c = tx[s].user
          BY <5>1, <5>2, <5>3, <5>4, Sole
        <5> QED
          BY <5>2, <5>3, <5>5
      <4> QED
        BY <4>1, <4>2
    <3> QED
      BY <3>1, <3>2 DEF DecidedInv
  <2> QED
    BY <2>2, <2>3, <2>4, CalmDoes
<1>3. ASSUME NEW s \in Session, NEW x \in tx'[s].rc, x.status = "conflict" PROVE x.sv # 0
  <2>1. CASE x \in tx[s].rc
    BY <1>3, <2>1 DEF DecidedInv
  <2>2. CASE x \notin tx[s].rc
    <3>1. ~(\E c \in Client : Moves(c)) /\ ~UNCHANGED vars
      BY <1>3, <2>2 DEF Moves, vars, engineVars
    <3>2. \A t \in Session : ~Answers(t)
      BY <1>3 DEF Answers
    <3>3. Works(s)
      BY <1>3, <2>2, <3>1, <3>2, CalmDoes DEF Works
    <3> QED
      BY <1>3, <2>2, <3>3 DEF Works, Ends
  <2> QED
    BY <2>1, <2>2
<1>4. ASSUME NEW c \in Client, NEW y \in reply'[c], NEW x \in y.out, x.status = "conflict"
      PROVE  x.sv # 0
  <2>1. y \in reply[c] \/ \E s \in Session : y.out = tx[s].rc
    BY <1>4, AnswersPass
  <2> QED
    BY <1>4, <2>1 DEF DecidedInv
<1> QED
  BY <1>1, <1>2, <1>3, <1>4 DEF DecidedInv

LEMMA DraftKept ==
  ASSUME ~Overlap, MaxFaults = 0, TypeInv, Known, [Next]_vars
  PROVE  DraftInv'
<1> USE DEF Known, CalmInv
<1>1. ASSUME NEW c \in Client
      PROVE  /\ draft'[c] # {} => pc'[c] = "queue"
             /\ \A d, b \in draft'[c] : d = b
             /\ \A d \in draft'[c] :
                  /\ d.op = "discard" => row'[c][d.ent].ver = 0
                  /\ d.op \in {"upsert", "retire"} => row'[c][d.ent].val = d.val
  <2>1. CASE draft'[c] = draft[c] /\ row'[c] = row[c] /\ pc'[c] = pc[c]
    BY <2>1 DEF DraftInv
  <2>2. CASE draft'[c] = {}
    BY <2>2
  <2>3. CASE Edits(c)
    <3>1. PICK e, op :
            /\ e \in Entity
            /\ draft'[c] = {[ent |-> e, op |-> op, val |-> nextId]} /\ pc'[c] = "queue"
            /\ op = "discard" => row'[c][e].ver = 0
            /\ op \in {"upsert", "retire"} => row'[c][e].val = nextId
      BY <2>3 DEF Edits
    <3> DEFINE d == [ent |-> e, op |-> op, val |-> nextId]
    <3>2. d.ent = e /\ d.op = op /\ d.val = nextId /\ draft'[c] = {d}
      BY <3>1
    <3> HIDE DEF d
    <3> QED
      BY <3>1, <3>2
  <2>4. CASE Moves(c)
    <3>1. CASE Enqueues(c) \/ Discards(c)
      BY <2>2, <3>1 DEF Enqueues, Discards
    <3>2. CASE Asks(c) \/ Requeues(c) \/ Pulls(c) \/ Finishes(c) \/ Receives(c)
      <4>1. draft'[c] = draft[c] /\ pc[c] # "queue"
        BY <3>2 DEF Asks, Requeues, Pulls, Finishes, Receives, Waiting
      <4> QED
        BY <2>2, <4>1 DEF DraftInv
    <3> QED
      BY <2>3, <2>4, <3>1, <3>2 DEF Moves
  <2>5. CASE ~Moves(c)
    <3>1. draft'[c] = draft[c] /\ row'[c] = row[c] /\ pc'[c] = pc[c]
      <4>1. CASE \E d \in Client : Moves(d)
        BY <2>5, <4>1 DEF Moves
      <4>2. CASE (\E s \in Session : Works(s) \/ Answers(s)) \/ UNCHANGED vars
        BY <4>2 DEF Works, Answers, vars, clientVars, tableVars, syncVars
      <4> QED
        BY <4>1, <4>2, CalmDoes DEF SerialInv
    <3> QED
      BY <2>1, <3>1
  <2> QED
    BY <2>4, <2>5
<1> QED
  BY <1>1 DEF DraftInv

(* A device whose part of the state a step leaves alone. *)
LEMMA Unmoved ==
  ASSUME ~Overlap, MaxFaults = 0, TypeInv, Known, [Next]_vars, NEW c \in Client, ~Moves(c)
  PROVE  /\ pending'[c] = pending[c] /\ blocked'[c] = blocked[c] /\ row'[c] = row[c]
         /\ draft'[c] = draft[c] /\ sent'[c] = sent[c] /\ pc'[c] = pc[c]
         /\ Outbox(c)' = Outbox(c)
<1>1. CASE \E d \in Client : Moves(d)
  BY <1>1 DEF Moves, Outbox
<1>2. CASE (\E s \in Session : Works(s) \/ Answers(s)) \/ UNCHANGED vars
  BY <1>2 DEF Works, Answers, vars, clientVars, tableVars, syncVars, Outbox
<1> QED
  BY <1>1, <1>2, CalmDoes

(* A pull changes neither what an edited row shows nor an unread one. *)
LEMMA PulledShows ==
  ASSUME TypeInv, Known, NEW c \in Client, Pulls(c), NEW e \in Entity
  PROVE  /\ (\E p \in pending[c] : p.ent = e) => row'[c][e].val = row[c][e].val
         /\ ~(item[e].upd > since[c]) => row'[c][e] = row[c][e]
         /\ item[e].upd > since[c] /\ ~(\E p \in pending[c] : p.ent = e) =>
              row'[c][e] = [ver |-> item[e].ver, val |-> item[e].val, del |-> item[e].del]
<1>1. row[c][e] \in LocalRow
  BY DEF TypeInv, TypeOK, ClientTypeOK
<1>2. [row[c][e] EXCEPT !.ver = item[e].ver].val = row[c][e].val
  BY <1>1 DEF LocalRow
<1> QED
  BY <1>2 DEF Pulls, Pulled

LEMMA ShownKept ==
  ASSUME ~Overlap, MaxFaults = 0, TypeInv, Known, [Next]_vars
  PROVE  ShownInv'
<1> USE DEF Known, CalmInv, SerialInv
<1>1. ASSUME NEW c \in Client, NEW p \in pending'[c], p.op # "delete"
      PROVE  row'[c][p.ent].val = p.val \/ \E d \in draft'[c] : d.ent = p.ent
  <2>0. /\ \A q \in pending[c] : q.op # "delete" =>
             row[c][q.ent].val = q.val \/ \E d \in draft[c] : d.ent = q.ent
        /\ \A q \in pending[c] : q.ent \in Entity
        /\ \A d \in draft[c] : d.op \in Op \cup {"discard"}
        /\ \A d, b \in draft[c] : d = b
        /\ draft[c] # {} => pc[c] = "queue"
    <3>1. pending[c] \subseteq Change /\ draft[c] \subseteq Draft
      BY DEF TypeInv, TypeOK, ClientTypeOK
    <3> QED
      BY <3>1 DEF Change, Draft, ShownInv, DraftInv
  <2>1. CASE pending'[c] \subseteq pending[c] /\ draft'[c] = draft[c] /\ row'[c] = row[c]
    BY <1>1, <2>0, <2>1
  <2>2. CASE ~Moves(c)
    BY <2>1, <2>2, Unmoved
  <2>3. CASE Edits(c)
    <3>1. PICK e, op :
            /\ e \in Entity
            /\ draft'[c] = {[ent |-> e, op |-> op, val |-> nextId]}
            /\ \A f \in Entity \ {e} : row'[c][f] = row[c][f]
      BY <2>3 DEF Edits
    <3>2. p \in pending[c] /\ draft[c] = {}
      BY <1>1, <2>0, <2>3 DEF Edits
    <3>3. CASE p.ent = e
      BY <3>1, <3>3
    <3>4. CASE p.ent # e
      BY <1>1, <2>0, <3>1, <3>2, <3>4
    <3> QED
      BY <3>3, <3>4
  <2>4. CASE Enqueues(c)
    <3>1. PICK d, new :
            /\ d \in draft[c]
            /\ new.ent = d.ent /\ new.op = d.op /\ new.val = d.val /\ d.op # "discard"
            /\ pending'[c] = Except(pending[c], d.ent) \cup {new} /\ row'[c] = row[c]
      BY <2>4 DEF Enqueues
    <3>2. CASE p = new
      <4>1. d.op \in {"upsert", "retire"}
        BY <1>1, <2>0, <3>1, <3>2 DEF Op
      <4> QED
        BY <3>1, <3>2, <4>1 DEF DraftInv
    <3>3. CASE p # new
      BY <1>1, <2>0, <3>1, <3>3 DEF Except
    <3> QED
      BY <3>2, <3>3
  <2>5. CASE Discards(c)
    <3>1. PICK d \in draft[c] : pending'[c] = Except(pending[c], d.ent) /\ row'[c] = row[c]
      BY <2>5 DEF Discards
    <3> QED
      BY <1>1, <2>0, <3>1 DEF Except
  <2>6. CASE Asks(c) \/ Finishes(c)
    BY <2>1, <2>6 DEF Asks, Finishes
  <2>7. CASE Requeues(c)
    <3>1. PICK x, q, new :
            /\ x \in conf[c] /\ q \in Outbox(c)
            /\ q.id = x.id /\ new.ent = q.ent /\ new.op = q.op /\ new.val = q.val
            /\ pending'[c] = Except(pending[c], q.ent) \cup {new}
            /\ row'[c] = row[c] /\ draft'[c] = draft[c]
      BY <2>7 DEF Requeues
    <3>2. q \in pending[c]
      BY <3>1 DEF DecidedInv, Outbox, Ids
    <3>3. CASE p = new
      BY <1>1, <2>0, <3>1, <3>2, <3>3
    <3>4. CASE p # new
      BY <1>1, <2>0, <3>1, <3>4 DEF Except
    <3> QED
      BY <3>3, <3>4
  <2>8. CASE Pulls(c)
    <3>1. pending'[c] = pending[c] /\ draft'[c] = draft[c]
      BY <2>8 DEF Pulls
    <3>2. row'[c][p.ent].val = row[c][p.ent].val
      BY <1>1, <2>0, <2>8, <3>1, PulledShows
    <3> QED
      BY <1>1, <2>0, <3>1, <3>2
  <2>9. CASE Receives(c)
    <3>1. pending'[c] \subseteq pending[c] /\ draft'[c] = draft[c] /\ row'[c] = row[c]
      BY <2>9 DEF Receives, Leaves
    <3> QED
      BY <2>1, <3>1
  <2> QED
    BY <2>2, <2>3, <2>4, <2>5, <2>6, <2>7, <2>8, <2>9 DEF Moves
<1> QED
  BY <1>1 DEF ShownInv

-----------------------------------------------------------------------------
(* Rows the server has not heard of. *)

Unheard(c, e) == row[c][e].val # 0 /\ row[c][e].ver = 0

(* A step makes only a row nobody has a row the server has not heard of. *)
LEMMA UnheardSteps ==
  ASSUME ~Overlap, MaxFaults = 0, TypeInv, Known, [Next]_vars,
         NEW c \in Client, NEW e \in Entity, Unheard(c, e)'
  PROVE  Unheard(c, e) \/ (Edits(c) /\ \A d \in Client : row[d][e].val = 0)
<1> USE DEF Known, CalmInv, SerialInv
<1>1. row'[c][e].val # 0 /\ row'[c][e].ver = 0
  BY DEF Unheard
<1>2. CASE row'[c] = row[c]
  BY <1>1, <1>2 DEF Unheard
<1>3. CASE Edits(c)
  <2>1. PICK f, op :
          /\ f \in Entity
          /\ \A g \in Entity \ {f} : row'[c][g] = row[c][g]
          /\ \/ \A d \in Client : row[d][f].val = 0
             \/ row[c][f].val # 0 /\ row'[c][f].ver = row[c][f].ver
    BY <1>3 DEF Edits
  <2>2. CASE e = f
    BY <1>1, <1>3, <2>1, <2>2 DEF Unheard
  <2>3. CASE e # f
    BY <1>1, <2>1, <2>3 DEF Unheard
  <2> QED
    BY <2>2, <2>3
<1>4. CASE Pulls(c)
  <2>1. item[e].upd \in Nat /\ since[c] \in Nat /\ row[c][e] \in LocalRow
    BY DEF TypeInv, TypeOK, EngineTypeOK, ClientTypeOK, ServerRow
  <2>2. item[e].upd > since[c] => item[e].ver # 0
    BY <2>1 DEF PulledInv, TablesInv
  <2>3. CASE \E p \in pending[c] : p.ent = e
    <3>1. row'[c][e] = IF item[e].upd > since[c]
                       THEN IF row[c][e].val = 0 THEN row[c][e]
                            ELSE [row[c][e] EXCEPT !.ver = item[e].ver]
                       ELSE row[c][e]
      BY <1>4, <2>3 DEF Pulls, Pulled
    <3>2. [row[c][e] EXCEPT !.ver = item[e].ver].ver = item[e].ver
      BY <2>1 DEF LocalRow
    <3> QED
      BY <1>1, <2>2, <3>1, <3>2 DEF Unheard
  <2>4. CASE ~\E p \in pending[c] : p.ent = e
    <3>1. row'[c][e] = IF item[e].upd > since[c]
                       THEN [ver |-> item[e].ver, val |-> item[e].val, del |-> item[e].del]
                       ELSE row[c][e]
      BY <1>4, <2>4 DEF Pulls, Pulled
    <3> QED
      BY <1>1, <2>2, <3>1 DEF Unheard
  <2> QED
    BY <2>3, <2>4
<1>5. CASE ~Moves(c)
  BY <1>2, <1>5, Unmoved
<1> QED
  BY <1>2, <1>3, <1>4, <1>5 DEF Moves, Enqueues, Discards, Asks, Requeues, Finishes, Receives

(* A row stamped after the last pull gets the server's version. *)
LEMMA PullBringsRow ==
  ASSUME TypeInv, Known, NEW c \in Client, Pulls(c), NEW e \in Entity,
         item[e].upd > since[c], row[c][e].val # 0 \/ ~\E p \in pending[c] : p.ent = e
  PROVE  row'[c][e].ver = item[e].ver
<1>1. row[c][e] \in LocalRow
  BY DEF TypeInv, TypeOK, ClientTypeOK
<1>2. [row[c][e] EXCEPT !.ver = item[e].ver].ver = item[e].ver
  BY <1>1 DEF LocalRow
<1>3. row'[c][e] = Pulled(c, e, row[c][e], item[e])
  BY DEF Pulls
<1>4. CASE \E p \in pending[c] : p.ent = e
  BY <1>2, <1>3, <1>4 DEF Pulled
<1>5. CASE ~\E p \in pending[c] : p.ent = e
  BY <1>3, <1>5 DEF Pulled
<1> QED
  BY <1>4, <1>5

(* What a handler has changed belongs to a queued change of its client. *)
LEMMA AppliedIsQueued ==
  ASSUME TypeInv, Known, NEW s \in Session, Answers(s), NEW h \in tx[s].au
  PROVE  \E q \in sent[tx[s].user] :
           /\ q.id = h.id /\ q.ent = h.ent /\ q \in Outbox(tx[s].user)
           /\ q.id \in Ids(tx[s].rc)
<1> USE DEF Known, CalmInv, SerialInv
<1>1. PICK q \in sent[tx[s].user] : q.id = h.id /\ q.ent = h.ent
  BY DEF SentInv
<1>2. q \in Outbox(tx[s].user)
  BY DEF Answers, SentInv, Outbox
<1>3. h.id \in Ids(tx[s].rc)
  BY DEF ReceiptInv, Accepted, Ids
<1> QED
  BY <1>1, <1>2, <1>3

(* The commit that creates a row is that of the one device that made it. *)
LEMMA Created ==
  ASSUME TypeInv, Known, NEW s \in Session, Answers(s), NEW e \in Entity,
         item[e].ver = 0, item'[e].ver # 0
  PROVE  /\ Unheard(tx[s].user, e)
         /\ \E q \in Outbox(tx[s].user) : q.ent = e /\ q.id \in Ids(receipts')
<1> USE DEF Known, CalmInv, SerialInv, PulledInv
<1>1. PICK h \in tx[s].au : h.ent = e
  BY DEF Answers
<1>2. PICK q \in sent[tx[s].user] :
        q.ent = e /\ q \in Outbox(tx[s].user) /\ q.id \in Ids(tx[s].rc)
  BY <1>1, AppliedIsQueued
<1>3. tx[s].user \in Client
  BY DEF Answers
<1>4. row[tx[s].user][e].val # 0 /\ row[tx[s].user][e].ver <= 0
  BY <1>2, <1>3 DEF DeviceInv, CursorInv
<1>5. row[tx[s].user][e] \in LocalRow
  BY <1>3 DEF TypeInv, TypeOK, ClientTypeOK
<1>6. row[tx[s].user][e].ver \in Nat
  BY <1>5 DEF LocalRow
<1>7. q.id \in Ids(receipts')
  BY <1>2 DEF Answers, Ids
<1> QED
  BY <1>2, <1>4, <1>6, <1>7 DEF Unheard

LEMMA FreshKept ==
  ASSUME ~Overlap, MaxFaults = 0, TypeInv, TypeInv', Known, [Next]_vars
  PROVE  FreshInv'
<1> USE DEF Known, CalmInv, SerialInv, PulledInv
<1>0. /\ \A c \in Client : \A e \in Entity : Unheard(c, e) /\ item[e].ver # 0 => Syncing(c)
      /\ \A c, d \in Client : \A e \in Entity : Unheard(c, e) /\ Unheard(d, e) => c = d
  BY DEF FreshInv, Unheard
<1>1. ASSUME NEW c \in Client, NEW d \in Client, NEW e \in Entity,
             Unheard(c, e)', Unheard(d, e)'
      PROVE  c = d
  <2>1. CASE Unheard(c, e) /\ Unheard(d, e)
    BY <1>0, <2>1
  <2>2. ASSUME NEW b \in Client, NEW a \in Client, Unheard(b, e)', Unheard(a, e)',
               Edits(b), \A x \in Client : row[x][e].val = 0, a # b
        PROVE  FALSE
    <3>1. ~Unheard(a, e)
      BY <2>2 DEF Unheard
    <3>2. ~Moves(b) \/ row'[a] = row[a]
      BY <2>2 DEF Moves
    <3>3. row'[a] # row[a]
      BY <2>2, <3>1 DEF Unheard
    <3>4. ~Moves(b)
      BY <3>2, <3>3
    <3>5. pc'[b] = pc[b]
      BY <3>4, Unmoved
    <3> QED
      BY <2>2, <3>5 DEF Edits
  <2> QED
    BY <1>1, <2>1, <2>2, UnheardSteps
<1>2. CASE \E c \in Client : Moves(c)
  <2>1. PICK c \in Client : Moves(c)
    BY <1>2
  <2>2. item' = item /\ receipts' = receipts
    BY <2>1 DEF Moves, engineVars
  <2>3. ASSUME NEW d \in Client, NEW e \in Entity, Unheard(d, e)', item[e].ver # 0
        PROVE  Syncing(d)'
    <3>1. CASE d # c
      BY <1>0, <2>1, <2>3, <3>1 DEF Moves, Unheard, Syncing
    <3>2. CASE d = c
      <4>1. Made(e)
        BY <2>3 DEF TablesInv
      <4>2. Unheard(c, e)
        BY <2>3, <3>2, <4>1, UnheardSteps DEF Made
      <4>3. pc[c] \in {"wait", "requeue", "rewait", "pull"}
        BY <1>0, <2>3, <4>2 DEF Syncing
      <4>4. ~Pulls(c)
        <5>1. SUFFICES ASSUME Pulls(c) PROVE FALSE
          OBVIOUS
        <5>2. CASE item[e].upd > since[c]
          <6>1. row'[c][e].ver = item[e].ver
            BY <4>2, <5>1, <5>2, PullBringsRow DEF Unheard
          <6> QED
            BY <2>3, <3>2, <6>1 DEF Unheard
        <5>3. CASE ~(item[e].upd > since[c])
          <6>1. item[e].upd <= since[c] /\ item[e].ver \in Nat
            BY <5>3 DEF TypeInv, TypeOK, EngineTypeOK, ClientTypeOK, ServerRow
          <6>2. row[c][e].ver >= item[e].ver
            BY <6>1 DEF CursorInv, CursorComplete
          <6> QED
            BY <2>3, <4>2, <6>1, <6>2 DEF Unheard
        <5> QED
          BY <5>2, <5>3
      <4> QED
        BY <2>1, <3>2, <4>3, <4>4 DEF Moves, Edits, Enqueues, Discards, Asks, Requeues,
                                 Finishes, Receives, Syncing, Waiting
    <3> QED
      BY <3>1, <3>2
  <2>4. ASSUME NEW d \in Client, NEW p \in Outbox(d)', p.base = 0, item[p.ent].ver # 0
        PROVE  p.id \in Ids(receipts)
    <3>1. CASE p \in Outbox(d)
      BY <2>4, <3>1 DEF FreshInv
    <3>2. CASE p \notin Outbox(d)
      <4>1. PICK b, new : b \in Client /\ Queues(b, new)
        BY <2>4, <3>2, OutboxGrows DEF OnlyLess
      <4>2. d = b /\ p = new
        BY <2>4, <3>2, <4>1 DEF Queues
      <4>3. CASE \E x \in draft[b] : new.ent = x.ent /\ new.base = row[b][x.ent].ver
        <5>1. PICK x \in draft[b] : new.ent = x.ent /\ new.base = row[b][x.ent].ver
          BY <4>3
        <5>2. x.ent \in Entity
          BY <4>1 DEF TypeInv, TypeOK, ClientTypeOK, Draft
        <5>3. Unheard(b, x.ent) /\ item[x.ent].ver # 0
          BY <2>4, <4>1, <4>2, <5>1 DEF Unheard, DeviceInv
        <5>4. pc[b] = "queue"
          BY <4>1 DEF DraftInv
        <5> QED
          BY <1>0, <4>1, <5>2, <5>3, <5>4 DEF Syncing
      <4>4. CASE \E x \in conf[b] : new.base = x.sv
        BY <2>4, <4>1, <4>2, <4>4 DEF DecidedInv
      <4> QED
        BY <4>1, <4>3, <4>4 DEF Queues
    <3> QED
      BY <3>1, <3>2
  <2> QED
    BY <1>1, <2>2, <2>3, <2>4 DEF FreshInv, Unheard
<1>3. CASE ~(\E c \in Client : Moves(c))
  <2>1. \A c \in Client : Outbox(c)' = Outbox(c) /\ row'[c] = row[c] /\ pc'[c] = pc[c]
    BY <1>3, Unmoved
  <2>2. ASSUME NEW e \in Entity, item[e].ver = 0, item'[e].ver # 0
        PROVE  \E s \in Session : Answers(s)
    BY <1>3, <2>2, CalmDoes DEF Works, vars, engineVars
  <2>3. receipts \subseteq receipts'
    BY <1>3, CalmDoes DEF Works, Answers, vars, engineVars
  <2>4. ASSUME NEW c \in Client, NEW e \in Entity, Unheard(c, e)', item'[e].ver # 0
        PROVE  Syncing(c)'
    <3>1. Unheard(c, e)
      BY <2>1, <2>4 DEF Unheard
    <3>2. CASE item[e].ver # 0
      BY <1>0, <2>1, <3>1, <3>2 DEF Syncing
    <3>3. CASE item[e].ver = 0
      <4>1. PICK s \in Session : Answers(s)
        BY <2>2, <2>4, <3>3
      <4>2. Unheard(tx[s].user, e) /\ tx[s].user \in Client /\ Waiting(tx[s].user)
        BY <2>4, <3>3, <4>1, Created DEF Answers
      <4>3. c = tx[s].user
        BY <1>0, <3>1, <4>2
      <4> QED
        BY <2>1, <4>2, <4>3 DEF Waiting, Syncing
    <3> QED
      BY <3>2, <3>3
  <2>5. ASSUME NEW c \in Client, NEW p \in Outbox(c), p.base = 0, item'[p.ent].ver # 0
        PROVE  p.id \in Ids(receipts')
    <3>1. p \in Change
      BY DEF Outbox, TypeInv, TypeOK, ClientTypeOK
    <3>2. p.ent \in Entity
      BY <3>1 DEF Change
    <3>3. CASE item[p.ent].ver # 0
      <4>1. p.id \in Ids(receipts)
        BY <2>5, <3>3 DEF FreshInv
      <4> QED
        BY <2>3, <4>1 DEF Ids
    <3>4. CASE item[p.ent].ver = 0
      <4>1. PICK s \in Session : Answers(s)
        BY <2>2, <2>5, <3>2, <3>4
      <4>2. /\ Unheard(tx[s].user, p.ent) /\ tx[s].user \in Client
            /\ \E q \in Outbox(tx[s].user) : q.ent = p.ent /\ q.id \in Ids(receipts')
        BY <2>5, <3>2, <3>4, <4>1, Created DEF Answers
      <4>3. row[c][p.ent].val # 0 /\ row[c][p.ent].ver <= 0
        BY <3>2, <3>4 DEF DeviceInv, CursorInv
      <4>4. row[c][p.ent].ver \in Nat
        <5>1. row[c][p.ent] \in LocalRow
          BY <3>2 DEF TypeInv, TypeOK, ClientTypeOK
        <5> QED
          BY <5>1 DEF LocalRow
      <4>5. c = tx[s].user
        BY <1>0, <3>2, <4>2, <4>3, <4>4 DEF Unheard
      <4> QED
        BY <4>2, <4>5 DEF OutboxInv, Tidy
    <3> QED
      BY <3>3, <3>4
  <2> QED
    BY <1>1, <2>1, <2>4, <2>5 DEF FreshInv, Unheard
<1> QED
  BY <1>2, <1>3

(* Versions of the server's rows and of a device's are numbers. *)
LEMMA Versions ==
  ASSUME TypeInv, TypeInv', Known, NEW c \in Client, NEW e \in Entity
  PROVE  /\ item[e].ver \in Nat /\ item'[e].ver \in Nat /\ row[c][e].ver \in Nat
         /\ row[c][e].ver <= item[e].ver
<1>1. item[e] \in ServerRow /\ item'[e] \in ServerRow /\ row[c][e] \in LocalRow
  BY DEF TypeInv, TypeOK, EngineTypeOK, ClientTypeOK
<1>2. row[c][e].ver <= item[e].ver
  BY DEF Known, PulledInv, CursorInv
<1> QED
  BY <1>1, <1>2 DEF ServerRow, LocalRow

LEMMA AcceptedKept ==
  ASSUME ~Overlap, MaxFaults = 0, TypeInv, TypeInv', Known, [Next]_vars
  PROVE  AcceptedInv'
<1> USE DEF Known, CalmInv, SerialInv
<1> DEFINE Above(c, y) ==
             \A x \in y.out : x.status = "accepted" =>
               \A p \in sent'[c] : p.id = x.id =>
                 item'[p.ent].ver = 0 \/ row'[c][p.ent].ver < item'[p.ent].ver
           Told(s) ==
             \A x \in tx'[s].rc : x.status = "accepted" =>
               \/ \E h \in tx'[s].au : h.id = x.id
               \/ \E p \in sent'[tx'[s].user] : p.id = x.id /\ item'[p.ent].ver = 0
<1>1. CASE \E c \in Client : Moves(c)
  <2>1. PICK c \in Client : Moves(c)
    BY <1>1
  <2>2. tx' = tx /\ item' = item
    BY <2>1 DEF Moves, engineVars
  <2>3. ASSUME NEW s \in Session PROVE Told(s)
    <3>1. CASE tx[s].st = "free"
      BY <2>2, <3>1, Rests
    <3>2. CASE tx[s].st # "free"
      <4>1. tx[s].user \in Client \ {c}
        BY <2>1, <3>2, Runs DEF Moves
      <4>2. sent'[tx[s].user] = sent[tx[s].user]
        BY <2>1, <4>1 DEF Moves
      <4> QED
        BY <2>2, <4>2 DEF AcceptedInv
    <3> QED
      BY <3>1, <3>2
  <2>4. ASSUME NEW d \in Client, NEW y \in reply'[d] PROVE Above(d, y)
    <3>1. d # c
      BY <2>1, <2>4 DEF Moves
    <3>2. reply'[d] = reply[d] /\ sent'[d] = sent[d] /\ row'[d] = row[d]
      BY <2>1, <3>1 DEF Moves
    <3> QED
      BY <2>2, <2>4, <3>2 DEF AcceptedInv
  <2> QED
    BY <2>3, <2>4 DEF AcceptedInv
<1>2. ASSUME NEW s \in Session, Works(s) PROVE AcceptedInv'
  <2>1. UNCHANGED <<sent, row, reply, item>>
    BY <1>2 DEF Works, clientVars, tableVars, syncVars
  <2>2. ASSUME NEW t \in Session PROVE Told(t)
    <3>1. CASE t # s
      BY <1>2, <2>1, <3>1 DEF Works, AcceptedInv
    <3>2. CASE t = s /\ tx'[s].rc = {}
      BY <3>2
    <3>3. CASE t = s /\ Ends(s)
      <4>1. ASSUME NEW x \in tx'[s].rc, x.status = "accepted", x \notin tx[s].rc
            PROVE  \/ \E h \in tx'[s].au : h.id = x.id
                   \/ \E p \in sent[tx[s].user] : p.id = x.id /\ item[p.ent].ver = 0
        <5>1. PICK p \in tx[s].todo :
                 /\ x.id = p.id
                 /\ (\E h \in tx'[s].au : h.id = x.id) \/ item[p.ent].ver = 0
          BY <3>3, <4>1 DEF Ends
        <5>2. p \in sent[tx[s].user]
          BY DEF SentInv
        <5> QED
          BY <5>1, <5>2
      <4>2. ASSUME NEW x \in tx[s].rc, x.status = "accepted"
            PROVE  \/ \E h \in tx'[s].au : h.id = x.id
                   \/ \E p \in sent[tx[s].user] : p.id = x.id /\ item[p.ent].ver = 0
        BY <3>3, <4>2 DEF Ends, AcceptedInv
      <4>3. tx'[s].user = tx[s].user
        BY <3>3 DEF Ends
      <4> QED
        BY <2>1, <3>3, <4>1, <4>2, <4>3
    <3> QED
      BY <1>2, <3>1, <3>2, <3>3 DEF Works
  <2>3. \A c \in Client : \A y \in reply'[c] : Above(c, y)
    BY <2>1 DEF AcceptedInv
  <2> QED
    BY <2>2, <2>3 DEF AcceptedInv
<1>3. ASSUME NEW s \in Session, Answers(s) PROVE AcceptedInv'
  <2>1. UNCHANGED <<sent, row>>
    BY <1>3 DEF Answers, clientVars, tableVars, syncVars
  <2>2. \A t \in Session : Told(t)
    BY <1>3 DEF Answers
  <2>3. ASSUME NEW c \in Client, NEW y \in reply'[c], NEW x \in y.out,
               x.status = "accepted", NEW p \in sent[c], p.id = x.id
        PROVE  item'[p.ent].ver = 0 \/ row[c][p.ent].ver < item'[p.ent].ver
    <3>0. p \in Outbox(c)
      BY DEF SentInv, Outbox
    <3>1. p \in Change
      BY <3>0 DEF Outbox, TypeInv, TypeOK, ClientTypeOK
    <3>2. p.ent \in Entity
      BY <3>1 DEF Change
    <3>3. /\ item[p.ent].ver \in Nat /\ item'[p.ent].ver \in Nat
          /\ row[c][p.ent].ver \in Nat /\ row[c][p.ent].ver <= item[p.ent].ver
      BY <3>2, Versions
    <3>4. item'[p.ent] = item[p.ent] \/ item[p.ent].ver < item'[p.ent].ver
      BY <1>3, <3>2 DEF Answers
    <3>5. CASE item[p.ent].ver = 0 \/ row[c][p.ent].ver < item[p.ent].ver
      BY <3>3, <3>4, <3>5
    <3>6. CASE y \in reply[c]
      <4>1. item[p.ent].ver = 0 \/ row[c][p.ent].ver < item[p.ent].ver
        BY <2>3, <3>6 DEF AcceptedInv
      <4> QED
        BY <3>5, <4>1
    <3>7. CASE y \notin reply[c]
      <4>1. c = tx[s].user /\ x \in tx[s].rc
        BY <1>3, <2>3, <3>7 DEF Answers
      <4>2. CASE \E h \in tx[s].au : h.id = x.id
        <5>1. PICK h \in tx[s].au : h.id = x.id
          BY <4>2
        <5>2. PICK q \in sent[c] : q.id = h.id /\ q.ent = h.ent /\ q \in Outbox(c)
          BY <1>3, <4>1, AppliedIsQueued
        <5>3. q = p
          BY <2>3, <3>0, <5>1, <5>2, Sole
        <5>4. item[p.ent].ver < item'[p.ent].ver
          BY <1>3, <5>2, <5>3 DEF Answers
        <5> QED
          BY <3>3, <5>4
      <4>3. CASE \E q \in sent[c] : q.id = x.id /\ item[q.ent].ver = 0
        <5>1. PICK q \in sent[c] : q.id = x.id /\ item[q.ent].ver = 0
          BY <4>3
        <5>2. q \in Outbox(c)
          BY DEF SentInv, Outbox
        <5>3. q = p
          BY <2>3, <3>0, <5>1, <5>2, Sole
        <5> QED
          BY <3>5, <5>1, <5>3
      <4> QED
        BY <2>3, <4>1, <4>2, <4>3 DEF AcceptedInv
    <3> QED
      BY <3>6, <3>7
  <2> QED
    BY <2>1, <2>2, <2>3 DEF AcceptedInv
<1>4. CASE UNCHANGED vars
  BY <1>4 DEF vars, engineVars, clientVars, tableVars, syncVars, netVars, AcceptedInv
<1> QED
  BY <1>1, <1>2, <1>3, <1>4, CalmDoes

LEMMA SeenKept ==
  ASSUME ~Overlap, MaxFaults = 0, TypeInv, TypeInv', Known, [Next]_vars
  PROVE  SeenInv'
<1> USE DEF Known, CalmInv, SerialInv
<1>1. ASSUME NEW c \in Client, NEW e \in Entity,
             row'[c][e].ver = item'[e].ver, item'[e].ver # 0,
             \A d \in draft'[c] : d.ent # e,
             \A p \in Outbox(c)' : p.ent # e
      PROVE  row'[c][e].val = item'[e].val /\ row'[c][e].del = item'[e].del
  <2>0. /\ (/\ row[c][e].ver = item[e].ver /\ item[e].ver # 0
            /\ \A d \in draft[c] : d.ent # e
            /\ \A p \in Outbox(c) : p.ent # e) =>
              row[c][e].val = item[e].val /\ row[c][e].del = item[e].del
        /\ draft[c] # {} => pc[c] = "queue"
        /\ \A d, b \in draft[c] : d = b
        /\ \A d \in draft[c] : d.op = "discard" => row[c][d.ent].ver = 0
    BY DEF SeenInv, DraftInv
  <2>1. CASE Moves(c)
    <3>1. item' = item
      BY <2>1 DEF Moves, engineVars
    <3>2. CASE Edits(c)
      <4>1. PICK f, op :
              /\ f \in Entity
              /\ draft'[c] = {[ent |-> f, op |-> op, val |-> nextId]}
              /\ \A g \in Entity \ {f} : row'[c][g] = row[c][g]
        BY <3>2 DEF Edits
      <4>2. e # f
        BY <1>1, <4>1
      <4>3. Outbox(c)' = Outbox(c) /\ draft[c] = {}
        BY <2>0, <3>2 DEF Edits, Outbox
      <4>4. row'[c][e] = row[c][e]
        BY <4>1, <4>2
      <4> QED
        BY <1>1, <2>0, <3>1, <4>3, <4>4
    <3>3. CASE Enqueues(c) \/ Discards(c)
      <4>1. PICK d \in draft[c] :
              /\ Except(Outbox(c), d.ent) \subseteq Outbox(c)'
              /\ d.op = "discard" \/ \E p \in Outbox(c)' : p.ent = d.ent
        BY <3>3 DEF Enqueues, Discards, Outbox, Except
      <4>2. row'[c] = row[c]
        BY <3>3 DEF Enqueues, Discards
      <4>3. e # d.ent
        BY <1>1, <2>0, <3>1, <4>1, <4>2
      <4>4. (\A b \in draft[c] : b.ent # e) /\ (\A p \in Outbox(c) : p.ent # e)
        BY <1>1, <2>0, <4>1, <4>3 DEF Except
      <4> QED
        BY <1>1, <2>0, <3>1, <4>2, <4>4
    <3>4. CASE Requeues(c)
      <4>1. PICK p \in Outbox(c) : /\ Except(Outbox(c), p.ent) \subseteq Outbox(c)'
                                   /\ \E new \in Outbox(c)' : new.ent = p.ent
        BY <3>4 DEF Requeues, Outbox, Except
      <4>2. row'[c] = row[c] /\ draft'[c] = draft[c]
        BY <3>4 DEF Requeues
      <4>3. \A q \in Outbox(c) : q.ent # e
        BY <1>1, <4>1 DEF Except
      <4> QED
        BY <1>1, <2>0, <3>1, <4>2, <4>3
    <3>5. CASE Asks(c) \/ Finishes(c)
      <4>1. row'[c] = row[c] /\ draft'[c] = draft[c] /\ Outbox(c)' = Outbox(c)
        BY <3>5 DEF Asks, Finishes, Outbox
      <4> QED
        BY <1>1, <2>0, <3>1, <4>1
    <3>6. CASE Pulls(c)
      <4>1. draft'[c] = draft[c] /\ Outbox(c)' = Outbox(c)
        BY <3>6 DEF Pulls, Outbox
      <4>2. ~\E p \in pending[c] : p.ent = e
        BY <1>1, <4>1 DEF Outbox
      <4>3. CASE item[e].upd > since[c]
        <5>1. row'[c][e] = [ver |-> item[e].ver, val |-> item[e].val, del |-> item[e].del]
          BY <3>6, <4>2, <4>3, PulledShows
        <5> QED
          BY <3>1, <5>1
      <4>4. CASE ~(item[e].upd > since[c])
        <5>1. row'[c][e] = row[c][e]
          BY <3>6, <4>4, PulledShows
        <5> QED
          BY <1>1, <2>0, <3>1, <4>1, <5>1
      <4> QED
        BY <4>3, <4>4
    <3>7. CASE Receives(c)
      <4>1. row'[c] = row[c] /\ draft'[c] = draft[c]
        BY <3>7 DEF Receives
      <4>2. ASSUME NEW p \in Outbox(c), p.ent = e PROVE FALSE
        <5>1. p \notin Outbox(c)'
          BY <1>1, <4>2
        <5>2. p \in sent[c] /\ \E y \in reply[c] : \E x \in y.out :
                x.id = p.id /\ x.status = "accepted"
          BY <3>7, <5>1, Cleared
        <5>3. item[e].ver = 0 \/ row[c][e].ver < item[e].ver
          BY <4>2, <5>2 DEF AcceptedInv
        <5>4. item[e].ver \in Nat /\ row[c][e].ver \in Nat
          BY Versions
        <5> QED
          BY <1>1, <3>1, <4>1, <5>3, <5>4
      <4> QED
        BY <1>1, <2>0, <3>1, <4>1, <4>2
    <3> QED
      BY <2>1, <3>2, <3>3, <3>4, <3>5, <3>6, <3>7 DEF Moves
  <2>2. CASE ~Moves(c)
    <3>1. row'[c] = row[c] /\ draft'[c] = draft[c] /\ Outbox(c)' = Outbox(c)
      BY <2>2, Unmoved
    <3>2. CASE item'[e] = item[e]
      BY <1>1, <2>0, <3>1, <3>2
    <3>3. CASE item'[e] # item[e]
      <4>1. PICK s \in Session : Answers(s)
        <5>1. ~\E d \in Client : Moves(d)
          BY <3>3 DEF Moves, engineVars
        <5>2. ~(\E s \in Session : Works(s)) /\ ~UNCHANGED vars
          BY <3>3 DEF Works, vars, engineVars
        <5> QED
          BY <5>1, <5>2, CalmDoes
      <4>2. item[e].ver < item'[e].ver
        BY <3>3, <4>1 DEF Answers
      <4>3. /\ item[e].ver \in Nat /\ item'[e].ver \in Nat /\ row[c][e].ver \in Nat
            /\ row[c][e].ver <= item[e].ver
        BY Versions
      <4> QED
        BY <1>1, <3>1, <4>2, <4>3
    <3> QED
      BY <3>2, <3>3
  <2> QED
    BY <2>1, <2>2
<1> QED
  BY <1>1 DEF SeenInv

-----------------------------------------------------------------------------
LEMMA CalmAlways ==
  ASSUME ~Overlap, MaxFaults = 0
  PROVE  Spec => []Known
<1>1. Init => CalmInv
  <2> SUFFICES ASSUME Init PROVE CalmInv
    OBVIOUS
  <2>1. /\ \A s \in Session : tx[s] = FreeHandler
        /\ item = [e \in Entity |-> NoRow] /\ late = {} /\ audit = {} /\ receipts = {}
        /\ row = [c \in Client |-> [e \in Entity |-> NoLocal]]
        /\ \A c \in Client : /\ pending[c] = {} /\ blocked[c] = {} /\ Outbox(c) = {}
                             /\ reply[c] = {} /\ sent[c] = {}
                             /\ draft[c] = {} /\ conf[c] = {}
    BY DEF Init, EngineInit, ClientInit, Outbox
  <2>2. \A s \in Session : /\ tx[s].st = "free" /\ tx[s].dup = {} /\ tx[s].todo = {}
                           /\ tx[s].rc = {} /\ tx[s].au = {} /\ tx[s] = FreeHandler
    <3>1. /\ FreeHandler.st = "free" /\ FreeHandler.dup = {} /\ FreeHandler.todo = {}
          /\ FreeHandler.rc = {} /\ FreeHandler.au = {}
      BY DEF FreeHandler
    <3> QED
      BY <2>1, <3>1
  <2>3. SentInv /\ EntriesInv /\ DecidedInv
    BY <2>1, <2>2 DEF SentInv, EntriesInv, DecidedInv
  <2>4. \A e \in Entity : item[e].ver = 0
    BY <2>1 DEF NoRow
  <2>5. \A c \in Client : \A e \in Entity : row[c][e].val = 0
    BY <2>1 DEF NoLocal
  <2>6. FreshInv /\ DraftInv /\ SeenInv
    BY <2>1, <2>4, <2>5 DEF FreshInv, DraftInv, SeenInv
  <2>7. ShownInv /\ AcceptedInv
    BY <2>1, <2>2 DEF ShownInv, AcceptedInv
  <2> QED
    BY <2>3, <2>6, <2>7 DEF CalmInv
<1>2. Known /\ SerialInv' /\ [Next]_vars => CalmInv'
  <2> SUFFICES ASSUME Known, SerialInv', [Next]_vars PROVE CalmInv'
    OBVIOUS
  <2>1. TypeInv /\ TypeInv'
    BY DEF Known, SerialInv
  <2>2. SentInv' /\ EntriesInv' /\ DecidedInv'
    BY <2>1, SentKept, EntriesKept, DecidedKept
  <2>3. FreshInv' /\ DraftInv'
    BY <2>1, FreshKept, DraftKept
  <2>4. ShownInv' /\ AcceptedInv' /\ SeenInv'
    BY <2>1, ShownKept, AcceptedKept, SeenKept
  <2> QED
    BY <2>2, <2>3, <2>4 DEF CalmInv
<1> QED
  BY <1>1, <1>2, PulledAlways, ExchangeAlways, PTL DEF Spec, Known

(* Without failures, a pull never hides an edit that waits in the outbox. *)
THEOREM EditsStayVisible ==
  ASSUME ~Overlap, MaxFaults = 0
  PROVE  Spec => []PendingShown
<1>1. Known => PendingShown
  BY DEF Known, CalmInv, ShownInv, PendingShown
<1> QED
  BY <1>1, CalmAlways, PTL

(* Without failures, a row that the cursor has passed and that has no      *)
(* queued change is shown as the server has it, deletions included.        *)
THEOREM SeenRowsAreShown ==
  ASSUME ~Overlap, MaxFaults = 0
  PROVE  Spec => []SeenIsShown
<1>1. Known => SeenIsShown
  <2> SUFFICES ASSUME Known, NEW c \in Client, NEW e \in Entity,
                      item[e].upd \in 1 .. since[c], draft[c] = {},
                      \A p \in Outbox(c) : p.ent # e
               PROVE  row[c][e] = [ver |-> item[e].ver, val |-> item[e].val,
                                   del |-> item[e].del]
    BY DEF SeenIsShown
  <2> USE DEF Known, CalmInv, SerialInv, PulledInv
  <2>1. item[e] \in ServerRow /\ row[c][e] \in LocalRow /\ since[c] \in Nat
    BY DEF TypeInv, TypeOK, EngineTypeOK, ClientTypeOK
  <2>2. item[e].ver \in Nat /\ item[e].upd \in Nat /\ row[c][e].ver \in Nat
    BY <2>1 DEF ServerRow, LocalRow
  <2>3. item[e].upd <= since[c] /\ item[e].upd # 0
    BY <2>1, <2>2
  <2>4. item[e].ver # 0
    BY <2>3 DEF TablesInv
  <2>5. row[c][e].ver >= item[e].ver /\ row[c][e].ver <= item[e].ver
    BY <2>3 DEF CursorInv, CursorComplete
  <2>6. row[c][e].ver = item[e].ver
    BY <2>2, <2>5
  <2>7. row[c][e].val = item[e].val /\ row[c][e].del = item[e].del
    BY <2>4, <2>6 DEF SeenInv
  <2> QED
    BY <2>1, <2>6, <2>7 DEF LocalRow
<1> QED
  BY <1>1, CalmAlways, PTL

(* Without failures, the server has never heard of a row that a device     *)
(* drops as deleted before its first sync.                                 *)
THEOREM DiscardsLoseNothing ==
  ASSUME ~Overlap, MaxFaults = 0
  PROVE  Spec => []DiscardIsNoOp
<1>1. Known => DiscardIsNoOp
  <2> SUFFICES ASSUME Known, NEW c \in Client, NEW d \in draft[c], d.op = "discard"
               PROVE  item[d.ent].ver = 0
    BY DEF DiscardIsNoOp
  <2> USE DEF Known, CalmInv, SerialInv, PulledInv
  <2>1. d \in Draft
    BY DEF TypeInv, TypeOK, ClientTypeOK
  <2>2. d.ent \in Entity
    BY <2>1 DEF Draft
  <2>3. row[c][d.ent].ver = 0 /\ pc[c] = "queue"
    BY DEF DraftInv
  <2>4. row[c][d.ent].val # 0
    BY DEF DeviceInv
  <2> QED
    BY <2>2, <2>3, <2>4 DEF FreshInv, Syncing
<1> QED
  BY <1>1, CalmAlways, PTL

(* Without failures, a push clears from the outbox only what the server    *)
(* has accepted.                                                           *)
THEOREM NothingDroppedSilently ==
  ASSUME ~Overlap, MaxFaults = 0
  PROVE  Spec => NoSilentDrop
<1> DEFINE Drops ==
             \A c \in Client : pc[c] \in {"wait", "rewait"} =>
               \A p \in Outbox(c) \ Outbox(c)' :
                 \E x \in receipts : x.id = p.id /\ x.status = "accepted"
<1>1. Known /\ [Next]_vars => Drops
  <2> SUFFICES ASSUME Known, [Next]_vars, NEW c \in Client, Waiting(c),
                      NEW p \in Outbox(c), p \notin Outbox(c)'
               PROVE  \E x \in receipts : x.id = p.id /\ x.status = "accepted"
    BY DEF Waiting
  <2>1. TypeInv
    BY DEF Known, SerialInv
  <2>2. Moves(c)
    BY <2>1, Unmoved
  <2>3. Receives(c)
    BY <2>2 DEF Moves
  <2>4. PICK y \in reply[c] : \E x \in y.out : x.id = p.id /\ x.status = "accepted"
    BY <2>1, <2>3, Cleared
  <2>5. y.out \subseteq receipts
    BY <2>4 DEF Known, ExchangeInv, ReplyOK
  <2> QED
    BY <2>4, <2>5
<1>2. Spec => [][Drops]_vars
  <2> HIDE DEF Drops
  <2> QED
    BY <1>1, CalmAlways, PTL DEF Spec
<1> QED
  BY <1>2 DEF NoSilentDrop

==============================================================================
