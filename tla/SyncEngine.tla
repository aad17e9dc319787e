----------------------------- MODULE SyncEngine -----------------------------
(***************************************************************************)
(* The push handler of the server, riskapp_server/sync/engine.py, at the   *)
(* grain of its SQL statements.  Requests are served by worker threads,    *)
(* one database session each, so handlers overlap; the database (READ      *)
(* COMMITTED) shows a handler the committed rows and its own writes, makes *)
(* a second writer of a row wait for the first, and enforces the primary   *)
(* key of sync_receipts.                                                   *)
(*                                                                         *)
(*   item, receipts, audit   the committed tables                          *)
(*   clock                   how many updated_at stamps were drawn         *)
(*   tx[s]                   the handler run by session s: its user, the   *)
(*                           changes left to process, the row it has read  *)
(*                           and not yet used, and its uncommitted writes  *)
(***************************************************************************)
EXTENDS SyncTypes

CONSTANTS
  Session,  \* database sessions that can be open at once
  Overlap   \* FALSE: a handler starts only when no other one is running

ASSUME SyncEngineAssumption == Overlap \in BOOLEAN

VARIABLES item, receipts, audit, clock, tx

engineVars == <<item, receipts, audit, clock, tx>>

(* live: the client is still waiting for this handler's answer. *)
Handler ==
  [st : {"free", "ready", "read"}, user : Client \cup {None}, live : BOOLEAN,
   todo : SUBSET Change, dup : SUBSET Nat, seen : ServerRow,
   wr : [Entity -> ServerRow], rc : SUBSET Receipt, au : SUBSET AuditRow]

FreeHandler ==
  [st |-> "free", user |-> None, live |-> FALSE, todo |-> {}, dup |-> {},
   seen |-> NoRow, wr |-> [e \in Entity |-> NoRow], rc |-> {}, au |-> {}]

EngineTypeOK ==
  /\ item \in [Entity -> ServerRow]
  /\ receipts \in SUBSET Receipt
  /\ audit \in SUBSET AuditRow
  /\ clock \in Nat
  /\ tx \in [Session -> Handler]

EngineInit ==
  /\ item = [e \in Entity |-> NoRow]
  /\ receipts = {}
  /\ audit = {}
  /\ clock = 0
  /\ tx = [s \in Session |-> FreeHandler]

-----------------------------------------------------------------------------
(* What a session sees and what makes it wait. *)

Quiescent == \A t \in Session : tx[t].st = "free"

(* The row as session s reads it: its own write, else the committed row. *)
Current(s, e) == IF tx[s].wr[e].ver # 0 THEN tx[s].wr[e] ELSE item[e]

RowFree(s, e) == \A t \in Session \ {s} : tx[t].wr[e].ver = 0

(* Mutant of ReceiptFree: the key only keeps open transactions apart. *)
ReceiptFreeOfOpen(id) == \A t \in Session : id \notin Ids(tx[t].rc)

(* No row with this key in sync_receipts, committed or not: the insert     *)
(* neither waits nor fails.                                                *)
ReceiptFree(id) ==
  /\ id \notin Ids(receipts)
  /\ \A t \in Session : id \notin Ids(tx[t].rc)

MinRank(ch) == IF ch.op = "upsert" THEN Member ELSE Manager

Allowed(s, ch) == Role[tx[s].user] >= MinRank(ch)

TargetExists(s, ch) ==
  Parent[ch.ent] # None => Current(s, Parent[ch.ent]).ver # 0

Mismatch(s, ch) ==
  tx[s].seen.ver # 0 /\ ch.base # 0 /\ ch.base # tx[s].seen.ver

(* The change has passed every check and a row is about to be flushed. *)
Admitted(s, ch) ==
  /\ ~Mismatch(s, ch)
  /\ IF ch.op = "delete" THEN tx[s].seen.ver # 0 ELSE TargetExists(s, ch)

(* Mutant of Turn: the changes of a request are taken in any order. *)
TurnInAnyOrder(s, ch, st) == tx[s].st = st /\ ch \in tx[s].todo

(* Changes are processed in the order of the request. *)
Turn(s, ch, st) ==
  /\ tx[s].st = st
  /\ ch \in tx[s].todo
  /\ \A o \in tx[s].todo : ch.id <= o.id

(* The end of a change that writes no row of its own: only a receipt. *)
Record(s, ch, status, sv) ==
  /\ ReceiptFree(ch.id)
  /\ tx' = [tx EXCEPT ![s] =
              [tx[s] EXCEPT !.st = "ready", !.todo = @ \ {ch}, !.seen = NoRow,
                        !.rc = @ \cup {[id |-> ch.id, user |-> tx[s].user,
                                        status |-> status, sv |-> sv]}]]
  /\ UNCHANGED <<item, receipts, audit, clock>>

(* The end of an applied change: the row, its audit row and the receipt    *)
(* are flushed together in one savepoint.                                  *)
Write(s, ch, new) ==
  /\ RowFree(s, ch.ent)
  /\ ReceiptFree(ch.id)
  /\ clock' = clock + 1
  /\ tx' = [tx EXCEPT ![s] =
              [tx[s] EXCEPT !.st = "ready", !.todo = @ \ {ch}, !.seen = NoRow,
                        !.wr = [tx[s].wr EXCEPT ![ch.ent] = new],
                        !.rc = @ \cup {[id |-> ch.id, user |-> tx[s].user,
                                        status |-> "accepted", sv |-> 0]},
                        !.au = @ \cup {[id |-> ch.id, user |-> tx[s].user,
                                        ent |-> ch.ent, base |-> ch.base,
                                        val |-> ch.val,
                                        before |-> tx[s].seen.ver,
                                        after |-> new.ver]}]]
  /\ UNCHANGED <<item, receipts, audit>>

-----------------------------------------------------------------------------
(* The handler's steps. *)

(* The handler starts: it looks up which change ids this user has already  *)
(* been answered, and will skip those.                                     *)
BeginPush(s, u, batch, live) ==
  LET known == {r.id : r \in {x \in receipts : x.user = u}}
  IN /\ tx[s].st = "free"
     /\ Overlap \/ Quiescent
     /\ tx' = [tx EXCEPT ![s] =
                 [FreeHandler EXCEPT
                    !.st = "ready", !.user = u, !.live = live,
                    !.todo = {ch \in batch : ch.id \notin known},
                    !.dup = Ids(batch) \cap known]]
     /\ UNCHANGED <<item, receipts, audit, clock>>

(* insufficient_permissions *)
Refuse(s, ch) ==
  /\ Turn(s, ch, "ready")
  /\ ~Allowed(s, ch)
  /\ Record(s, ch, "error", 0)

(* _fetch_obj: the row is read here and decided on in a later step. *)
Fetch(s, ch) ==
  /\ Turn(s, ch, "ready")
  /\ Allowed(s, ch)
  /\ tx' = [tx EXCEPT ![s] = [tx[s] EXCEPT !.st = "read",
                                           !.seen = Current(s, ch.ent)]]
  /\ UNCHANGED <<item, receipts, audit, clock>>

(* _check_base_version raises: the client edited an older version. *)
Conflict(s, ch) ==
  /\ Turn(s, ch, "read")
  /\ Mismatch(s, ch)
  /\ Record(s, ch, "conflict", tx[s].seen.ver)

(* _validate_relationships raises "Target not found in project". *)
RejectTarget(s, ch) ==
  /\ Turn(s, ch, "read")
  /\ ch.op # "delete"
  /\ ~Mismatch(s, ch)
  /\ ~TargetExists(s, ch)
  /\ Record(s, ch, "error", 0)

(* _create_new.  A status=deleted record creates a row that is deleted. *)
Insert(s, ch) ==
  /\ Turn(s, ch, "read")
  /\ ch.op # "delete" /\ Admitted(s, ch)
  /\ tx[s].seen.ver = 0
  /\ Current(s, ch.ent).ver = 0
  /\ Write(s, ch, [ver |-> 1, val |-> ch.val, del |-> ch.op = "retire",
                   upd |-> clock + 1])

(* Another handler has inserted the row since it was looked for: the flush *)
(* fails on the primary key and the change is answered "exception".        *)
InsertClash(s, ch) ==
  /\ Turn(s, ch, "read")
  /\ ch.op # "delete" /\ Admitted(s, ch)
  /\ tx[s].seen.ver = 0
  /\ RowFree(s, ch.ent)
  /\ Current(s, ch.ent).ver # 0
  /\ Record(s, ch, "error", 0)

(* Mutant of Update: the version is counted from what the client sent. *)
UpdateFromBase(s, ch) ==
  /\ Turn(s, ch, "read")
  /\ ch.op # "delete" /\ Admitted(s, ch)
  /\ tx[s].seen.ver # 0
  /\ Write(s, ch, [ver |-> ch.base + (IF ch.op = "retire" THEN 2 ELSE 1),
                   val |-> ch.val,
                   del |-> ch.op = "retire" \/ Current(s, ch.ent).del,
                   upd |-> clock + 1])

(* Mutant of Update: an edit revives a deleted row. *)
UpdateRevives(s, ch) ==
  /\ Turn(s, ch, "read")
  /\ ch.op # "delete" /\ Admitted(s, ch)
  /\ tx[s].seen.ver # 0
  /\ Write(s, ch,
           [ver |-> tx[s].seen.ver + (IF ch.op = "retire" THEN 2 ELSE 1),
            val |-> ch.val, del |-> ch.op = "retire", upd |-> clock + 1])

(* _update_existing.  The new version is computed from the row that was    *)
(* read; the UPDATE leaves the columns alone that the change does not set, *)
(* is_deleted among them, so an accepted edit never revives a row.         *)
Update(s, ch) ==
  /\ Turn(s, ch, "read")
  /\ ch.op # "delete" /\ Admitted(s, ch)
  /\ tx[s].seen.ver # 0
  /\ Write(s, ch,
           [ver |-> tx[s].seen.ver + (IF ch.op = "retire" THEN 2 ELSE 1),
            val |-> ch.val,
            del |-> ch.op = "retire" \/ Current(s, ch.ent).del,
            upd |-> clock + 1])

(* soft_delete *)
SoftDelete(s, ch) ==
  /\ Turn(s, ch, "read")
  /\ ch.op = "delete" /\ Admitted(s, ch)
  /\ Write(s, ch, [ver |-> tx[s].seen.ver + 1, val |-> Current(s, ch.ent).val,
                   del |-> TRUE, upd |-> clock + 1])

(* A delete of a row the server does not have is accepted and does         *)
(* nothing.                                                                *)
DeleteMissing(s, ch) ==
  /\ Turn(s, ch, "read")
  /\ ch.op = "delete"
  /\ tx[s].seen.ver = 0
  /\ Record(s, ch, "accepted", 0)

(* The flush waits for another handler's row lock until the database gives *)
(* up on it (statement timeout, deadlock victim): answered "exception".    *)
LockFailure(s, ch) ==
  /\ Turn(s, ch, "read")
  /\ Admitted(s, ch)
  /\ ~RowFree(s, ch.ent)
  /\ Record(s, ch, "error", 0)

ProcessChange(s) ==
  \E ch \in tx[s].todo :
    \/ Refuse(s, ch)
    \/ Fetch(s, ch)
    \/ Conflict(s, ch)
    \/ RejectTarget(s, ch)
    \/ Insert(s, ch)
    \/ InsertClash(s, ch)
    \/ Update(s, ch)
    \/ SoftDelete(s, ch)
    \/ DeleteMissing(s, ch)
    \/ LockFailure(s, ch)

(* The single commit of the batch. *)
CommitPush(s) ==
  /\ tx[s].st = "ready"
  /\ tx[s].todo = {}
  /\ item' = [e \in Entity |-> Current(s, e)]
  /\ receipts' = receipts \cup tx[s].rc
  /\ audit' = audit \cup tx[s].au
  /\ tx' = [tx EXCEPT ![s] = FreeHandler]
  /\ UNCHANGED clock

(* The handler raises or its process dies: the session rolls back. *)
RollbackPush(s) ==
  /\ tx[s].st # "free"
  /\ tx' = [tx EXCEPT ![s] = FreeHandler]
  /\ UNCHANGED <<item, receipts, audit, clock>>

(* The change about to be recorded was answered by an earlier handler that *)
(* committed after this one looked: its receipt cannot be inserted, nor    *)
(* the error receipt in its place, and the request fails as a whole.       *)
ReceiptClash(s) ==
  \E ch \in tx[s].todo : Turn(s, ch, tx[s].st) /\ ch.id \in Ids(receipts)
=============================================================================
