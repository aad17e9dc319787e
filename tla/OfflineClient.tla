---------------------------- MODULE OfflineClient ----------------------------
(***************************************************************************)
(* The offline-first client (riskapp_client): the local SQLite rows, the   *)
(* outbox table and one run of SyncService.sync_project.                   *)
(*                                                                         *)
(*   row[c][e]     the local row of e; val = 0 means that there is none    *)
(*   pending[c]    outbox rows with status pending                         *)
(*   blocked[c]    outbox rows with status blocked                         *)
(*   since[c]      sync_state.last_server_time                             *)
(*   nextId        the next unused uuid                                    *)
(*   pc[c]         where the single thread of the client stands: the user  *)
(*                 interface calls sync_project synchronously, so nothing  *)
(*                 is edited while a sync runs                             *)
(*   draft[c]      an edit written to the row and not yet to the outbox    *)
(*   sent[c]       the batch of the push request in flight                 *)
(*   conf[c]       conflicts still to be requeued                          *)
(*   again[c]      change ids made by requeueing in this sync              *)
(*   mark[c]       server_time of a pull whose rows have been applied      *)
(*                                                                         *)
(* Change ids and created_at are drawn together, so the order of ids is    *)
(* the order of created_at within one outbox.                              *)
(***************************************************************************)
EXTENDS SyncTypes

CONSTANT BatchLimit  \* changes per push request (100 in sync_project)

ASSUME OfflineClientAssumption == BatchLimit \in Nat \ {0}

VARIABLES row, pending, blocked, since, nextId, pc, draft, sent, conf, again, mark

tableVars == <<row, pending, blocked, since, nextId>>
syncVars  == <<pc, draft, sent, conf, again, mark>>
clientVars == <<tableVars, syncVars>>

LocalRow == [ver : Nat, val : Nat, del : BOOLEAN]
NoLocal  == [ver |-> 0, val |-> 0, del |-> FALSE]

Draft == [ent : Entity, op : Op \cup {"discard"}, val : Nat]

Place == {"idle", "queue", "wait", "requeue", "rewait", "pull", "stamp"}

ClientTypeOK ==
  /\ row \in [Client -> [Entity -> LocalRow]]
  /\ pending \in [Client -> SUBSET Change]
  /\ blocked \in [Client -> SUBSET Change]
  /\ since \in [Client -> Nat]
  /\ nextId \in Nat
  /\ pc \in [Client -> Place]
  /\ draft \in [Client -> SUBSET Draft]
  /\ sent \in [Client -> SUBSET Change]
  /\ conf \in [Client -> SUBSET Receipt]
  /\ again \in [Client -> SUBSET Nat]
  /\ mark \in [Client -> Nat]

ClientInit ==
  /\ row = [c \in Client |-> [e \in Entity |-> NoLocal]]
  /\ pending = [c \in Client |-> {}]
  /\ blocked = [c \in Client |-> {}]
  /\ since = [c \in Client |-> 0]
  /\ nextId = 1
  /\ pc = [c \in Client |-> "idle"]
  /\ draft = [c \in Client |-> {}]
  /\ sent = [c \in Client |-> {}]
  /\ conf = [c \in Client |-> {}]
  /\ again = [c \in Client |-> {}]
  /\ mark = [c \in Client |-> 0]

-----------------------------------------------------------------------------
(* The outbox table. *)

Outbox(c) == pending[c] \cup blocked[c]

Except(S, e) == {p \in S : p.ent # e}

(* Mutant of ReplaceEntry: the squash looks at pending entries only. *)
ReplacePendingEntry(c, e, op, base, val) ==
  /\ pending' = [pending EXCEPT
       ![c] = Except(@, e) \cup {[id |-> nextId, ent |-> e, op |-> op,
                                  base |-> base, val |-> val]}]
  /\ UNCHANGED blocked

(* Mutant of ReplaceEntry: a blocked entry is rewritten and stays blocked. *)
ReplaceKeepingStatus(c, e, op, base, val) ==
  LET new == {[id |-> nextId, ent |-> e, op |-> op, base |-> base, val |-> val]}
      was == \E p \in blocked[c] : p.ent = e
  IN /\ pending' = [pending EXCEPT
                      ![c] = Except(@, e) \cup (IF was THEN {} ELSE new)]
     /\ blocked' = [blocked EXCEPT
                      ![c] = Except(@, e) \cup (IF was THEN new ELSE {})]

(* _replace_outbox_entry: every entry of the entity makes way for a new    *)
(* pending one.                                                            *)
ReplaceEntry(c, e, op, base, val) ==
  /\ pending' = [pending EXCEPT
       ![c] = Except(@, e) \cup {[id |-> nextId, ent |-> e, op |-> op,
                                  base |-> base, val |-> val]}]
  /\ blocked' = [blocked EXCEPT ![c] = Except(@, e)]

(* get_pending_changes: the oldest entries, at most BatchLimit. *)
OldestPending(c) ==
  {p \in pending[c] : Cardinality({q \in pending[c] : q.id < p.id}) < BatchLimit}

-----------------------------------------------------------------------------
(* What the user does.  Each operation is two commits: the local row first *)
(* (these actions), the outbox entry second (Enqueue, Discard).            *)

Listed(c, e) == row[c][e].val # 0 /\ ~row[c][e].del

StartEdit(c, e, r, op) ==
  /\ pc[c] = "idle"
  /\ row' = [row EXCEPT ![c][e] = r]
  /\ draft' = [draft EXCEPT ![c] = {[ent |-> e, op |-> op, val |-> nextId]}]
  /\ pc' = [pc EXCEPT ![c] = "queue"]
  /\ nextId' = nextId + 1
  /\ UNCHANGED <<pending, blocked, since, sent, conf, again, mark>>

(* create_risk, create_opportunity, create_action: a row with a new uuid,  *)
(* which no device has; an action is attached to a row in the list.        *)
CreateRow(c, e) ==
  /\ \A d \in Client : row[d][e].val = 0
  /\ Parent[e] # None => Listed(c, Parent[e])
  /\ StartEdit(c, e, [ver |-> 0, val |-> nextId, del |-> FALSE], "upsert")

(* update_risk, update_opportunity, update_action *)
EditRow(c, e) ==
  /\ Listed(c, e)
  /\ StartEdit(c, e, [row[c][e] EXCEPT !.val = nextId], "upsert")

(* update_risk, update_opportunity with status=deleted: the local row      *)
(* stays in the list.                                                      *)
RetireRow(c, e) ==
  /\ Listed(c, e)
  /\ Parent[e] = None
  /\ StartEdit(c, e, [row[c][e] EXCEPT !.val = nextId], "retire")

(* Mutant of RemoveRow: a row synced once is taken for one never synced. *)
RemoveRowOffByOne(c, e) ==
  /\ Listed(c, e)
  /\ Parent[e] = None
  /\ StartEdit(c, e, [row[c][e] EXCEPT !.del = TRUE],
               IF row[c][e].ver <= 1 THEN "discard" ELSE "delete")

(* delete_risk, delete_opportunity: a row never synced (version < 1) is    *)
(* taken out of the outbox instead of being deleted on the server.         *)
RemoveRow(c, e) ==
  /\ Listed(c, e)
  /\ Parent[e] = None
  /\ StartEdit(c, e, [row[c][e] EXCEPT !.del = TRUE],
               IF row[c][e].ver < 1 THEN "discard" ELSE "delete")

(* The second commit: queue_*_upsert, queue_*_delete, which record the     *)
(* local version as base_version.                                          *)
Enqueue(c) ==
  /\ pc[c] = "queue"
  /\ \E d \in draft[c] :
       /\ d.op # "discard"
       /\ ReplaceEntry(c, d.ent, d.op, row[c][d.ent].ver, d.val)
  /\ nextId' = nextId + 1
  /\ draft' = [draft EXCEPT ![c] = {}]
  /\ pc' = [pc EXCEPT ![c] = "idle"]
  /\ UNCHANGED <<row, since, sent, conf, again, mark>>

(* The second commit: discard_entity_changes. *)
Discard(c) ==
  /\ pc[c] = "queue"
  /\ \E d \in draft[c] :
       /\ d.op = "discard"
       /\ pending' = [pending EXCEPT ![c] = Except(@, d.ent)]
       /\ blocked' = [blocked EXCEPT ![c] = Except(@, d.ent)]
  /\ draft' = [draft EXCEPT ![c] = {}]
  /\ pc' = [pc EXCEPT ![c] = "idle"]
  /\ UNCHANGED <<row, since, nextId, sent, conf, again, mark>>

-----------------------------------------------------------------------------
(* sync_project *)

(* The batch is read and the push request goes out, or the pull follows at *)
(* once when there is nothing to push.                                     *)
StartSync(c) ==
  LET batch == OldestPending(c)
  IN /\ pc[c] = "idle"
     /\ sent' = [sent EXCEPT ![c] = batch]
     /\ pc' = [pc EXCEPT ![c] = IF batch = {} THEN "pull" ELSE "wait"]
     /\ UNCHANGED <<tableVars, draft, conf, again, mark>>

WithStatus(r, status) == {x \in r.out : x.status = status}

(* Mutants of Clear: what the server calls a duplicate stays queued; only  *)
(* errors count as not processed.                                          *)
ClearKeepsDuplicates(c, r, B) ==
  LET unprocessed == Ids(WithStatus(r, "conflict")) \cup Ids(WithStatus(r, "error"))
      done    == (Ids(sent[c]) \ unprocessed) \ r.dup
      left(S) == {p \in S : p.id \notin done}
  IN /\ pending' = [pending EXCEPT ![c] = {p \in left(@) : p.id \notin B}]
     /\ blocked' = [blocked EXCEPT
                      ![c] = left(@) \cup {p \in left(pending[c]) : p.id \in B}]

ClearDropsConflicts(c, r, B) ==
  LET done    == (Ids(sent[c]) \ Ids(WithStatus(r, "error"))) \cup r.dup
      left(S) == {p \in S : p.id \notin done}
  IN /\ pending' = [pending EXCEPT ![c] = {p \in left(@) : p.id \notin B}]
     /\ blocked' = [blocked EXCEPT
                      ![c] = left(@) \cup {p \in left(pending[c]) : p.id \in B}]

(* What _process_push does to the outbox on answer r: whatever was sent    *)
(* and is neither a conflict nor an error leaves it, and so do the         *)
(* duplicates, in one commit; then the entries of B are blocked.           *)
Clear(c, r, B) ==
  LET unprocessed == Ids(WithStatus(r, "conflict")) \cup Ids(WithStatus(r, "error"))
      done    == (Ids(sent[c]) \ unprocessed) \cup r.dup
      left(S) == {p \in S : p.id \notin done}
  IN /\ pending' = [pending EXCEPT ![c] = {p \in left(@) : p.id \notin B}]
     /\ blocked' = [blocked EXCEPT
                      ![c] = left(@) \cup {p \in left(pending[c]) : p.id \in B}]

(* Errors are blocked, conflicts only when block_conflicts says so. *)
ToBlock(r, block) ==
  Ids(WithStatus(r, "error")) \cup (IF block THEN Ids(WithStatus(r, "conflict")) ELSE {})

ProcessPush(c, r, block) == Clear(c, r, ToBlock(r, block))

(* The first answer: conflicts are kept to be requeued. *)
HandleAnswer(c, r) ==
  /\ pc[c] = "wait"
  /\ ProcessPush(c, r, FALSE)
  /\ conf' = [conf EXCEPT ![c] = WithStatus(r, "conflict")]
  /\ sent' = [sent EXCEPT ![c] = {}]
  /\ pc' = [pc EXCEPT ![c] = "requeue"]
  /\ UNCHANGED <<row, since, nextId, draft, again, mark>>

(* Mutant of RequeueConflict: rebased on the version after the server's. *)
RequeueAhead(c) ==
  /\ pc[c] = "requeue"
  /\ \E x \in conf[c], p \in Outbox(c) :
       /\ p.id = x.id
       /\ \A y \in conf[c] : x.id <= y.id
       /\ ReplaceEntry(c, p.ent, p.op, x.sv + 1, p.val)
       /\ conf' = [conf EXCEPT ![c] = @ \ {x}]
  /\ again' = [again EXCEPT ![c] = @ \cup {nextId}]
  /\ nextId' = nextId + 1
  /\ UNCHANGED <<row, since, pc, draft, sent, mark>>

(* Mutant of RequeueConflict: requeued without a base_version. *)
RequeueUnchecked(c) ==
  /\ pc[c] = "requeue"
  /\ \E x \in conf[c], p \in Outbox(c) :
       /\ p.id = x.id
       /\ \A y \in conf[c] : x.id <= y.id
       /\ ReplaceEntry(c, p.ent, p.op, 0, p.val)
       /\ conf' = [conf EXCEPT ![c] = @ \ {x}]
  /\ again' = [again EXCEPT ![c] = @ \cup {nextId}]
  /\ nextId' = nextId + 1
  /\ UNCHANGED <<row, since, pc, draft, sent, mark>>

(* requeue_conflict_with_new_id: the same record under a new change id,    *)
(* based on the version the server reported.                               *)
RequeueConflict(c) ==
  /\ pc[c] = "requeue"
  /\ \E x \in conf[c], p \in Outbox(c) :
       /\ p.id = x.id
       /\ \A y \in conf[c] : x.id <= y.id
       /\ ReplaceEntry(c, p.ent, p.op, x.sv, p.val)
       /\ conf' = [conf EXCEPT ![c] = @ \ {x}]
  /\ again' = [again EXCEPT ![c] = @ \cup {nextId}]
  /\ nextId' = nextId + 1
  /\ UNCHANGED <<row, since, pc, draft, sent, mark>>

(* The requeued changes are pushed once more, those among the oldest       *)
(* BatchLimit entries; without any the sync goes on to the pull.           *)
RetryPush(c) ==
  LET batch == {p \in OldestPending(c) : p.id \in again[c]}
  IN /\ pc[c] = "requeue"
     /\ conf[c] = {}
     /\ sent' = [sent EXCEPT ![c] = batch]
     /\ again' = [again EXCEPT ![c] = {}]
     /\ pc' = [pc EXCEPT ![c] = IF batch = {} THEN "pull" ELSE "rewait"]
     /\ UNCHANGED <<tableVars, draft, conf, mark>>

(* The second answer: what conflicts again is blocked. *)
HandleRetryAnswer(c, r) ==
  /\ pc[c] = "rewait"
  /\ ProcessPush(c, r, TRUE)
  /\ sent' = [sent EXCEPT ![c] = {}]
  /\ pc' = [pc EXCEPT ![c] = "pull"]
  /\ UNCHANGED <<row, since, nextId, draft, conf, again, mark>>

(* Mutants of Pulled: a column is forgotten; a row with a pending change   *)
(* is skipped altogether; it is overwritten; deletions are not applied.    *)
PulledWithoutDeleted(c, e, l, s) == [ver |-> s.ver, val |-> s.val]

PulledSkipsPending(c, e, l, s) ==
  IF \E p \in pending[c] : p.ent = e
  THEN l ELSE [ver |-> s.ver, val |-> s.val, del |-> s.del]

PulledOverwrites(c, e, l, s) == [ver |-> s.ver, val |-> s.val, del |-> s.del]

PulledKeepsDeleted(c, e, l, s) ==
  IF \E p \in pending[c] : p.ent = e
  THEN IF l.val = 0 THEN l ELSE [l EXCEPT !.ver = s.ver]
  ELSE [ver |-> s.ver, val |-> s.val, del |-> l.del]

(* What apply_pull_* makes of local row l given server row s. *)
Pulled(c, e, l, s) ==
  IF \E p \in pending[c] : p.ent = e
  THEN IF l.val = 0 THEN l ELSE [l EXCEPT !.ver = s.ver]
  ELSE [ver |-> s.ver, val |-> s.val, del |-> s.del]

(* The rows of table, stamped after the last pull, are applied to the      *)
(* local tables named by E.                                                *)
ApplyPull(c, table, E) ==
  row' = [row EXCEPT ![c] =
            [e \in Entity |->
               IF e \in E /\ table[e].upd > since[c]
               THEN Pulled(c, e, row[c][e], table[e])
               ELSE row[c][e]]]

(* All four apply_pull_* calls; server_time is kept for the next step. *)
HandlePull(c, table, time) ==
  /\ pc[c] = "pull"
  /\ ApplyPull(c, table, Entity)
  /\ mark' = [mark EXCEPT ![c] = time]
  /\ pc' = [pc EXCEPT ![c] = "stamp"]
  /\ UNCHANGED <<pending, blocked, since, nextId, draft, sent, conf, again>>

(* set_last_server_time, and the sync ends. *)
SaveServerTime(c) ==
  /\ pc[c] = "stamp"
  /\ since' = [since EXCEPT ![c] = mark[c]]
  /\ mark' = [mark EXCEPT ![c] = 0]
  /\ pc' = [pc EXCEPT ![c] = "idle"]
  /\ UNCHANGED <<row, pending, blocked, nextId, draft, sent, conf, again>>

-----------------------------------------------------------------------------
(* Failures.  The tables are on disk; everything else is lost. *)

Stop(c) ==
  /\ pc[c] # "idle"
  /\ pc' = [pc EXCEPT ![c] = "idle"]
  /\ draft' = [draft EXCEPT ![c] = {}]
  /\ sent' = [sent EXCEPT ![c] = {}]
  /\ conf' = [conf EXCEPT ![c] = {}]
  /\ again' = [again EXCEPT ![c] = {}]
  /\ mark' = [mark EXCEPT ![c] = 0]
  /\ UNCHANGED <<since, nextId>>

(* Mutant of Interrupt: the batch left the outbox when it was sent. *)
InterruptForgetsBatch(c) ==
  /\ Stop(c)
  /\ pending' = [pending EXCEPT ![c] = @ \ sent[c]]
  /\ UNCHANGED <<row, blocked>>

(* The program ends between two commits, or sync_project raises. *)
Interrupt(c) == Stop(c) /\ UNCHANGED <<row, pending, blocked>>

(* The program ends inside requeue_conflict_with_new_id, after the commit  *)
(* that deletes the entry and before the one that inserts it again.        *)
CrashInRequeue(c) ==
  /\ pc[c] = "requeue"
  /\ \E x \in conf[c] :
       /\ \A y \in conf[c] : x.id <= y.id
       /\ pending' = [pending EXCEPT ![c] = {p \in @ : p.id # x.id}]
       /\ blocked' = [blocked EXCEPT ![c] = {p \in @ : p.id # x.id}]
  /\ Stop(c)
  /\ UNCHANGED row

(* The program ends inside _process_push: some entries to be blocked were, *)
(* one commit each, conflicts before errors and each in their order.       *)
CrashInAnswer(c, r) ==
  LET block == pc[c] = "rewait"
      Sooner(x, y) == IF x.status = y.status THEN x.id < y.id
                                             ELSE x.status = "conflict"
  IN /\ pc[c] \in {"wait", "rewait"}
     /\ \E y \in r.out :
          /\ y.id \in ToBlock(r, block)
          /\ Clear(c, r, {x.id : x \in {z \in r.out : /\ z.id \in ToBlock(r, block)
                                                     /\ Sooner(z, y)}})
     /\ Stop(c)
     /\ UNCHANGED row

(* The program ends after the attached rows (assessments, actions) of a    *)
(* pull are committed and before the items are.                            *)
CrashInPull(c, table) ==
  /\ pc[c] = "pull"
  /\ ApplyPull(c, table, {e \in Entity : Parent[e] # None})
  /\ Stop(c)
  /\ UNCHANGED <<pending, blocked>>
=============================================================================
