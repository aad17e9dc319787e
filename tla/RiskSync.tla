------------------------------ MODULE RiskSync ------------------------------
(***************************************************************************)
(* One project, its server and the devices of its members: OfflineClient   *)
(* and SyncEngine joined by the HTTP requests that SyncService sends       *)
(* through rest_api_client.py.                                             *)
(*                                                                         *)
(*   wire[c]    the push request c waits on and no handler has taken yet   *)
(*   late       push requests whose client has given up waiting            *)
(*   reply[c]   the answer on its way to c                                 *)
(*   edits, faults   how many user operations and failures there were;     *)
(*              they bound the model, the program has no such counters     *)
(*                                                                         *)
(* A pull reads the committed tables and then the clock; with Overlap      *)
(* handlers may be writing meanwhile.                                      *)
(***************************************************************************)
EXTENDS SyncEngine, OfflineClient

CONSTANTS
  MaxEdits,  \* user operations
  MaxFaults  \* timeouts, lost answers, and processes that die

ASSUME RiskSyncAssumption == MaxEdits \in Nat /\ MaxFaults \in Nat

VARIABLES wire, late, reply, edits, faults

netVars == <<wire, late, reply>>
budgetVars == <<edits, faults>>
vars == <<engineVars, clientVars, netVars, budgetVars>>

Request == [user : Client, todo : SUBSET Change]

TypeOK ==
  /\ EngineTypeOK
  /\ ClientTypeOK
  /\ wire \in [Client -> SUBSET Change]
  /\ late \in SUBSET Request
  /\ reply \in [Client -> SUBSET Reply]
  /\ edits \in Nat /\ faults \in Nat

Init ==
  /\ EngineInit
  /\ ClientInit
  /\ wire = [c \in Client |-> {}]
  /\ late = {}
  /\ reply = [c \in Client |-> {}]
  /\ edits = 0 /\ faults = 0

-----------------------------------------------------------------------------
(* The user. *)

UserEdit(c) ==
  /\ edits < MaxEdits
  /\ edits' = edits + 1
  /\ \E e \in Entity :
       \/ CreateRow(c, e)
       \/ EditRow(c, e)
       \/ RetireRow(c, e)
       \/ RemoveRow(c, e)
  /\ UNCHANGED <<engineVars, netVars, faults>>

FinishEdit(c) ==
  /\ Enqueue(c) \/ Discard(c)
  /\ UNCHANGED <<engineVars, netVars, budgetVars>>

-----------------------------------------------------------------------------
(* The client's side of a sync. *)

SendPush(c) ==
  /\ StartSync(c)
  /\ wire' = [wire EXCEPT ![c] = sent'[c]]
  /\ UNCHANGED <<engineVars, late, reply, budgetVars>>

SendRetry(c) ==
  /\ RetryPush(c)
  /\ wire' = [wire EXCEPT ![c] = sent'[c]]
  /\ UNCHANGED <<engineVars, late, reply, budgetVars>>

ReceiveAnswer(c) ==
  /\ \E r \in reply[c] : HandleAnswer(c, r) \/ HandleRetryAnswer(c, r)
  /\ reply' = [reply EXCEPT ![c] = {}]
  /\ UNCHANGED <<engineVars, wire, late, budgetVars>>

Requeue(c) ==
  /\ RequeueConflict(c)
  /\ UNCHANGED <<engineVars, netVars, budgetVars>>

Pull(c) ==
  /\ Overlap \/ Quiescent
  /\ HandlePull(c, item, clock)
  /\ UNCHANGED <<engineVars, netVars, budgetVars>>

FinishSync(c) ==
  /\ SaveServerTime(c)
  /\ UNCHANGED <<engineVars, netVars, budgetVars>>

-----------------------------------------------------------------------------
(* The server's side. *)

Fault ==
  /\ faults < MaxFaults
  /\ faults' = faults + 1
  /\ UNCHANGED edits

Serve(s, c) ==
  /\ wire[c] # {}
  /\ BeginPush(s, c, wire[c], TRUE)
  /\ wire' = [wire EXCEPT ![c] = {}]
  /\ UNCHANGED <<clientVars, late, reply, budgetVars>>

ServeLate(s) ==
  /\ \E q \in late :
       /\ BeginPush(s, q.user, q.todo, FALSE)
       /\ late' = late \ {q}
  /\ UNCHANGED <<clientVars, wire, reply, budgetVars>>

Process(s) ==
  /\ ProcessChange(s)
  /\ UNCHANGED <<clientVars, netVars, budgetVars>>

(* The answer goes to the client if it is still there. *)
Answer(s) ==
  /\ CommitPush(s)
  /\ reply' = IF tx[s].live
              THEN [reply EXCEPT ![tx[s].user] =
                      {[dup |-> tx[s].dup, out |-> tx[s].rc]}]
              ELSE reply
  /\ UNCHANGED <<clientVars, wire, late, budgetVars>>

(* The handler ends without committing; sync_push raises in the client.    *)
Abort(s) ==
  /\ RollbackPush(s)
  /\ IF tx[s].live THEN Interrupt(tx[s].user) ELSE UNCHANGED clientVars
  /\ UNCHANGED netVars

FailRequest(s) ==
  /\ ReceiptClash(s)
  /\ Abort(s)
  /\ UNCHANGED budgetVars

ServerCrash(s) ==
  /\ Fault
  /\ Abort(s)

-----------------------------------------------------------------------------
(* The network and the client's failures. *)

(* Client c stops listening: its request is lost on the way or will be     *)
(* served without it, an answer is lost, and a running handler goes on.    *)
HangUp(c) ==
  /\ wire' = [wire EXCEPT ![c] = {}]
  /\ \/ late' = late
     \/ /\ wire[c] # {}
        /\ late' = late \cup {[user |-> c, todo |-> wire[c]]}
  /\ reply' = [reply EXCEPT ![c] = {}]
  /\ tx' = [s \in Session |->
              IF tx[s].user = c THEN [tx[s] EXCEPT !.live = FALSE] ELSE tx[s]]
  /\ UNCHANGED <<item, receipts, audit, clock>>

(* A request fails in the client after its timeout: sync_project raises. *)
Timeout(c) ==
  /\ pc[c] \in {"wait", "rewait", "pull"}
  /\ Fault
  /\ Interrupt(c)
  /\ HangUp(c)

ClientCrash(c) ==
  /\ Fault
  /\ \/ Interrupt(c)
     \/ \E r \in reply[c] : CrashInAnswer(c, r)
     \/ CrashInRequeue(c)
     \/ CrashInPull(c, item)
  /\ HangUp(c)

-----------------------------------------------------------------------------
Next ==
  \/ \E c \in Client :
       \/ UserEdit(c)
       \/ FinishEdit(c)
       \/ SendPush(c)
       \/ SendRetry(c)
       \/ ReceiveAnswer(c)
       \/ Requeue(c)
       \/ Pull(c)
       \/ FinishSync(c)
       \/ Timeout(c)
       \/ ClientCrash(c)
  \/ \E s \in Session :
       \/ \E c \in Client : Serve(s, c)
       \/ ServeLate(s)
       \/ Process(s)
       \/ Answer(s)
       \/ FailRequest(s)
       \/ ServerCrash(s)

Spec == Init /\ [][Next]_vars

(* The user interface runs an operation to its end once it has begun, the  *)
(* server finishes what it serves, and the user presses Sync again and     *)
(* again.                                                                  *)
Fairness ==
  /\ \A c \in Client :
       /\ WF_vars(FinishEdit(c))
       /\ WF_vars(SendPush(c))
       /\ WF_vars(SendRetry(c))
       /\ WF_vars(ReceiveAnswer(c))
       /\ WF_vars(Requeue(c))
       /\ WF_vars(Pull(c))
       /\ WF_vars(FinishSync(c))
  /\ \A s \in Session :
       /\ \A c \in Client : WF_vars(Serve(s, c))
       /\ WF_vars(ServeLate(s))
       /\ WF_vars(Process(s))
       /\ WF_vars(Answer(s))
       /\ WF_vars(FailRequest(s))

FairSpec == Spec /\ Fairness

-----------------------------------------------------------------------------
(* Safety. *)

(* The squash of the outbox: no device ever holds two entries of one row,  *)
(* whatever was blocked, requeued or edited in between.                    *)
OneEntryPerEntity ==
  \A c \in Client : \A p, o \in Outbox(c) : p.ent = o.ent => p = o

(* push_changes is idempotent: however often a change is sent, retried     *)
(* while its first request is still being served, or served after its      *)
(* client has gone, it is applied to the tables at most once.              *)
AtMostOnce == \A x, y \in audit : x.id = y.id => x = y

(* What the client shows as blocked is what the server has refused, for    *)
(* good: never a change that was applied or not yet looked at.             *)
BlockedWasRefused ==
  \A c \in Client : \A p \in blocked[c] :
    /\ \E x \in receipts : x.id = p.id /\ x.status # "accepted"
    /\ p.id \notin Ids(audit)

(* Pushing clears from the outbox only what the server has committed an    *)
(* answer for; a batch that failed, or is still being served, stays queued *)
(* and is sent again.                                                      *)
SyncDropsOnlyDecided ==
  [][\A c \in Client : pc[c] \in {"wait", "rewait"} =>
       \A p \in Outbox(c) \ Outbox(c)' : p.id \in Ids(receipts)]_vars

(* Handlers hold the keys of their receipts until they commit, and never   *)
(* wait for each other's in a circle, since every device's changes are     *)
(* processed in one order.                                                 *)
AwaitsReceipt(s, t) ==
  /\ s # t
  /\ \E ch \in tx[s].todo : Turn(s, ch, tx[s].st) /\ ch.id \in Ids(tx[t].rc)

NoReceiptDeadlock ==
  \A s, t \in Session : ~(AwaitsReceipt(s, t) /\ AwaitsReceipt(t, s))

(* The history of a row is linear: no two changes are applied to the same  *)
(* version of it, so none silently replaces another.                       *)
VersionsLinear ==
  \A x, y \in audit : x.ent = y.ent /\ x.before = y.before => x = y

(* The tables are an implementation of ProjectStore: batches are committed *)
(* as a whole, and the history the audit log tells is the one that         *)
(* happened.                                                               *)
Store == INSTANCE ProjectStore WITH
  store <- [e \in Entity |-> [ver |-> item[e].ver, val |-> item[e].val,
                              del |-> item[e].del]],
  log <- audit

ImplementsStore == Store!Spec

(* The cursor of the pull is complete: what a device's last_server_time    *)
(* says it has seen, its local rows have.                                  *)
CursorComplete ==
  \A c \in Client : \A e \in Entity :
    item[e].upd <= since[c] => row[c][e].ver >= item[e].ver

(* No device runs ahead of the server: neither its rows nor the            *)
(* base_version of what it has queued.                                     *)
NeverAhead ==
  \A c \in Client :
    /\ \A e \in Entity : row[c][e].ver <= item[e].ver
    /\ \A p \in Outbox(c) : p.base <= item[p.ent].ver

(* A pull never hides an edit that still waits in the outbox: the local    *)
(* row shows what the pending change will write.                           *)
PendingShown ==
  \A c \in Client : \A p \in pending[c] :
    (p.op # "delete" /\ draft[c] = {}) => row[c][p.ent].val = p.val

(* What a device has seen it shows: a row that the cursor has passed, and  *)
(* that has no queued change, is the server's, deletions included.         *)
SeenIsShown ==
  \A c \in Client : \A e \in Entity :
    (/\ item[e].upd \in 1 .. since[c]
     /\ draft[c] = {}
     /\ \A p \in Outbox(c) : p.ent # e) =>
       row[c][e] = [ver |-> item[e].ver, val |-> item[e].val,
                    del |-> item[e].del]

(* A change is applied only to the version it is based on.  One without a  *)
(* base_version, which the conflict check lets pass, only ever follows its *)
(* own user's creation of the row: nobody's work is replaced unseen,       *)
(* whatever went unanswered, was sent again or requeued.                   *)
AppliedOnBase ==
  /\ \A x \in audit : x.before # 0 => x.base \in {0, x.before}
  /\ \A x, y \in audit :
       x.ent = y.ent /\ x.base = 0 /\ y.base = 0 => x.user = y.user

(* A push that clears an entry from the outbox has had it accepted.        *)
NoSilentDrop ==
  [][\A c \in Client : pc[c] \in {"wait", "rewait"} =>
       \A p \in Outbox(c) \ Outbox(c)' :
         \E x \in receipts : x.id = p.id /\ x.status = "accepted"]_vars

(* A row is only dropped as "created locally and deleted before first      *)
(* sync" while the server has never heard of it.                           *)
DiscardIsNoOp ==
  \A c \in Client : \A d \in draft[c] : d.op = "discard" => item[d.ent].ver = 0

-----------------------------------------------------------------------------
(* Liveness. *)

(* Every queued change is answered in the end: it does not stay pending    *)
(* behind lost answers, conflicts, or a batch limit.                       *)
EventuallySettled == <>[](\A c \in Client : pending[c] = {})
=============================================================================
