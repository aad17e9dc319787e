------------------------------ MODULE Register ------------------------------
(***************************************************************************)
(* The register of one project as its REST endpoints change it: items      *)
(* (core/items_crud.py behind api/routers/crud_factory.py), actions,       *)
(* assessments and score snapshots, under the roles of Membership.  Each   *)
(* request first checks and reads (Check...), then writes and commits; a   *)
(* snapshot reads its two types one after the other.                       *)
(*                                                                         *)
(*   item[i]      row i of items, of type Type[i]                          *)
(*   action[a]    row a of actions and the item it points to               *)
(*   judged[i,u]  u's assessment of item i                                 *)
(*   snap         the batches of score_snapshots; at orders captured_at    *)
(*   ops          how many requests there were; bounds the model and       *)
(*                numbers them                                             *)
(***************************************************************************)
EXTENDS Membership, Retention, Scores

CONSTANTS
  Item, Type,    \* rows of items, and whether each is a risk
  Action,
  Drafts,        \* bodies of POST requests
  Patches,       \* bodies of PATCH requests
  Wishes,        \* days asked for in prune requests
  Roles,         \* roles asked for in member requests
  Founder,       \* who has created the project, if it exists
  MaxOps         \* requests and new days

(* A request body.  status None, prob 0 and impact 0 are left out of it,   *)
(* and so are dimensions outside the domain of dims.  A blank code in a    *)
(* POST counts as None; a PATCH with one is refused by its schema.         *)
Body == [code : {"x", None}, status : Status \cup {None}, prob : 0 .. 5,
         impact : 0 .. 5, dims : UNION {[D -> 0 .. 5] : D \in SUBSET Dim}]

ASSUME RegisterAssumption ==
  /\ Type \in [Item -> {"risk", "opportunity"}]
  /\ None \notin Item /\ Founder \in User /\ Roles \subseteq Viewer .. Admin
  /\ Drafts \subseteq {b \in Body : b.prob # 0 /\ b.impact # 0}
  /\ Patches \subseteq Body /\ Wishes \subseteq Int
  /\ MaxOps \in Nat

VARIABLES item, action, judged, snap, ops

rowVars == <<item, action, judged, snap>>
vars == <<memberVars, logVars, rowVars, ops>>

ItemRow == [ver : Nat, code : {"x", None} \cup Item, status : Status,
            prob : Scale, impact : Scale, dims : [Dim -> 0 .. 5],
            score : 0 .. 25, del : BOOLEAN]
ActionRow == [ver : Nat, item : Item \cup {None}, del : BOOLEAN]
Judgement == [ver : Nat, score : 0 .. 25]
ScoreRow == [item : Item, score : 0 .. 25]
Batch == [at : Nat, risk : SUBSET ScoreRow, opportunity : SUBSET ScoreRow]

NoItem == [ver |-> 0, code |-> None, status |-> "concept", prob |-> 1,
           impact |-> 1, dims |-> [d \in Dim |-> 0], score |-> 0, del |-> FALSE]

TypeOK ==
  /\ LogsTypeOK
  /\ member \in [User -> 0 .. Admin]
  /\ stale \in SUBSET Session
  /\ crossed \in SUBSET (Item \cup {"members"})
  /\ DOMAIN srv = Session
  /\ \A s \in Session : srv[s] # Free =>
       srv[s].st \in {"start", "read"} /\ srv[s].req.user \in User
  /\ item \in [Item -> ItemRow]
  /\ action \in [Action -> ActionRow]
  /\ judged \in [Item \X User -> Judgement]
  /\ snap \in SUBSET Batch
  /\ ops \in Nat

-----------------------------------------------------------------------------
(* Items. *)

Keep(x, v, none) == IF v = none THEN x ELSE v
Merge(old, new) ==
  [d \in Dim |-> IF d \in DOMAIN new THEN new[d] ELSE old[d]]

(* Mutant of Storable: any status may be created. *)
StorableAny(b) == TRUE

(* create_item refuses a row that would be deleted from the start. *)
Storable(b) == b.status # "deleted"

CheckCreate(s) ==
  /\ At(s, "create", "start")
  /\ Found(s, Permits(s, Member) /\ Storable(srv[s].req.body), 0)
  /\ UNCHANGED <<member, rowVars>>

CodeFree(c, i) == \A j \in Item \ {i} : item[j].ver # 0 => item[j].code # c

(* create_item: a missing code is generated, so nobody else has it. *)
Create(s) ==
  /\ At(s, "create", "read")
  /\ LET b == srv[s].req.body
     IN \E i \in Item :
          /\ item[i].ver = 0 /\ Type[i] = srv[s].req.type
          /\ item' = IF CodeFree(Keep(i, b.code, None), i)
                     THEN [item EXCEPT ![i] = Rescored(
                       [ver |-> 1, code |-> Keep(i, b.code, None),
                        status |-> Keep("concept", b.status, None),
                        prob |-> b.prob, impact |-> b.impact,
                        dims |-> Merge(NoItem.dims, b.dims), score |-> 0,
                        del |-> FALSE])]
                     ELSE item
  /\ Close(s, {})
  /\ UNCHANGED <<member, action, judged, snap>>

(* Mutant of RankToPatch: deleting by status is an edit. *)
RankAsEditor(b) == Member

(* Editing is for members, deletion for managers. *)
RankToPatch(b) == IF b.status = "deleted" THEN Manager ELSE Member

(* Mutant of Based: base_version is not looked at. *)
BasedAnyhow(x, base) == x.ver # 0

Based(x, base) == x.ver # 0 /\ base \in {0, x.ver}

(* update_obj, update_item: role, row, base_version; delete_obj.  Rows     *)
(* that are deleted are found as well.                                     *)
CheckPatch(s) ==
  /\ At(s, "patch", "start")
  /\ LET q == srv[s].req
     IN Found(s, Permits(s, RankToPatch(q.body)) /\ Based(item[q.row], q.base),
              item[q.row])
  /\ UNCHANGED <<member, rowVars>>

CheckDelete(s) ==
  /\ At(s, "delete", "start")
  /\ LET q == srv[s].req
     IN Found(s, Permits(s, Manager) /\ item[q.row].ver # 0, item[q.row])
  /\ UNCHANGED <<member, rowVars>>

SoftDeleted(x) ==
  [x EXCEPT !.ver = @ + 1, !.del = TRUE, !.status = "deleted"]

(* The assignments of update_item; status=deleted returns before the score *)
(* is computed again, which the listener then does.                        *)
Patched(x, b) ==
  LET y == [x EXCEPT !.code = Keep(@, b.code, None),
                     !.prob = Keep(@, b.prob, 0),
                     !.impact = Keep(@, b.impact, 0),
                     !.dims = Merge(@, b.dims)]
  IN IF b.status = "deleted"
     THEN [SoftDeleted(y) EXCEPT !.score = y.prob * y.impact]
     ELSE Rescored([y EXCEPT !.ver = @ + 1,
                             !.status = Keep(@, b.status, None)])

(* Mutant of Stored: the columns that are not written are lost. *)
StoredPart(old, seen, new) ==
  [f \in {g \in DOMAIN new : new[g] # seen[g]} |-> new[f]]

(* The UPDATE names the columns that differ from the row that was read. *)
Stored(old, seen, new) ==
  [f \in DOMAIN new |-> IF new[f] # seen[f] THEN new[f] ELSE old[f]]

(* The row has changed since this handler read it. *)
WrittenOver(s) ==
  LET i == srv[s].req.row IN IF srv[s].seen = item[i] THEN {} ELSE {i}

(* Another item's code makes the commit fail. *)
Patch(s) ==
  /\ At(s, "patch", "read")
  /\ LET q == srv[s].req
         new == Patched(srv[s].seen, q.body)
     IN item' = IF CodeFree(new.code, q.row)
                THEN [item EXCEPT ![q.row] = Stored(@, srv[s].seen, new)]
                ELSE item
  /\ Close(s, WrittenOver(s))
  /\ UNCHANGED <<member, action, judged, snap>>

Delete(s) ==
  /\ At(s, "delete", "read")
  /\ item' = [item EXCEPT ![srv[s].req.row] =
                Stored(@, srv[s].seen, SoftDeleted(srv[s].seen))]
  /\ Close(s, WrittenOver(s))
  /\ UNCHANGED <<member, action, judged, snap>>

-----------------------------------------------------------------------------
(* Actions. *)

Live(i) == item[i].ver # 0 /\ ~item[i].del

(* _resolve_target: an item of the type the request says, not deleted. *)
Target(q) == q.row # None /\ Live(q.row) /\ Type[q.row] = q.type

CheckNewAction(s) ==
  /\ At(s, "act", "start")
  /\ Found(s, Permits(s, Member) /\ Target(srv[s].req), 0)
  /\ UNCHANGED <<member, rowVars>>

NewAction(s) ==
  /\ At(s, "act", "read")
  /\ \E a \in Action :
       /\ action[a].ver = 0
       /\ action' = [action EXCEPT ![a] =
                       [ver |-> 1, item |-> srv[s].req.row, del |-> FALSE]]
  /\ Close(s, {})
  /\ UNCHANGED <<member, item, judged, snap>>

(* update_action: row None leaves the target alone. *)
CheckMoveAction(s) ==
  /\ At(s, "move", "start")
  /\ LET q == srv[s].req
         a == action[q.act]
     IN Found(s, /\ Permits(s, Member)
                 /\ a.ver # 0 /\ ~a.del
                 /\ q.row # None => Target(q), a)
  /\ UNCHANGED <<member, rowVars>>

MoveAction(s) ==
  /\ At(s, "move", "read")
  /\ LET q == srv[s].req
         a == srv[s].seen
     IN action' = [action EXCEPT ![q.act] = Stored(@, a,
                     [a EXCEPT !.ver = @ + 1,
                               !.item = Keep(@, q.row, None)])]
  /\ Close(s, {})
  /\ UNCHANGED <<member, item, judged, snap>>

CheckDropAction(s) ==
  /\ At(s, "drop", "start")
  /\ LET a == action[srv[s].req.act]
     IN Found(s, Permits(s, Manager) /\ a.ver # 0, a)
  /\ UNCHANGED <<member, rowVars>>

DropAction(s) ==
  /\ At(s, "drop", "read")
  /\ LET a == srv[s].seen
     IN action' = [action EXCEPT ![srv[s].req.act] = Stored(@, a,
                     [a EXCEPT !.ver = @ + 1, !.del = TRUE])]
  /\ Close(s, {})
  /\ UNCHANGED <<member, item, judged, snap>>

-----------------------------------------------------------------------------
(* upsert_my_assessment: the caller's own row, inserted or updated; an     *)
(* insertion that comes second violates the unique key.                    *)
CheckAssess(s) ==
  /\ At(s, "assess", "start")
  /\ LET q == srv[s].req
         j == judged[<<q.row, q.user>>]
     IN Found(s, /\ Permits(s, Member) /\ Live(q.row)
                 /\ j.ver # 0 => q.base \in {0, j.ver}, j)
  /\ UNCHANGED <<member, rowVars>>

Assess(s) ==
  /\ At(s, "assess", "read")
  /\ LET q == srv[s].req
         k == <<q.row, q.user>>
         j == srv[s].seen
     IN judged' = IF j.ver = 0 /\ judged[k].ver # 0 THEN judged
                  ELSE [judged EXCEPT ![k] = Stored(@, j,
                          [ver |-> j.ver + 1,
                           score |-> q.body.prob * q.body.impact])]
  /\ Close(s, {})
  /\ UNCHANGED <<member, item, action, snap>>

-----------------------------------------------------------------------------
(* create_snapshot: the risks are read first, then the opportunities, and  *)
(* the batch is committed; a batch without rows leaves no trace.           *)
LiveScores(R, t) ==
  {[item |-> i, score |-> R[i].score] :
     i \in {k \in Item : Type[k] = t /\ R[k].ver # 0 /\ ~R[k].del}}

(* Mutant of Wanted: both types are always taken from the risks. *)
WantedRisks(q, t) == IF t \in q.types THEN LiveScores(item, "risk") ELSE {}

Wanted(q, t) == IF t \in q.types THEN LiveScores(item, t) ELSE {}

ReadRisks(s) ==
  /\ At(s, "snapshot", "start")
  /\ Found(s, Permits(s, Member), Wanted(srv[s].req, "risk"))
  /\ UNCHANGED <<member, rowVars>>

SaveBatch(s) ==
  /\ At(s, "snapshot", "read")
  /\ LET q == srv[s].req
         b == [at |-> q.at, risk |-> srv[s].seen,
               opportunity |-> Wanted(q, "opportunity")]
     IN snap' = IF b.risk \cup b.opportunity = {} THEN snap ELSE snap \cup {b}
  /\ Close(s, {})
  /\ UNCHANGED <<member, item, action, judged>>

(* latest_snapshot: the rows of the last batch that has any of type t. *)
Latest(B, t) ==
  LET some == {b \in B : b[t] # {}}
  IN IF some = {} THEN {}
     ELSE (CHOOSE b \in some : \A c \in some : c.at <= b.at)[t]

-----------------------------------------------------------------------------
(* prune_project_logs *)
CheckPrune(s) ==
  /\ At(s, "prune", "start")
  /\ Found(s, Permits(s, Admin), 0)
  /\ UNCHANGED <<member, rowVars>>

PruneLogs(s) ==
  /\ At(s, "prune", "read")
  /\ Prune(srv[s].req.days)
  /\ Leave(s)
  /\ UNCHANGED <<member, rowVars>>

RowStep(s) ==
  \/ CheckCreate(s) \/ Create(s)
  \/ CheckPatch(s) \/ Patch(s)
  \/ CheckDelete(s) \/ Delete(s)
  \/ CheckNewAction(s) \/ NewAction(s)
  \/ CheckMoveAction(s) \/ MoveAction(s)
  \/ CheckDropAction(s) \/ DropAction(s)
  \/ CheckAssess(s) \/ Assess(s)
  \/ ReadRisks(s) \/ SaveBatch(s)
  \/ CheckPrune(s)

Handle(s) ==
  /\ \/ MemberStep(s) /\ UNCHANGED <<rowVars, logVars>>
     \/ RowStep(s) /\ UNCHANGED logVars
     \/ PruneLogs(s)
  /\ UNCHANGED ops

-----------------------------------------------------------------------------
Count == ops < MaxOps /\ ops' = ops + 1

(* What clients send, of a member or of somebody else who has an account.  *)
AskMembers(s, u) ==
  \/ Open(s, [op |-> "project", user |-> u])
  \/ \E v \in User \cup {None} :
       \/ \E r \in Roles :
            Open(s, [op |-> "grant", user |-> u, to |-> v, role |-> r])
       \/ Open(s, [op |-> "remove", user |-> u, to |-> v])

(* ops/prune_job.py signs in and asks for this, once per project. *)
AskPrune(s, u) ==
  \E d \in Wishes : Open(s, [op |-> "prune", user |-> u, days |-> d])

(* Items of one type.  A row is edited on the version the client has seen, *)
(* or on none.                                                             *)
AskItems(s, u, t) ==
  \/ \E b \in Drafts :
       Open(s, [op |-> "create", user |-> u, type |-> t, body |-> b])
  \/ \E i \in {k \in Item : Type[k] = t} :
       \/ \E b \in Patches, n \in 0 .. item[i].ver :
            Open(s, [op |-> "patch", user |-> u, row |-> i, base |-> n,
                     body |-> b])
       \/ Open(s, [op |-> "delete", user |-> u, row |-> i])

AskRisks(s, u) == AskItems(s, u, "risk")
AskOpportunities(s, u) == AskItems(s, u, "opportunity")

AskAssessments(s, u) ==
  \E i \in Item, b \in {d \in Drafts : d.status = None}, n \in {0, 1} :
    Open(s, [op |-> "assess", user |-> u, row |-> i, base |-> n, body |-> b])

AskActions(s, u) ==
  \/ \E i \in Item \cup {None}, t \in {"risk", "opportunity"} :
       \/ Open(s, [op |-> "act", user |-> u, row |-> i, type |-> t])
       \/ \E a \in Action :
            Open(s, [op |-> "move", user |-> u, act |-> a, row |-> i,
                     type |-> t])
  \/ \E a \in Action : Open(s, [op |-> "drop", user |-> u, act |-> a])

AskSnapshot(s, u) ==
  \E T \in SUBSET {"risk", "opportunity"} \ {{}} :
    Open(s, [op |-> "snapshot", user |-> u, types |-> T, at |-> ops + 1])

Ask(s) ==
  /\ Count
  /\ \E u \in User :
       \/ AskMembers(s, u) \/ AskPrune(s, u) \/ AskRisks(s, u)
       \/ AskOpportunities(s, u) \/ AskAssessments(s, u) \/ AskActions(s, u) \/ AskSnapshot(s, u)
  /\ UNCHANGED <<member, rowVars, logVars>>

(* The sync engine at work, and the calendar. *)
Elsewhere ==
  /\ \/ (\E c \in Change : Push(c)) /\ UNCHANGED ops
     \/ Tomorrow /\ Count
  /\ UNCHANGED <<memberVars, rowVars>>

(* The project may exist already, with its first admin, another user, an   *)
(* item, and a batch that tells an older score of it.                      *)
Init ==
  /\ LogsInit
  /\ member \in [User -> {0, Member, Admin}]
  /\ (\E u \in User : member[u] # 0) => member[Founder] = Admin
  /\ srv = [s \in Session |-> Free] /\ stale = {} /\ crossed = {}
  /\ action = [a \in Action |-> [ver |-> 0, item |-> None, del |-> FALSE]]
  /\ judged = [k \in Item \X User |-> [ver |-> 0, score |-> 0]]
  /\ ops = 0
  /\ \/ item = [i \in Item |-> NoItem] /\ snap = {}
     \/ \E i \in Item :
          /\ member[Founder] = Admin
          /\ item = [[j \in Item |-> NoItem] EXCEPT
                       ![i] = [@ EXCEPT !.ver = 1, !.code = "x", !.score = 1]]
          /\ snap = {[[at |-> 0, risk |-> {}, opportunity |-> {}] EXCEPT
                        ![Type[i]] = {[item |-> i, score |-> 9]}]}

Next == (\E s \in Session : Ask(s) \/ Handle(s)) \/ Elsewhere

Spec == Init /\ [][Next]_vars

-----------------------------------------------------------------------------
(* Properties. *)

(* No list, report, matrix or snapshot shows a deleted item: neither a     *)
(* creation nor any sequence of edits leaves a row that says it is deleted *)
(* and is not marked so.                                                   *)
ListsHideDeleted ==
  \A i \in Filtered(item, {}, 0, 25) : item[i].status # "deleted"

(* The score of a live item is probability times impact, and its impact is *)
(* its worst dimension, whatever was edited, left out or cleared, as long  *)
(* as no edit was written over another edit of the same row, with a score  *)
(* computed without it.                                                    *)
ScoreTrue ==
  \A i \in Item \ crossed : Live(i) =>
    /\ item[i].score = item[i].prob * item[i].impact
    /\ \A d \in Dim : item[i].dims[d] <= item[i].impact
    /\ (\E d \in Dim : item[i].dims[d] # 0) =>
         \E d \in Dim : item[i].dims[d] = item[i].impact

Acting(s) == srv[s] # Free /\ srv'[s] = Free

(* "Editing is allowed for members; deletion is manager-only": through     *)
(* whichever endpoint a row is changed or disappears, the user has the     *)
(* role when it happens, or had it when the handler checked and another    *)
(* handler has written since.                                              *)
OnlyPermitted ==
  [][/\ rowVars' # rowVars =>
          \E s \in Session : Acting(s) /\ (s \in stale \/ Permits(s, Member))
     /\ \A i \in Item : item'[i].del /\ ~item[i].del =>
          \E s \in Session :
            Acting(s) /\ (s \in stale \/ Permits(s, Manager))]_vars

(* Every change of an item is one step of its version, and an edit that    *)
(* names the version its user has seen changes no other: the only edits    *)
(* that are lost are those of a row between another handler's reading it   *)
(* and writing it.                                                         *)
EditsInTurn ==
  [][\A i \in Item, s \in Session : Acting(s) /\ item'[i] # item[i] =>
       \/ srv[s].req.op \in {"patch", "delete"} /\ srv[s].seen # item[i]
       \/ /\ item'[i].ver = item[i].ver + 1
          /\ srv[s].req.op = "patch" => srv[s].req.base \in {0, item[i].ver}]_vars

(* After a snapshot the latest batch of a type is the register as it is    *)
(* now, if there is anything of this type to show and no snapshot asked    *)
(* for later was faster.  The opportunities are read last; the risks are   *)
(* only up to date if nobody has written between the two queries.          *)
LatestShown ==
  [][snap' # snap =>
       \A s \in Session :
         Acting(s) /\ (\A b \in snap : b.at < srv[s].req.at) =>
           \A t \in srv[s].req.types :
             (LiveScores(item, t) # {} /\ (t = "opportunity" \/ s \notin stale)) =>
               Latest(snap', t) = LiveScores(item, t)]_vars
=============================================================================
