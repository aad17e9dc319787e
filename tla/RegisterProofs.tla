--------------------------- MODULE RegisterProofs ---------------------------
(***************************************************************************)
(* Theorems about Register for every set of accounts, rows and sessions    *)
(* and every number of requests.                                           *)
(***************************************************************************)
EXTENDS Register, FiniteSetTheorems, TLAPS

-----------------------------------------------------------------------------
(* Computations over rows. *)

LEMMA ScoreBound ==
  ASSUME NEW p \in Scale, NEW n \in Scale
  PROVE  p * n \in 1 .. 25
<1>1. p = 1 \/ p = 2 \/ p = 3 \/ p = 4 \/ p = 5
  BY DEF Scale
<1>2. n = 1 \/ n = 2 \/ n = 3 \/ n = 4 \/ n = 5
  BY DEF Scale
<1> QED
  BY <1>1, <1>2

(* The worst of the dimensions that are there. *)
LEMMA MaxOfScale ==
  ASSUME NEW S, S \subseteq Scale, S # {}
  PROVE  Max(S) \in S /\ \A y \in S : y <= Max(S)
<1>1. \E x \in S : \A y \in S : x >= y
  <2>1. CASE 5 \in S
    BY <2>1 DEF Scale
  <2>2. CASE 5 \notin S /\ 4 \in S
    BY <2>2 DEF Scale
  <2>3. CASE 5 \notin S /\ 4 \notin S /\ 3 \in S
    BY <2>3 DEF Scale
  <2>4. CASE 5 \notin S /\ 4 \notin S /\ 3 \notin S /\ 2 \in S
    BY <2>4 DEF Scale
  <2>5. CASE 5 \notin S /\ 4 \notin S /\ 3 \notin S /\ 2 \notin S
    <3>1. PICK x \in S : TRUE
      OBVIOUS
    <3>2. \A y \in S : y = 1
      BY <2>5 DEF Scale
    <3> QED
      BY <3>1, <3>2
  <2> QED
    BY <2>1, <2>2, <2>3, <2>4, <2>5
<1>2. Max(S) \in S /\ \A y \in S : Max(S) >= y
  BY <1>1 DEF Max
<1> QED
  BY <1>2 DEF Scale

LEMMA RescoredType ==
  ASSUME NEW x \in ItemRow
  PROVE  /\ Rescored(x) \in ItemRow
         /\ Rescored(x).status = x.status /\ Rescored(x).del = x.del
         /\ Rescored(x).ver = x.ver
<1> DEFINE valid == Range(x.dims) \ {0}
           impact == IF valid = {} THEN x.impact ELSE Max(valid)
<1>1. valid \subseteq Scale
  BY DEF ItemRow, Range, Scale
<1>2. impact \in Scale
  BY <1>1, MaxOfScale DEF ItemRow
<1>3. Rescored(x) = [x EXCEPT !.impact = impact, !.score = x.prob * impact]
  BY DEF Rescored
<1>4. x.prob * impact \in 0 .. 25
  BY <1>2, ScoreBound DEF ItemRow
<1> HIDE DEF impact
<1> QED
  BY <1>2, <1>3, <1>4 DEF ItemRow

LEMMA MergeType ==
  ASSUME NEW b \in Body, NEW old \in [Dim -> 0 .. 5]
  PROVE  Merge(old, b.dims) \in [Dim -> 0 .. 5]
<1>1. PICK D \in SUBSET Dim : b.dims \in [D -> 0 .. 5]
  BY DEF Body
<1> QED
  BY <1>1 DEF Merge

LEMMA SoftDeletedType ==
  ASSUME NEW x \in ItemRow
  PROVE  /\ SoftDeleted(x) \in ItemRow
         /\ SoftDeleted(x).del /\ SoftDeleted(x).ver = x.ver + 1
<1>1. "deleted" \in Status /\ x.ver + 1 \in Nat
  BY DEF Status, ItemRow
<1> HIDE DEF Status
<1> QED
  BY <1>1 DEF SoftDeleted, ItemRow

(* A row that says it is deleted is marked so, and a mark is on a row that *)
(* is there.                                                               *)
Marked(x) == (x.status = "deleted" => x.del) /\ (x.ver = 0 => ~x.del)

(* An edit keeps rows well-typed and marked, and no edit takes the mark    *)
(* away.                                                                   *)
LEMMA PatchedType ==
  ASSUME NEW x \in ItemRow, NEW b \in Body, Marked(x)
  PROVE  LET y == Patched(x, b)
         IN /\ y \in ItemRow /\ Marked(y) /\ (x.del => y.del)
            /\ y.ver = x.ver + 1
            /\ b.status # "deleted" => y.del = x.del
<1> DEFINE y == [x EXCEPT !.code = Keep(@, b.code, None),
                          !.prob = Keep(@, b.prob, 0),
                          !.impact = Keep(@, b.impact, 0),
                          !.dims = Merge(@, b.dims)]
           z == [y EXCEPT !.ver = @ + 1, !.status = Keep(@, b.status, None)]
<1>1. Merge(x.dims, b.dims) \in [Dim -> 0 .. 5]
  BY MergeType DEF ItemRow
<1>2. /\ Keep(x.code, b.code, None) \in {"x", None} \cup Item
      /\ Keep(x.prob, b.prob, 0) \in Scale
      /\ Keep(x.impact, b.impact, 0) \in Scale
  BY DEF Keep, Body, ItemRow, Scale
<1>3. /\ y \in ItemRow /\ y.status = x.status /\ y.del = x.del
      /\ y.ver = x.ver
  BY <1>1, <1>2 DEF ItemRow
<1>0. x.ver \in Nat
  BY DEF ItemRow
<1>4. CASE b.status = "deleted"
  <2>1. y.prob * y.impact \in 0 .. 25
    <3> HIDE DEF y
    <3>1. y.prob \in Scale /\ y.impact \in Scale
      BY <1>3 DEF ItemRow
    <3>2. y.prob * y.impact \in 1 .. 25
      BY <3>1, ScoreBound
    <3> QED
      BY <3>2
  <2> DEFINE w == [SoftDeleted(y) EXCEPT !.score = y.prob * y.impact]
  <2>2. Patched(x, b) = w
    BY <1>4 DEF Patched
  <2>3. w \in ItemRow /\ w.del /\ w.ver = x.ver + 1
    <3> HIDE DEF y
    <3>1. /\ SoftDeleted(y) \in ItemRow /\ SoftDeleted(y).del
          /\ SoftDeleted(y).ver = x.ver + 1
      BY <1>3, SoftDeletedType
    <3> QED
      BY <2>1, <3>1 DEF ItemRow
  <2> QED
    BY <1>0, <1>4, <2>2, <2>3 DEF Marked
<1>5. CASE b.status # "deleted"
  <2>1. Keep(y.status, b.status, None) \in Status
    BY <1>3 DEF Keep, Body, ItemRow
  <2>2. /\ z \in ItemRow /\ z.del = x.del /\ z.ver = x.ver + 1
        /\ z.status = Keep(y.status, b.status, None)
    <3> DEFINE k == Keep(y.status, b.status, None)
    <3>1. y.ver + 1 \in Nat /\ k \in Status
      BY <1>3, <2>1 DEF ItemRow
    <3>2. z = [y EXCEPT !.ver = y.ver + 1, !.status = k]
      OBVIOUS
    <3> HIDE DEF y, k, z, Keep
    <3>3. /\ z \in ItemRow /\ z.del = y.del /\ z.status = k
          /\ z.ver = y.ver + 1
      BY <1>3, <3>1, <3>2 DEF ItemRow
    <3> QED
      BY <1>3, <3>3 DEF k
  <2>3. Marked(z)
    BY <1>0, <1>3, <1>5, <2>2 DEF Marked, Keep
  <2>4. Patched(x, b) = Rescored(z)
    BY <1>5 DEF Patched
  <2> HIDE DEF z
  <2> QED
    BY <2>2, <2>3, <2>4, RescoredType DEF Marked
<1> QED
  BY <1>4, <1>5

(* What an UPDATE stores is a row, and a marked one, if the row that was   *)
(* read and the one that is there now are.                                 *)
LEMMA StoredType ==
  ASSUME NEW old \in ItemRow, NEW seen \in ItemRow, NEW new \in ItemRow,
         Marked(old), Marked(seen), Marked(new),
         seen.del => new.del /\ old.del, new.ver = seen.ver + 1
  PROVE  LET y == Stored(old, seen, new)
         IN y \in ItemRow /\ Marked(y) /\ (old.del => y.del)
<1> DEFINE F == {"ver", "code", "status", "prob", "impact", "dims", "score", "del"}
           y == Stored(old, seen, new)
<1>1. DOMAIN new = F
  BY DEF ItemRow
<1>2. y = [f \in F |-> IF new[f] # seen[f] THEN new[f] ELSE old[f]]
  BY <1>1 DEF Stored
<1>3. y = [ver |-> y.ver, code |-> y.code, status |-> y.status,
           prob |-> y.prob, impact |-> y.impact, dims |-> y.dims,
           score |-> y.score, del |-> y.del]
  BY <1>2
<1>4. \A f \in F : y[f] = new[f] \/ y[f] = old[f]
  BY <1>2
<1>5. y \in ItemRow
  BY <1>3, <1>4 DEF ItemRow
<1>6. /\ y.del = IF new.del # seen.del THEN new.del ELSE old.del
      /\ y.status = IF new.status # seen.status THEN new.status ELSE old.status
      /\ y.ver = IF new.ver # seen.ver THEN new.ver ELSE old.ver
  BY <1>2
<1>7. /\ new.del \in BOOLEAN /\ seen.del \in BOOLEAN /\ old.del \in BOOLEAN
      /\ seen.ver \in Nat
  BY DEF ItemRow
<1> QED
  BY <1>5, <1>6, <1>7 DEF Marked

-----------------------------------------------------------------------------
(* Handlers. *)

(* A request as clients send it. *)
Sound(q) ==
  /\ q.user \in User
  /\ q.op = "grant" => q.to \in User \cup {None} /\ q.role \in Roles
  /\ q.op = "remove" => q.to \in User \cup {None}
  /\ q.op = "create" => q.body \in Drafts
  /\ q.op \in {"patch", "delete"} => q.row \in Item
  /\ q.op = "patch" => q.body \in Patches
  /\ q.op \in {"act", "move"} => q.row \in Item \cup {None}
  /\ q.op \in {"move", "drop"} => q.act \in Action
  /\ q.op = "assess" => q.row \in Item /\ q.body \in Drafts
  /\ q.op = "snapshot" =>
       q.at \in Nat /\ q.types \subseteq {"risk", "opportunity"}
  /\ q.op = "prune" => q.days \in Int

(* What its handler remembers once it has read. *)
Remembers(q, x) ==
  /\ q.op = "create" => Storable(q.body)
  /\ q.op \in {"patch", "delete"} => x \in ItemRow /\ Marked(x)
  /\ q.op = "patch" => Based(x, q.base)
  /\ q.op \in {"move", "drop"} => x \in ActionRow
  /\ q.op = "assess" => x \in Judgement
  /\ q.op = "snapshot" => x \in SUBSET ScoreRow

Slot(s) ==
  \/ srv[s] = Free
  \/ /\ srv[s] = [st |-> srv[s].st, req |-> srv[s].req, seen |-> srv[s].seen]
     /\ srv[s].st \in {"start", "read"}
     /\ Sound(srv[s].req)
     /\ srv[s].st = "read" => Remembers(srv[s].req, srv[s].seen)

(* The row that is about to be written is not less deleted than the one    *)
(* that was read: other handlers only ever add the mark.                   *)
KeepsMark(s) ==
  /\ srv[s] # Free
  /\ srv[s].st = "read"
  /\ srv[s].req.op \in {"patch", "delete"}
  /\ srv[s].seen.del
  => item[srv[s].req.row].del

Slots == DOMAIN srv = Session /\ \A s \in Session : Slot(s)

Rows ==
  /\ item \in [Item -> ItemRow]
  /\ action \in [Action -> ActionRow]
  /\ judged \in [Item \X User -> Judgement]
  /\ snap \in SUBSET Batch
  /\ \A i \in Item : Marked(item[i])

IInv ==
  /\ LogsTypeOK
  /\ member \in [User -> 0 .. Admin]
  /\ stale \in SUBSET Session
  /\ crossed \in SUBSET (Item \cup {"members"})
  /\ ops \in Nat
  /\ Slots
  /\ Rows
  /\ \A s \in Session : KeepsMark(s)

(* A session that works is a record of a request. *)
LEMMA Working ==
  ASSUME Slots, NEW s \in Session, NEW op, NEW st, At(s, op, st)
  PROVE  /\ srv[s] = [st |-> srv[s].st, req |-> srv[s].req, seen |-> srv[s].seen]
         /\ srv[s] # Free /\ srv[s].st = st /\ srv[s].req.op = op
         /\ Sound(srv[s].req)
         /\ st = "read" => Remembers(srv[s].req, srv[s].seen)
  BY DEF Slots, Slot, At

LEMMA Opened ==
  ASSUME Slots, NEW s \in Session, NEW q, Sound(q), Open(s, q)
  PROVE  /\ Slots'
         /\ srv'[s] = [st |-> "start", req |-> q, seen |-> 0]
         /\ \A t \in Session \ {s} : srv'[t] = srv[t]
<1> DEFINE h == [st |-> "start", req |-> q, seen |-> 0]
<1>1. /\ DOMAIN srv' = Session /\ srv'[s] = h
      /\ \A t \in Session \ {s} : srv'[t] = srv[t]
  BY DEF Open, Slots
<1>2. Slot(s)'
  BY <1>1 DEF Slot
<1>3. ASSUME NEW t \in Session \ {s} PROVE Slot(t)'
  BY <1>1, <1>3 DEF Slots, Slot
<1> QED
  BY <1>1, <1>2, <1>3 DEF Slots

LEMMA Freed ==
  ASSUME Slots, NEW s \in Session, srv' = [srv EXCEPT ![s] = Free]
  PROVE  /\ Slots'
         /\ srv'[s] = Free
         /\ \A t \in Session \ {s} : srv'[t] = srv[t]
<1>1. /\ DOMAIN srv' = Session /\ srv'[s] = Free
      /\ \A t \in Session \ {s} : srv'[t] = srv[t]
  BY DEF Slots
<1>2. ASSUME NEW t \in Session \ {s} PROVE Slot(t)'
  BY <1>1, <1>2 DEF Slots, Slot
<1> QED
  BY <1>1, <1>2 DEF Slots, Slot

LEMMA Closed ==
  ASSUME Slots, NEW s \in Session, NEW over, Close(s, over)
  PROVE  /\ Slots'
         /\ srv'[s] = Free
         /\ \A t \in Session \ {s} : srv'[t] = srv[t]
         /\ stale' = {t \in Session \ {s} : srv[t] # Free /\ srv[t].st = "read"}
         /\ crossed' = crossed \cup over
  BY Freed DEF Close

LEMMA Left ==
  ASSUME Slots, NEW s \in Session, Leave(s)
  PROVE  /\ Slots'
         /\ srv'[s] = Free
         /\ \A t \in Session \ {s} : srv'[t] = srv[t]
         /\ stale' = stale \ {s}
         /\ crossed' = crossed
  BY Freed DEF Leave

LEMMA FoundOrClosed ==
  ASSUME Slots, NEW s \in Session, NEW op, At(s, op, "start"), NEW ok, NEW x,
         ok => Remembers(srv[s].req, x), Found(s, ok, x)
  PROVE  /\ Slots'
         /\ \/ srv'[s] = Free
            \/ ok /\ srv'[s] = [st |-> "read", req |-> srv[s].req, seen |-> x]
         /\ \A t \in Session \ {s} : srv'[t] = srv[t]
         /\ stale' = stale \/ stale' = stale \ {s}
         /\ crossed' = crossed
<1> DEFINE h == [st |-> "read", req |-> srv[s].req, seen |-> x]
<1>1. CASE ok
  <2>0. srv[s] = [st |-> srv[s].st, req |-> srv[s].req, seen |-> srv[s].seen]
    BY Working
  <2>1. srv' = [srv EXCEPT ![s].st = "read", ![s].seen = x]
    BY <1>1 DEF Found
  <2>2. /\ DOMAIN srv' = Session /\ srv'[s] = h
        /\ \A t \in Session \ {s} : srv'[t] = srv[t]
    BY <2>0, <2>1 DEF Slots
  <2>3. Slot(s)'
    <3>1. Sound(srv[s].req) /\ Remembers(srv[s].req, x)
      BY <1>1, Working
    <3>2. /\ srv'[s].st = "read" /\ srv'[s].req = srv[s].req
          /\ srv'[s].seen = x
      BY <2>2
    <3>3. srv'[s] = [st |-> srv'[s].st, req |-> srv'[s].req, seen |-> srv'[s].seen]
      BY <2>2
    <3> QED
      BY <3>1, <3>2, <3>3 DEF Slot
  <2>4. ASSUME NEW t \in Session \ {s} PROVE Slot(t)'
    BY <2>2, <2>4 DEF Slots, Slot
  <2> QED
    BY <1>1, <2>2, <2>3, <2>4 DEF Slots, Found
<1>2. CASE ~ok
  BY <1>2, Left DEF Found
<1> QED
  BY <1>1, <1>2

-----------------------------------------------------------------------------
(* The invariant through reads and writes. *)

LEMMA MarkKept ==
  ASSUME IInv, NEW s \in Session,
         \A t \in Session \ {s} : srv'[t] = srv[t],
         KeepsMark(s)',
         \A i \in Item : item[i].del => item'[i].del
  PROVE  \A t \in Session : KeepsMark(t)'
<1>1. ASSUME NEW t \in Session \ {s} PROVE KeepsMark(t)'
  <2>1. SUFFICES ASSUME srv[t] # Free, srv[t].st = "read",
                        srv[t].req.op \in {"patch", "delete"}, srv[t].seen.del
                 PROVE  item'[srv[t].req.row].del
    BY <1>1 DEF KeepsMark
  <2>2. srv[t].req.row \in Item
    BY <1>1, <2>1 DEF IInv, Slots, Slot, Sound
  <2>3. item[srv[t].req.row].del
    BY <1>1, <2>1 DEF IInv, KeepsMark
  <2> QED
    BY <2>2, <2>3
<1> QED
  BY <1>1

(* A handler that reads changes nothing but itself. *)
LEMMA ReadKeeps ==
  ASSUME IInv, NEW s \in Session, NEW op, At(s, op, "start"),
         NEW ok, NEW x, ok => Remembers(srv[s].req, x), Found(s, ok, x),
         op \in {"patch", "delete"} => x = item[srv[s].req.row],
         UNCHANGED <<member, rowVars, logVars, ops>>
  PROVE  IInv'
<1>1. Slots /\ srv[s].req.op = op
  BY DEF IInv, At
<1>2. /\ Slots'
      /\ \/ srv'[s] = Free
         \/ ok /\ srv'[s] = [st |-> "read", req |-> srv[s].req, seen |-> x]
      /\ \A t \in Session \ {s} : srv'[t] = srv[t]
      /\ stale' = stale \/ stale' = stale \ {s}
      /\ crossed' = crossed
  BY <1>1, FoundOrClosed
<1>3. KeepsMark(s)'
  BY <1>1, <1>2 DEF KeepsMark, rowVars
<1>4. \A i \in Item : item[i].del => item'[i].del
  BY DEF rowVars
<1>5. \A t \in Session : KeepsMark(t)'
  BY <1>2, <1>3, <1>4, MarkKept
<1>6. Rows'
  BY DEF IInv, Rows, rowVars
<1> QED
  BY <1>2, <1>5, <1>6 DEF IInv, LogsTypeOK, logVars

(* A handler that writes well-typed rows and takes no mark away. *)
LEMMA WriteKeeps ==
  ASSUME IInv, NEW s \in Session,
         NEW over \in SUBSET (Item \cup {"members"}), Close(s, over), Rows',
         \A i \in Item : item[i].del => item'[i].del,
         member' \in [User -> 0 .. Admin],
         UNCHANGED <<logVars, ops>>
  PROVE  IInv'
<1>1. /\ Slots'
      /\ srv'[s] = Free
      /\ \A t \in Session \ {s} : srv'[t] = srv[t]
      /\ stale' \in SUBSET Session
      /\ crossed' = crossed \cup over
  BY Closed DEF IInv
<1>2. \A t \in Session : KeepsMark(t)'
  BY <1>1, MarkKept DEF KeepsMark
<1> QED
  BY <1>1, <1>2 DEF IInv, LogsTypeOK, logVars

LEMMA MemberStepKeeps ==
  ASSUME IInv, NEW s \in Session, MemberStep(s),
         UNCHANGED <<rowVars, logVars, ops>>
  PROVE  IInv'
<1>0. /\ Slots /\ member \in [User -> 0 .. Admin]
      /\ Roles \subseteq 0 .. Admin /\ Admin \in 0 .. Admin
      /\ 0 \in 0 .. Admin
  BY RegisterAssumption DEF IInv, Viewer, Admin
<1>1. Rows' /\ \A i \in Item : item[i].del => item'[i].del
  BY DEF IInv, Rows, rowVars
<1>2. CASE CreateProject(s)
  <2>1. member' \in [User -> 0 .. Admin] /\ Close(s, {})
    BY <1>0, <1>2 DEF CreateProject
  <2> QED
    BY <1>1, <2>1, WriteKeeps
<1>3. CASE CheckGrant(s)
  <2>1. At(s, "grant", "start") /\ UNCHANGED member
    BY <1>3 DEF CheckGrant
  <2>2. srv[s].req.op = "grant"
    BY <2>1 DEF At
  <2>3. \A x : Remembers(srv[s].req, x)
    BY <2>2 DEF Remembers
  <2>4. CASE srv[s].req.to = None
    <3> DEFINE ok == FALSE
    <3>1. Found(s, ok, 0)
      BY <1>3, <2>4 DEF CheckGrant, Found
    <3>2. ok => Remembers(srv[s].req, 0)
      OBVIOUS
    <3> HIDE DEF ok
    <3> QED
      BY <2>1, <3>1, <3>2, ReadKeeps
  <2>5. CASE srv[s].req.to # None
    <3> DEFINE ok == /\ Permits(s, Admin)
                     /\ srv[s].req.role # Admin => KeepsAnother(srv[s].req.to)
    <3>1. Found(s, ok, member[srv[s].req.to])
      BY <1>3, <2>5 DEF CheckGrant
    <3> HIDE DEF ok
    <3> QED
      BY <2>1, <2>3, <3>1, ReadKeeps
  <2> QED
    BY <2>4, <2>5
<1>4. CASE Grant(s)
  <2> DEFINE over == Unchecked(s, srv[s].req.role)
  <2>1. At(s, "grant", "read") /\ Close(s, over)
    BY <1>4 DEF Grant
  <2>5. over \in SUBSET (Item \cup {"members"})
    BY DEF Unchecked
  <2> HIDE DEF over
  <2>2. Sound(srv[s].req) /\ srv[s].req.op = "grant"
    BY <1>0, <2>1, Working
  <2>3. srv[s].req.role \in 0 .. Admin
    BY <1>0, <2>2 DEF Sound
  <2>4. member' \in [User -> 0 .. Admin]
    BY <1>0, <1>4, <2>3 DEF Grant
  <2> QED
    BY <1>1, <2>1, <2>4, <2>5, WriteKeeps
<1>5. CASE CheckRemove(s)
  <2>1. At(s, "remove", "start") /\ UNCHANGED member
    BY <1>5 DEF CheckRemove
  <2>2. srv[s].req.op = "remove"
    BY <2>1 DEF At
  <2>3. \A x : Remembers(srv[s].req, x)
    BY <2>2 DEF Remembers
  <2>4. CASE srv[s].req.to = None
    <3> DEFINE ok == FALSE
    <3>1. Found(s, ok, 0)
      BY <1>5, <2>4 DEF CheckRemove, Found
    <3>2. ok => Remembers(srv[s].req, 0)
      OBVIOUS
    <3> HIDE DEF ok
    <3> QED
      BY <2>1, <3>1, <3>2, ReadKeeps
  <2>5. CASE srv[s].req.to # None
    <3> DEFINE ok == /\ Permits(s, Admin) /\ member[srv[s].req.to] # 0
                     /\ KeepsAnother(srv[s].req.to)
    <3>1. Found(s, ok, member[srv[s].req.to])
      BY <1>5, <2>5 DEF CheckRemove
    <3> HIDE DEF ok
    <3> QED
      BY <2>1, <2>3, <3>1, ReadKeeps
  <2> QED
    BY <2>4, <2>5
<1>6. CASE Remove(s)
  <2> DEFINE over == Unchecked(s, 0)
  <2>1. member' \in [User -> 0 .. Admin] /\ Close(s, over)
    BY <1>0, <1>6 DEF Remove
  <2>2. over \in SUBSET (Item \cup {"members"})
    BY DEF Unchecked
  <2> HIDE DEF over
  <2> QED
    BY <1>1, <2>1, <2>2, WriteKeeps
<1> QED
  BY <1>2, <1>3, <1>4, <1>5, <1>6 DEF MemberStep

(* Rows of items. *)
LEMMA ItemWriteKeeps ==
  ASSUME IInv, NEW s \in Session,
         NEW over \in SUBSET (Item \cup {"members"}), Close(s, over),
         NEW i \in Item, NEW y \in ItemRow, Marked(y), item[i].del => y.del,
         item' = item \/ item' = [item EXCEPT ![i] = y],
         UNCHANGED <<member, action, judged, snap, logVars, ops>>
  PROVE  IInv'
<1>1. item \in [Item -> ItemRow] /\ \A j \in Item : Marked(item[j])
  BY DEF IInv, Rows
<1>2. item' \in [Item -> ItemRow]
  BY <1>1
<1>3. \A j \in Item : item'[j] = item[j] \/ (j = i /\ item'[j] = y)
  BY <1>1
<1>4. \A j \in Item : item[j].del => item'[j].del
  BY <1>3
<1>5. \A j \in Item : Marked(item'[j])
  BY <1>1, <1>3
<1>6. Rows'
  BY <1>2, <1>5 DEF IInv, Rows, Marked
<1>7. member' \in [User -> 0 .. Admin]
  BY DEF IInv
<1> QED
  BY <1>4, <1>6, <1>7, WriteKeeps

LEMMA DraftType ==
  ASSUME NEW b \in Drafts
  PROVE  b \in Body /\ b.prob \in Scale /\ b.impact \in Scale
<1>1. b \in Body /\ b.prob # 0 /\ b.impact # 0
  BY RegisterAssumption
<1> QED
  BY <1>1 DEF Body, Scale

LEMMA CreateKeeps ==
  ASSUME IInv, NEW s \in Session, Create(s), UNCHANGED <<logVars, ops>>
  PROVE  IInv'
<1> DEFINE b == srv[s].req.body
<1>0. At(s, "create", "read")
  BY DEF Create
<1>1. b \in Drafts /\ Storable(b)
  BY <1>0, Working DEF IInv, Sound, Remembers
<1>2. PICK i \in Item :
        /\ item[i].ver = 0
        /\ item' = IF CodeFree(Keep(i, b.code, None), i)
                   THEN [item EXCEPT ![i] = Rescored(
                     [ver |-> 1, code |-> Keep(i, b.code, None),
                      status |-> Keep("concept", b.status, None),
                      prob |-> b.prob, impact |-> b.impact,
                      dims |-> Merge(NoItem.dims, b.dims), score |-> 0,
                      del |-> FALSE])]
                   ELSE item
  BY DEF Create
<1> DEFINE x == [ver |-> 1, code |-> Keep(i, b.code, None),
                 status |-> Keep("concept", b.status, None),
                 prob |-> b.prob, impact |-> b.impact,
                 dims |-> Merge(NoItem.dims, b.dims), score |-> 0,
                 del |-> FALSE]
<1>3. NoItem.dims \in [Dim -> 0 .. 5]
  BY DEF NoItem
<1>4. /\ Keep(i, b.code, None) \in {"x", None} \cup Item
      /\ Keep("concept", b.status, None) \in Status
      /\ Keep("concept", b.status, None) # "deleted"
  BY <1>1, DraftType DEF Keep, Body, Status, Storable
<1>5. Merge(NoItem.dims, b.dims) \in [Dim -> 0 .. 5]
  BY <1>1, <1>3, DraftType, MergeType
<1>6. b.prob \in Scale /\ b.impact \in Scale
  BY <1>1, DraftType
<1>7. x \in ItemRow /\ x.ver = 1 /\ x.status # "deleted"
  <2> HIDE DEF b
  <2> QED
    BY <1>4, <1>5, <1>6 DEF ItemRow
<1> DEFINE y == Rescored(x)
<1>8. y \in ItemRow /\ Marked(y)
  <2> HIDE DEF x
  <2> QED
    BY <1>7, RescoredType DEF Marked
<1>9. ~item[i].del
  BY <1>2 DEF IInv, Rows, Marked
<1>10. item' = item \/ item' = [item EXCEPT ![i] = y]
  BY <1>2
<1>11. Close(s, {}) /\ UNCHANGED <<member, action, judged, snap>>
  BY DEF Create
<1> HIDE DEF y
<1> QED
  BY <1>8, <1>9, <1>10, <1>11, ItemWriteKeeps

LEMMA EditKeeps ==
  ASSUME IInv, NEW s \in Session, Patch(s) \/ Delete(s),
         UNCHANGED <<logVars, ops>>
  PROVE  IInv'
<1> DEFINE q == srv[s].req
           x == srv[s].seen
           old == item[q.row]
<1>0. At(s, "patch", "read") \/ At(s, "delete", "read")
  BY DEF Patch, Delete
<1>1. /\ Sound(q) /\ q.op \in {"patch", "delete"} /\ Remembers(q, x)
      /\ srv[s] # Free /\ srv[s].st = "read"
  BY <1>0, Working DEF IInv
<1>2. q.row \in Item /\ x \in ItemRow /\ Marked(x)
  BY <1>1 DEF Sound, Remembers
<1>3. old \in ItemRow /\ Marked(old) /\ (x.del => old.del)
  BY <1>1, <1>2 DEF IInv, Rows, KeepsMark
<1> DEFINE over == WrittenOver(s)
<1>4. Close(s, over) /\ UNCHANGED <<member, action, judged, snap>>
  BY DEF Patch, Delete
<1>7. over \in SUBSET (Item \cup {"members"})
  BY <1>2 DEF WrittenOver
<1> HIDE DEF over
<1>5. CASE Patch(s)
  <2> DEFINE new == Patched(x, q.body)
             y == Stored(old, x, new)
  <2>1. q.body \in Body
    BY <1>1, <1>5, RegisterAssumption DEF Patch, At, Sound
  <2>2. /\ new \in ItemRow /\ Marked(new) /\ (x.del => new.del)
        /\ new.ver = x.ver + 1
    BY <1>2, <2>1, PatchedType
  <2>3. item' = item \/ item' = [item EXCEPT ![q.row] = y]
    BY <1>5 DEF Patch
  <2> HIDE DEF x, old, new
  <2>4. y \in ItemRow /\ Marked(y) /\ (old.del => y.del)
    BY <1>2, <1>3, <2>2, StoredType
  <2> HIDE DEF y, q
  <2> QED
    BY <1>2, <1>4, <1>7, <2>3, <2>4, ItemWriteKeeps DEF old
<1>6. CASE Delete(s)
  <2> DEFINE new == SoftDeleted(x)
             y == Stored(old, x, new)
  <2>2. new \in ItemRow /\ new.del /\ new.ver = x.ver + 1
    BY <1>2, SoftDeletedType
  <2>3. item' = [item EXCEPT ![q.row] = y]
    BY <1>6 DEF Delete
  <2>5. Marked(new)
    BY <1>2, <2>2 DEF Marked, ItemRow
  <2> HIDE DEF x, old, new
  <2>4. y \in ItemRow /\ Marked(y) /\ (old.del => y.del)
    BY <1>2, <1>3, <2>2, <2>5, StoredType
  <2> HIDE DEF y, q
  <2> QED
    BY <1>2, <1>4, <1>7, <2>3, <2>4, ItemWriteKeeps DEF old
<1> QED
  BY <1>5, <1>6

(* Rows of actions, of assessments and of snapshots. *)
LEMMA StoredAction ==
  ASSUME NEW old \in ActionRow, NEW seen \in ActionRow, NEW new \in ActionRow
  PROVE  Stored(old, seen, new) \in ActionRow
<1> DEFINE F == {"ver", "item", "del"}
           y == Stored(old, seen, new)
<1>1. DOMAIN new = F
  BY DEF ActionRow
<1>2. y = [f \in F |-> IF new[f] # seen[f] THEN new[f] ELSE old[f]]
  BY <1>1 DEF Stored
<1>3. y = [ver |-> y.ver, item |-> y.item, del |-> y.del]
  BY <1>2
<1>4. \A f \in F : y[f] = new[f] \/ y[f] = old[f]
  BY <1>2
<1> QED
  BY <1>3, <1>4 DEF ActionRow

LEMMA StoredJudgement ==
  ASSUME NEW old \in Judgement, NEW seen \in Judgement, NEW new \in Judgement
  PROVE  Stored(old, seen, new) \in Judgement
<1> DEFINE F == {"ver", "score"}
           y == Stored(old, seen, new)
<1>1. DOMAIN new = F
  BY DEF Judgement
<1>2. y = [f \in F |-> IF new[f] # seen[f] THEN new[f] ELSE old[f]]
  BY <1>1 DEF Stored
<1>3. y = [ver |-> y.ver, score |-> y.score]
  BY <1>2
<1>4. \A f \in F : y[f] = new[f] \/ y[f] = old[f]
  BY <1>2
<1> QED
  BY <1>3, <1>4 DEF Judgement

LEMMA RowOfAction ==
  ASSUME NEW x \in ActionRow
  PROVE  /\ \A i \in Item \cup {None} :
              [x EXCEPT !.ver = @ + 1, !.item = i] \in ActionRow
         /\ [x EXCEPT !.ver = @ + 1, !.del = TRUE] \in ActionRow
<1> DEFINE n == x.ver + 1
<1>1. n \in Nat
  BY DEF ActionRow
<1> HIDE DEF n
<1>2. ASSUME NEW i \in Item \cup {None}
      PROVE  [x EXCEPT !.ver = n, !.item = i] \in ActionRow
  BY <1>1 DEF ActionRow
<1>3. [x EXCEPT !.ver = n, !.del = TRUE] \in ActionRow
  BY <1>1 DEF ActionRow
<1> QED
  BY <1>2, <1>3 DEF n

LEMMA ActionType ==
  ASSUME IInv, NEW s \in Session,
         NewAction(s) \/ MoveAction(s) \/ DropAction(s)
  PROVE  action' \in [Action -> ActionRow]
<1> DEFINE q == srv[s].req
           x == srv[s].seen
<1>0. action \in [Action -> ActionRow]
  BY DEF IInv, Rows
<1>1. CASE NewAction(s)
  <2>1. At(s, "act", "read")
    BY <1>1 DEF NewAction
  <2>2. q.row \in Item \cup {None}
    BY <2>1, Working DEF IInv, Sound
  <2>3. [ver |-> 1, item |-> q.row, del |-> FALSE] \in ActionRow
    BY <2>2 DEF ActionRow
  <2> QED
    BY <1>0, <1>1, <2>3 DEF NewAction
<1> HIDE DEF q
<1>2. ASSUME At(s, "move", "read") \/ At(s, "drop", "read")
      PROVE  /\ x \in ActionRow
             /\ q.op = "move" => q.row \in Item \cup {None}
  BY <1>2, Working DEF IInv, Sound, Remembers, q
<1>3. CASE MoveAction(s)
  <2>1. At(s, "move", "read") /\ q.op = "move"
    BY <1>3 DEF MoveAction, At, q
  <2>2. x \in ActionRow /\ q.row \in Item \cup {None}
    BY <1>2, <2>1
  <2> DEFINE new == [x EXCEPT !.ver = @ + 1, !.item = Keep(@, q.row, None)]
  <2>3. Keep(x.item, q.row, None) \in Item \cup {None}
    BY <2>2 DEF Keep, ActionRow
  <2>4. new \in ActionRow
    BY <2>2, <2>3, RowOfAction
  <2>5. action' = [action EXCEPT ![q.act] = Stored(action[q.act], x, new)]
    BY <1>3 DEF MoveAction, q
  <2> HIDE DEF new
  <2> QED
    BY <1>0, <2>2, <2>4, <2>5, StoredAction
<1>4. CASE DropAction(s)
  <2>1. At(s, "drop", "read")
    BY <1>4 DEF DropAction
  <2>2. x \in ActionRow
    BY <1>2, <2>1
  <2> DEFINE new == [x EXCEPT !.ver = @ + 1, !.del = TRUE]
  <2>4. new \in ActionRow
    BY <2>2, RowOfAction
  <2>5. action' = [action EXCEPT ![q.act] = Stored(action[q.act], x, new)]
    BY <1>4 DEF DropAction, q
  <2> HIDE DEF new
  <2> QED
    BY <1>0, <2>2, <2>4, <2>5, StoredAction
<1> QED
  BY <1>1, <1>3, <1>4

LEMMA AssessType ==
  ASSUME IInv, NEW s \in Session, Assess(s)
  PROVE  judged' \in [Item \X User -> Judgement]
<1> DEFINE q == srv[s].req
           j == srv[s].seen
           new == [ver |-> j.ver + 1, score |-> q.body.prob * q.body.impact]
           k == <<q.row, q.user>>
           y == Stored(judged[k], j, new)
<1>0. At(s, "assess", "read")
  BY DEF Assess
<1>1. /\ q.row \in Item /\ q.user \in User /\ q.body \in Drafts
      /\ j \in Judgement
  BY <1>0, Working DEF IInv, Sound, Remembers
<1>2. q.body.prob * q.body.impact \in 0 .. 25
  BY <1>1, DraftType, ScoreBound
<1>3. new \in Judgement
  BY <1>1, <1>2 DEF Judgement
<1>4. judged \in [Item \X User -> Judgement] /\ k \in Item \X User
  BY <1>1 DEF IInv, Rows
<1>5. judged' = judged \/ judged' = [judged EXCEPT ![k] = y]
  BY DEF Assess
<1> HIDE DEF k, j, new
<1>6. y \in Judgement
  BY <1>1, <1>3, <1>4, StoredJudgement
<1> HIDE DEF y
<1> QED
  BY <1>4, <1>5, <1>6

LEMMA WantedType ==
  ASSUME IInv, NEW q, NEW t
  PROVE  Wanted(q, t) \in SUBSET ScoreRow
<1>1. \A i \in Item : item[i].score \in 0 .. 25
  BY DEF IInv, Rows, ItemRow
<1> QED
  BY <1>1 DEF Wanted, LiveScores, ScoreRow

LEMMA SaveBatchType ==
  ASSUME IInv, NEW s \in Session, SaveBatch(s)
  PROVE  snap' \in SUBSET Batch
<1> DEFINE q == srv[s].req
           b == [at |-> q.at, risk |-> srv[s].seen,
                 opportunity |-> Wanted(q, "opportunity")]
<1>0. At(s, "snapshot", "read")
  BY DEF SaveBatch
<1>1. q.at \in Nat /\ srv[s].seen \in SUBSET ScoreRow
  BY <1>0, Working DEF IInv, Sound, Remembers
<1>2. b \in Batch
  BY <1>1, WantedType DEF Batch
<1>3. snap' = snap \/ snap' = snap \cup {b}
  BY DEF SaveBatch
<1> HIDE DEF b
<1> QED
  BY <1>2, <1>3 DEF IInv, Rows

LEMMA RowStepKeeps ==
  ASSUME IInv, NEW s \in Session, RowStep(s), UNCHANGED <<logVars, ops>>
  PROVE  IInv'
<1>0. Slots /\ member \in [User -> 0 .. Admin] /\ Rows
  BY DEF IInv
<1>1. CASE Create(s)
  BY <1>1, CreateKeeps
<1>2. CASE Patch(s) \/ Delete(s)
  BY <1>2, EditKeeps
<1>3. CASE NewAction(s) \/ MoveAction(s) \/ DropAction(s)
  <2>1. action' \in [Action -> ActionRow]
    BY <1>3, ActionType
  <2>2. Close(s, {}) /\ UNCHANGED <<member, item, judged, snap>>
    BY <1>3 DEF NewAction, MoveAction, DropAction
  <2>3. Rows' /\ \A i \in Item : item[i].del => item'[i].del
    BY <1>0, <2>1, <2>2 DEF Rows, Marked
  <2> QED
    BY <1>0, <2>2, <2>3, WriteKeeps
<1>4. CASE Assess(s)
  <2>1. judged' \in [Item \X User -> Judgement]
    BY <1>4, AssessType
  <2>2. Close(s, {}) /\ UNCHANGED <<member, item, action, snap>>
    BY <1>4 DEF Assess
  <2>3. Rows' /\ \A i \in Item : item[i].del => item'[i].del
    BY <1>0, <2>1, <2>2 DEF Rows, Marked
  <2> QED
    BY <1>0, <2>2, <2>3, WriteKeeps
<1>5. CASE SaveBatch(s)
  <2>1. snap' \in SUBSET Batch
    BY <1>5, SaveBatchType
  <2>2. Close(s, {}) /\ UNCHANGED <<member, item, action, judged>>
    BY <1>5 DEF SaveBatch
  <2>3. Rows' /\ \A i \in Item : item[i].del => item'[i].del
    BY <1>0, <2>1, <2>2 DEF Rows, Marked
  <2> QED
    BY <1>0, <2>2, <2>3, WriteKeeps
<1>6. CASE CheckCreate(s)
  <2> DEFINE ok == Permits(s, Member) /\ Storable(srv[s].req.body)
  <2>1. /\ At(s, "create", "start") /\ Found(s, ok, 0)
        /\ UNCHANGED <<member, rowVars>> /\ srv[s].req.op = "create"
    BY <1>6 DEF CheckCreate, At
  <2>2. ok => Remembers(srv[s].req, 0)
    BY <2>1 DEF Remembers
  <2> HIDE DEF ok
  <2> QED
    BY <2>1, <2>2, ReadKeeps
<1>7. CASE CheckPatch(s)
  <2> DEFINE x == item[srv[s].req.row]
             ok == /\ Permits(s, RankToPatch(srv[s].req.body))
                   /\ Based(item[srv[s].req.row], srv[s].req.base)
  <2>1. /\ At(s, "patch", "start") /\ Found(s, ok, x)
        /\ UNCHANGED <<member, rowVars>>
    BY <1>7 DEF CheckPatch
  <2>2. srv[s].req.op = "patch" /\ srv[s].req.row \in Item
    BY <1>0, <2>1, Working DEF Sound
  <2>3. ok => Remembers(srv[s].req, x)
    BY <1>0, <2>2 DEF Remembers, Rows
  <2> HIDE DEF ok
  <2> QED
    BY <2>1, <2>3, ReadKeeps
<1>8. CASE CheckDelete(s)
  <2> DEFINE x == item[srv[s].req.row]
             ok == Permits(s, Manager) /\ item[srv[s].req.row].ver # 0
  <2>1. /\ At(s, "delete", "start") /\ Found(s, ok, x)
        /\ UNCHANGED <<member, rowVars>>
    BY <1>8 DEF CheckDelete
  <2>2. srv[s].req.op = "delete" /\ srv[s].req.row \in Item
    BY <1>0, <2>1, Working DEF Sound
  <2>3. Remembers(srv[s].req, x)
    BY <1>0, <2>2 DEF Remembers, Rows
  <2> HIDE DEF ok
  <2> QED
    BY <2>1, <2>3, ReadKeeps
<1>9. CASE CheckNewAction(s)
  <2> DEFINE x == 0
             ok == Permits(s, Member) /\ Target(srv[s].req)
  <2>1. /\ At(s, "act", "start") /\ Found(s, ok, x)
        /\ UNCHANGED <<member, rowVars>>
    BY <1>9 DEF CheckNewAction
  <2>2. srv[s].req.op = "act" /\ Sound(srv[s].req)
    BY <1>0, <2>1, Working
  <2>3. Remembers(srv[s].req, x)
    BY <1>0, <2>2 DEF Remembers, Sound, Rows
  <2> HIDE DEF ok, x
  <2> QED
    BY <2>1, <2>2, <2>3, ReadKeeps
<1>10. CASE CheckMoveAction(s)
  <2> DEFINE x == action[srv[s].req.act]
             ok == /\ Permits(s, Member)
                   /\ action[srv[s].req.act].ver # 0 /\ ~action[srv[s].req.act].del
                   /\ srv[s].req.row # None => Target(srv[s].req)
  <2>1. /\ At(s, "move", "start") /\ Found(s, ok, x)
        /\ UNCHANGED <<member, rowVars>>
    BY <1>10 DEF CheckMoveAction
  <2>2. srv[s].req.op = "move" /\ Sound(srv[s].req)
    BY <1>0, <2>1, Working
  <2>3. Remembers(srv[s].req, x)
    BY <1>0, <2>2 DEF Remembers, Sound, Rows
  <2> HIDE DEF ok, x
  <2> QED
    BY <2>1, <2>2, <2>3, ReadKeeps
<1>11. CASE CheckDropAction(s)
  <2> DEFINE x == action[srv[s].req.act]
             ok == Permits(s, Manager) /\ action[srv[s].req.act].ver # 0
  <2>1. /\ At(s, "drop", "start") /\ Found(s, ok, x)
        /\ UNCHANGED <<member, rowVars>>
    BY <1>11 DEF CheckDropAction
  <2>2. srv[s].req.op = "drop" /\ Sound(srv[s].req)
    BY <1>0, <2>1, Working
  <2>3. Remembers(srv[s].req, x)
    BY <1>0, <2>2 DEF Remembers, Sound, Rows
  <2> HIDE DEF ok, x
  <2> QED
    BY <2>1, <2>2, <2>3, ReadKeeps
<1>12. CASE CheckAssess(s)
  <2> DEFINE x == judged[<<srv[s].req.row, srv[s].req.user>>]
             ok == /\ Permits(s, Member) /\ Live(srv[s].req.row)
                   /\ x.ver # 0 => srv[s].req.base \in {0, x.ver}
  <2>1. /\ At(s, "assess", "start") /\ Found(s, ok, x)
        /\ UNCHANGED <<member, rowVars>>
    BY <1>12 DEF CheckAssess
  <2>2. srv[s].req.op = "assess" /\ Sound(srv[s].req)
    BY <1>0, <2>1, Working
  <2>3. Remembers(srv[s].req, x)
    BY <1>0, <2>2 DEF Remembers, Sound, Rows
  <2> HIDE DEF ok, x
  <2> QED
    BY <2>1, <2>2, <2>3, ReadKeeps
<1>13. CASE ReadRisks(s)
  <2> DEFINE x == Wanted(srv[s].req, "risk")
             ok == Permits(s, Member)
  <2>1. /\ At(s, "snapshot", "start") /\ Found(s, ok, x)
        /\ UNCHANGED <<member, rowVars>>
    BY <1>13 DEF ReadRisks
  <2>2. srv[s].req.op = "snapshot" /\ Sound(srv[s].req)
    BY <1>0, <2>1, Working
  <2>3. Remembers(srv[s].req, x)
    BY <1>0, <2>2, WantedType DEF Remembers, Sound, Rows
  <2> HIDE DEF ok, x
  <2> QED
    BY <2>1, <2>2, <2>3, ReadKeeps
<1>14. CASE CheckPrune(s)
  <2> DEFINE x == 0
             ok == Permits(s, Admin)
  <2>1. /\ At(s, "prune", "start") /\ Found(s, ok, x)
        /\ UNCHANGED <<member, rowVars>>
    BY <1>14 DEF CheckPrune
  <2>2. srv[s].req.op = "prune" /\ Sound(srv[s].req)
    BY <1>0, <2>1, Working
  <2>3. Remembers(srv[s].req, x)
    BY <1>0, <2>2 DEF Remembers, Sound, Rows
  <2> HIDE DEF ok, x
  <2> QED
    BY <2>1, <2>2, <2>3, ReadKeeps
<1> QED
  BY <1>1, <1>2, <1>3, <1>4, <1>5, <1>6, <1>7, <1>8, <1>9, <1>10, <1>11,
     <1>12, <1>13, <1>14 DEF RowStep

LEMMA PruneKeeps ==
  ASSUME IInv, NEW s \in Session, PruneLogs(s), UNCHANGED ops
  PROVE  IInv'
<1> DEFINE days == srv[s].req.days
<1>1. /\ receipt' = [c \in Change |-> {t \in receipt[c] : t >= now - Days(days)}]
      /\ UNCHANGED <<applied, now>>
  BY DEF PruneLogs, Prune
<1>2. LogsTypeOK'
  BY <1>1 DEF IInv, LogsTypeOK
<1>3. /\ Slots'
      /\ srv'[s] = Free
      /\ \A t \in Session \ {s} : srv'[t] = srv[t]
      /\ stale' = stale \ {s} /\ crossed' = crossed
  BY Left DEF IInv, PruneLogs
<1>4. Rows' /\ \A i \in Item : item[i].del => item'[i].del
  BY DEF IInv, Rows, PruneLogs, rowVars
<1>5. \A t \in Session : KeepsMark(t)'
  BY <1>3, <1>4, MarkKept DEF KeepsMark
<1>6. UNCHANGED <<member, ops>>
  BY DEF PruneLogs
<1> QED
  BY <1>2, <1>3, <1>4, <1>5, <1>6 DEF IInv

(* Whatever is asked is a sound request. *)
LEMMA AskIsSound ==
  ASSUME NEW s \in Session, Ask(s), IInv
  PROVE  \E q : Sound(q) /\ Open(s, q)
<1>1. PICK u \in User :
        \/ AskMembers(s, u) \/ AskPrune(s, u) \/ AskRisks(s, u)
        \/ AskOpportunities(s, u) \/ AskAssessments(s, u) \/ AskActions(s, u)
        \/ AskSnapshot(s, u)
  BY DEF Ask
<1>2. CASE AskMembers(s, u)
  <2>1. CASE Open(s, [op |-> "project", user |-> u])
    <3>1. Sound([op |-> "project", user |-> u])
      BY DEF Sound
    <3> QED
      BY <2>1, <3>1
  <2>2. CASE \E v \in User \cup {None}, r \in Roles :
               Open(s, [op |-> "grant", user |-> u, to |-> v, role |-> r])
    <3>1. PICK v \in User \cup {None}, r \in Roles :
            Open(s, [op |-> "grant", user |-> u, to |-> v, role |-> r])
      BY <2>2
    <3>2. Sound([op |-> "grant", user |-> u, to |-> v, role |-> r])
      BY DEF Sound
    <3> QED
      BY <3>1, <3>2
  <2>3. CASE \E v \in User \cup {None} :
               Open(s, [op |-> "remove", user |-> u, to |-> v])
    <3>1. PICK v \in User \cup {None} :
            Open(s, [op |-> "remove", user |-> u, to |-> v])
      BY <2>3
    <3>2. Sound([op |-> "remove", user |-> u, to |-> v])
      BY DEF Sound
    <3> QED
      BY <3>1, <3>2
  <2> QED
    BY <1>2, <2>1, <2>2, <2>3 DEF AskMembers
<1>3. CASE AskPrune(s, u)
  <2>1. PICK d \in Wishes : Open(s, [op |-> "prune", user |-> u, days |-> d])
    BY <1>3 DEF AskPrune
  <2>2. Sound([op |-> "prune", user |-> u, days |-> d])
    BY <2>1, RegisterAssumption DEF Sound
  <2> QED
    BY <2>1, <2>2
<1>4. ASSUME NEW t, AskItems(s, u, t) PROVE \E q : Sound(q) /\ Open(s, q)
  <2>1. CASE \E b \in Drafts :
               Open(s, [op |-> "create", user |-> u, type |-> t, body |-> b])
    <3>1. PICK b \in Drafts :
            Open(s, [op |-> "create", user |-> u, type |-> t, body |-> b])
      BY <2>1
    <3>2. Sound([op |-> "create", user |-> u, type |-> t, body |-> b])
      BY DEF Sound
    <3> QED
      BY <3>1, <3>2
  <2>2. CASE \E i \in Item, b \in Patches : \E n \in 0 .. item[i].ver :
               Open(s, [op |-> "patch", user |-> u, row |-> i, base |-> n,
                        body |-> b])
    <3>1. PICK i \in Item, b \in Patches : \E n \in 0 .. item[i].ver :
            Open(s, [op |-> "patch", user |-> u, row |-> i, base |-> n,
                     body |-> b])
      BY <2>2
    <3>2. PICK n \in 0 .. item[i].ver :
            Open(s, [op |-> "patch", user |-> u, row |-> i, base |-> n,
                     body |-> b])
      BY <3>1
    <3>3. Sound([op |-> "patch", user |-> u, row |-> i, base |-> n, body |-> b])
      BY DEF Sound
    <3> QED
      BY <3>2, <3>3
  <2>3. CASE \E i \in Item : Open(s, [op |-> "delete", user |-> u, row |-> i])
    <3>1. PICK i \in Item : Open(s, [op |-> "delete", user |-> u, row |-> i])
      BY <2>3
    <3>2. Sound([op |-> "delete", user |-> u, row |-> i])
      BY DEF Sound
    <3> QED
      BY <3>1, <3>2
  <2> QED
    BY <1>4, <2>1, <2>2, <2>3 DEF AskItems
<1>5. CASE AskAssessments(s, u)
  <2>1. PICK i \in Item, b \in Drafts, n \in {0, 1} :
          Open(s, [op |-> "assess", user |-> u, row |-> i, base |-> n,
                   body |-> b])
    BY <1>5 DEF AskAssessments
  <2>2. Sound([op |-> "assess", user |-> u, row |-> i, base |-> n, body |-> b])
    BY DEF Sound
  <2> QED
    BY <2>1, <2>2
<1>6. CASE AskActions(s, u)
  <2>1. CASE \E i \in Item \cup {None}, t \in {"risk", "opportunity"} :
               Open(s, [op |-> "act", user |-> u, row |-> i, type |-> t])
    <3>1. PICK i \in Item \cup {None}, t \in {"risk", "opportunity"} :
            Open(s, [op |-> "act", user |-> u, row |-> i, type |-> t])
      BY <2>1
    <3>2. Sound([op |-> "act", user |-> u, row |-> i, type |-> t])
      BY DEF Sound
    <3> QED
      BY <3>1, <3>2
  <2>2. CASE \E i \in Item \cup {None}, t \in {"risk", "opportunity"},
                a \in Action :
               Open(s, [op |-> "move", user |-> u, act |-> a, row |-> i,
                        type |-> t])
    <3>1. PICK i \in Item \cup {None}, t \in {"risk", "opportunity"},
               a \in Action :
            Open(s, [op |-> "move", user |-> u, act |-> a, row |-> i, type |-> t])
      BY <2>2
    <3>2. Sound([op |-> "move", user |-> u, act |-> a, row |-> i, type |-> t])
      BY DEF Sound
    <3> QED
      BY <3>1, <3>2
  <2>3. CASE \E a \in Action : Open(s, [op |-> "drop", user |-> u, act |-> a])
    <3>1. PICK a \in Action : Open(s, [op |-> "drop", user |-> u, act |-> a])
      BY <2>3
    <3>2. Sound([op |-> "drop", user |-> u, act |-> a])
      BY DEF Sound
    <3> QED
      BY <3>1, <3>2
  <2> QED
    BY <1>6, <2>1, <2>2, <2>3 DEF AskActions
<1>7. CASE AskSnapshot(s, u)
  <2>1. PICK T \in SUBSET {"risk", "opportunity"} \ {{}} :
          Open(s, [op |-> "snapshot", user |-> u, types |-> T, at |-> ops + 1])
    BY <1>7 DEF AskSnapshot
  <2>2. ops + 1 \in Nat
    BY DEF IInv
  <2>3. Sound([op |-> "snapshot", user |-> u, types |-> T, at |-> ops + 1])
    BY <2>2 DEF Sound
  <2> QED
    BY <2>1, <2>3
<1> QED
  BY <1>1, <1>2, <1>3, <1>4, <1>5, <1>6, <1>7 DEF AskRisks, AskOpportunities

LEMMA AskKeeps ==
  ASSUME IInv, NEW s \in Session, Ask(s)
  PROVE  IInv'
<1>1. PICK q : Sound(q) /\ Open(s, q)
  BY AskIsSound
<1>2. /\ Slots'
      /\ srv'[s] = [st |-> "start", req |-> q, seen |-> 0]
      /\ \A t \in Session \ {s} : srv'[t] = srv[t]
  BY <1>1, Opened DEF IInv
<1>3. UNCHANGED <<member, rowVars, logVars>> /\ ops' = ops + 1
  BY DEF Ask, Count
<1>4. UNCHANGED <<stale, crossed>>
  BY <1>1 DEF Open
<1>5. KeepsMark(s)'
  BY <1>2 DEF KeepsMark
<1>6. \A t \in Session : KeepsMark(t)'
  BY <1>2, <1>3, <1>5, MarkKept DEF rowVars
<1> QED
  BY <1>2, <1>3, <1>4, <1>6 DEF IInv, LogsTypeOK, logVars, Rows, rowVars

LEMMA ElsewhereKeeps ==
  ASSUME IInv, Elsewhere
  PROVE  IInv'
<1>1. UNCHANGED <<member, srv, stale, crossed, item, action, judged, snap>>
  BY DEF Elsewhere, memberVars, rowVars
<1>2. LogsTypeOK' /\ ops' \in Nat
  <2>1. CASE (\E c \in Change : Push(c)) /\ UNCHANGED ops
    <3>1. PICK c \in Change :
            /\ receipt' = [receipt EXCEPT ![c] = {now}]
            /\ applied' = [applied EXCEPT ![c] = Append(applied[c], now)]
            /\ UNCHANGED now
      BY <2>1 DEF Push
    <3>2. now \in Nat /\ applied[c] \in Seq(Nat)
      BY <3>1 DEF IInv, LogsTypeOK
    <3>3. Append(applied[c], now) \in Seq(Nat)
      BY <3>2
    <3> QED
      BY <2>1, <3>1, <3>3 DEF IInv, LogsTypeOK
  <2>2. CASE Tomorrow /\ Count
    BY <2>2 DEF Tomorrow, Count, IInv, LogsTypeOK
  <2> QED
    BY <2>1, <2>2 DEF Elsewhere
<1>3. Slots' /\ Rows'
  BY <1>1 DEF IInv, Slots, Slot, Rows
<1>4. \A t \in Session : KeepsMark(t)'
  BY <1>1 DEF IInv, KeepsMark
<1> QED
  BY <1>1, <1>2, <1>3, <1>4 DEF IInv

LEMMA StutterKeeps ==
  ASSUME IInv, UNCHANGED vars
  PROVE  IInv'
<1>1. UNCHANGED <<member, srv, stale, crossed, receipt, applied, now, item,
                  action, judged, snap, ops>>
  BY DEF vars, memberVars, logVars, rowVars
<1> QED
  BY <1>1 DEF IInv, LogsTypeOK, Slots, Slot, Rows, KeepsMark

LEMMA InitIInv == Init => IInv
<1> SUFFICES ASSUME Init PROVE IInv
  OBVIOUS
<1>1. LogsTypeOK
  <2>1. << >> \in Seq(Nat)
    OBVIOUS
  <2> QED
    BY <2>1 DEF Init, LogsInit, LogsTypeOK
<1>2. member \in [User -> 0 .. Admin]
  BY DEF Init, Admin, Member
<1>3. Slots /\ \A s \in Session : KeepsMark(s)
  BY DEF Init, Slots, Slot, KeepsMark
<1>4. action \in [Action -> ActionRow]
  BY DEF Init, ActionRow
<1>5. judged \in [Item \X User -> Judgement]
  BY DEF Init, Judgement
<1>6. NoItem \in ItemRow /\ Marked(NoItem)
  <2>1. [d \in Dim |-> 0] \in [Dim -> 0 .. 5]
    OBVIOUS
  <2>2. "concept" \in Status /\ 1 \in Scale
    BY DEF Status, Scale
  <2> QED
    BY <2>1, <2>2 DEF NoItem, ItemRow, Marked
<1>7. item \in [Item -> ItemRow] /\ \A i \in Item : Marked(item[i])
  <2>1. CASE item = [i \in Item |-> NoItem]
    BY <1>6, <2>1
  <2>2. CASE \E i \in Item :
          item = [[j \in Item |-> NoItem] EXCEPT
                    ![i] = [@ EXCEPT !.ver = 1, !.code = "x", !.score = 1]]
    <3> DEFINE x == [NoItem EXCEPT !.ver = 1, !.code = "x", !.score = 1]
    <3>1. x \in ItemRow
      <4>1. ASSUME NEW r \in ItemRow, NEW v \in Nat, NEW n \in 0 .. 25,
                   NEW c \in {"x", None} \cup Item
            PROVE  [r EXCEPT !.ver = v, !.code = c, !.score = n] \in ItemRow
        BY DEF ItemRow
      <4>2. 1 \in Nat /\ 1 \in 0 .. 25 /\ "x" \in {"x", None} \cup Item
        OBVIOUS
      <4> HIDE DEF NoItem
      <4> QED
        BY <1>6, <4>1, <4>2, Zenon
    <3>2. x.status = "concept" /\ x.del = FALSE /\ x.ver = 1
      BY DEF NoItem
    <3>3. PICK i \in Item : item = [[j \in Item |-> NoItem] EXCEPT ![i] = x]
      BY <2>2
    <3>4. Marked(x)
      BY <3>2 DEF Marked
    <3> HIDE DEF x
    <3> QED
      BY <1>6, <3>1, <3>3, <3>4
  <2> QED
    BY <2>1, <2>2 DEF Init
<1>8. snap \in SUBSET Batch
  <2>1. CASE snap = {}
    BY <2>1
  <2>2. CASE \E i \in Item :
          snap = {[[at |-> 0, risk |-> {}, opportunity |-> {}] EXCEPT
                     ![Type[i]] = {[item |-> i, score |-> 9]}]}
    <3>1. PICK i \in Item :
            snap = {[[at |-> 0, risk |-> {}, opportunity |-> {}] EXCEPT
                       ![Type[i]] = {[item |-> i, score |-> 9]}]}
      BY <2>2
    <3>2. {[item |-> i, score |-> 9]} \in SUBSET ScoreRow
      BY DEF ScoreRow
    <3>3. Type[i] = "risk" \/ Type[i] = "opportunity"
      BY RegisterAssumption
    <3> DEFINE S == {[item |-> i, score |-> 9]}
               b == [[at |-> 0, risk |-> {}, opportunity |-> {}] EXCEPT ![Type[i]] = S]
    <3>4. \/ b = [at |-> 0, risk |-> S, opportunity |-> {}]
          \/ b = [at |-> 0, risk |-> {}, opportunity |-> S]
      <4> HIDE DEF S
      <4> QED
        BY <3>3
    <3>5. S \in SUBSET ScoreRow /\ {} \in SUBSET ScoreRow
      BY <3>2
    <3>6. b \in Batch
      <4> HIDE DEF S, b
      <4> QED
        BY <3>4, <3>5 DEF Batch
    <3>7. snap = {b}
      BY <3>1
    <3> HIDE DEF b
    <3> QED
      BY <3>6, <3>7
  <2> QED
    BY <2>1, <2>2 DEF Init
<1> QED
  BY <1>1, <1>2, <1>3, <1>4, <1>5, <1>7, <1>8 DEF Init, IInv, Rows

LEMMA NextIInv == IInv /\ [Next]_vars => IInv'
<1> SUFFICES ASSUME IInv, [Next]_vars PROVE IInv'
  OBVIOUS
<1>1. ASSUME NEW s \in Session, Ask(s) PROVE IInv'
  BY <1>1, AskKeeps
<1>2. ASSUME NEW s \in Session, Handle(s) PROVE IInv'
  <2>1. CASE MemberStep(s) /\ UNCHANGED <<rowVars, logVars>>
    BY <1>2, <2>1, MemberStepKeeps DEF Handle
  <2>2. CASE RowStep(s) /\ UNCHANGED logVars
    BY <1>2, <2>2, RowStepKeeps DEF Handle
  <2>3. CASE PruneLogs(s)
    BY <1>2, <2>3, PruneKeeps DEF Handle
  <2> QED
    BY <1>2, <2>1, <2>2, <2>3 DEF Handle
<1> QED
  BY <1>1, <1>2, ElsewhereKeeps, StutterKeeps DEF Next

(* The tables, logs and handlers are well-typed in every reachable state.  *)
THEOREM RegisterTyped == Spec => []TypeOK
<1>1. IInv => TypeOK
  BY DEF IInv, TypeOK, Slots, Slot, Sound, Rows
<1> QED
  BY <1>1, InitIInv, NextIInv, PTL DEF Spec

(* ListsHideDeleted for every register: whatever is created, edited and    *)
(* deleted at the same time, a row whose status is deleted carries the     *)
(* mark that lists, reports and snapshots filter by.                       *)
THEOREM DeletedHidden == Spec => []ListsHideDeleted
<1>1. IInv => ListsHideDeleted
  BY DEF IInv, Rows, Marked, ListsHideDeleted, Filtered, Passes
<1> QED
  BY <1>1, InitIInv, NextIInv, PTL DEF Spec

-----------------------------------------------------------------------------
(* Scores. *)

Scored(x) ==
  /\ x.score = x.prob * x.impact
  /\ \A d \in Dim : x.dims[d] <= x.impact
  /\ (\E d \in Dim : x.dims[d] # 0) => \E d \in Dim : x.dims[d] = x.impact

(* Whatever the row says, it is scored once it has been scored again. *)
LEMMA RescoredScored ==
  ASSUME NEW x \in ItemRow
  PROVE  Scored(Rescored(x))
<1> DEFINE valid == Range(x.dims) \ {0}
           impact == IF valid = {} THEN x.impact ELSE Max(valid)
           y == Rescored(x)
<1>1. valid \subseteq Scale
  BY DEF ItemRow, Range, Scale
<1>2. y = [x EXCEPT !.impact = impact, !.score = x.prob * impact]
  BY DEF Rescored
<1>3. /\ y.dims = x.dims /\ y.prob = x.prob /\ y.impact = impact
      /\ y.score = x.prob * impact
  <2> HIDE DEF impact, y
  <2> QED
    BY <1>2 DEF ItemRow
<1>4. x.dims \in [Dim -> 0 .. 5] /\ x.impact \in Scale
  BY DEF ItemRow
<1>5. \A d \in Dim : x.dims[d] = 0 \/ x.dims[d] \in valid
  BY <1>4 DEF Range
<1>6. CASE valid = {}
  <2>1. \A d \in Dim : x.dims[d] = 0
    BY <1>5, <1>6
  <2>2. impact \in Scale
    BY <1>4, <1>6
  <2>3. /\ \A d \in Dim : x.dims[d] <= impact
        /\ ~\E d \in Dim : x.dims[d] # 0
    BY <2>1, <2>2 DEF Scale
  <2>4. Scored(y)
    <3> HIDE DEF valid, impact, y
    <3> QED
      BY <1>3, <2>3 DEF Scored
  <2> QED
    BY <2>4
<1>7. CASE valid # {}
  <2>1. impact \in valid /\ \A n \in valid : n <= impact
    BY <1>1, <1>7, MaxOfScale
  <2>2. impact \in Scale
    BY <1>1, <2>1
  <2>3. \E d \in Dim : x.dims[d] = impact
    BY <1>4, <2>1 DEF Range
  <2>4. \A d \in Dim : x.dims[d] <= impact
    <3>1. 0 <= impact
      BY <2>2 DEF Scale
    <3> HIDE DEF valid, impact
    <3> QED
      BY <1>5, <2>1, <3>1
  <2>5. Scored(y)
    <3> HIDE DEF valid, impact, y
    <3> QED
      BY <1>3, <2>3, <2>4 DEF Scored
  <2> QED
    BY <2>5
<1> QED
  BY <1>6, <1>7

(* An edit that does not delete scores the row. *)
LEMMA PatchedScored ==
  ASSUME NEW x \in ItemRow, NEW b \in Body, Marked(x)
  PROVE  Patched(x, b).del \/ Scored(Patched(x, b))
<1> DEFINE y == [x EXCEPT !.code = Keep(@, b.code, None),
                          !.prob = Keep(@, b.prob, 0),
                          !.impact = Keep(@, b.impact, 0),
                          !.dims = Merge(@, b.dims)]
           k == Keep(y.status, b.status, None)
           z == [y EXCEPT !.ver = y.ver + 1, !.status = k]
<1>1. Merge(x.dims, b.dims) \in [Dim -> 0 .. 5]
  BY MergeType DEF ItemRow
<1>2. /\ Keep(x.code, b.code, None) \in {"x", None} \cup Item
      /\ Keep(x.prob, b.prob, 0) \in Scale
      /\ Keep(x.impact, b.impact, 0) \in Scale
  BY DEF Keep, Body, ItemRow, Scale
<1>3. y \in ItemRow
  BY <1>1, <1>2 DEF ItemRow
<1>4. CASE b.status = "deleted"
  <2> DEFINE w == [SoftDeleted(y) EXCEPT !.score = y.prob * y.impact]
  <2>1. Patched(x, b) = w
    BY <1>4 DEF Patched
  <2>2. w.del
    <3> HIDE DEF y
    <3>1. SoftDeleted(y) \in ItemRow /\ SoftDeleted(y).del
      BY <1>3, SoftDeletedType
    <3> QED
      BY <3>1 DEF ItemRow
  <2> QED
    BY <2>1, <2>2
<1>5. CASE b.status # "deleted"
  <2>1. k \in Status
    BY <1>3 DEF Keep, Body, ItemRow
  <2>2. z \in ItemRow
    <3>1. y.ver + 1 \in Nat
      BY <1>3 DEF ItemRow
    <3> HIDE DEF y, k
    <3> QED
      BY <1>3, <2>1, <3>1 DEF ItemRow
  <2>3. Patched(x, b) = Rescored(z)
    BY <1>5 DEF Patched
  <2> HIDE DEF z
  <2> QED
    BY <2>2, <2>3, RescoredScored
<1> QED
  BY <1>4, <1>5

-----------------------------------------------------------------------------
(* Checks that still hold.                                                 *)
(*                                                                         *)
(* What a handler has checked is about the state it will write to as long  *)
(* as no other handler has written since: the right of the caller, the     *)
(* admin who remains and the risks of a snapshot are still what they were. *)

Good(q, x) ==
  /\ q.op \in {"create", "act", "move", "assess", "snapshot"} =>
       member[q.user] >= Member
  /\ q.op \in {"delete", "drop"} => member[q.user] >= Manager
  /\ q.op = "patch" => member[q.user] >= RankToPatch(q.body)
  /\ q.op = "snapshot" => x = Wanted(q, "risk")
  /\ q.op \in {"grant", "remove"} =>
       q.to \in User /\ member[q.user] >= Admin
  /\ q.op = "remove" => KeepsAnother(q.to)
  /\ q.op = "grant" => (q.role # Admin => KeepsAnother(q.to))

HasRead(s) == srv[s] # Free /\ srv[s].st = "read"

Checked(s) ==
  HasRead(s) /\ s \notin stale => Good(srv[s].req, srv[s].seen)

(* A handler that is about to change members has seen an admin, and unless *)
(* one was crossed out there still is one.                                 *)
Ruled ==
  /\ "members" \notin crossed
  /\ \E s \in Session : HasRead(s) /\ srv[s].req.op \in {"grant", "remove"}
  => Admins # {}

CInv == IInv /\ KeepsAdmin /\ Ruled /\ \A s \in Session : Checked(s)

LEMMA Another ==
  ASSUME NEW w \in User, member[w] = Admin, KeepsAnother(w)
  PROVE  \E v \in User \ {w} : member[v] = Admin
<1>1. Cardinality(Admins) > 1
  BY DEF KeepsAnother
<1>2. SUFFICES ASSUME ~\E v \in User \ {w} : member[v] = Admin PROVE FALSE
  OBVIOUS
<1>3. Admins = {w}
  BY <1>2 DEF Admins
<1> QED
  BY <1>1, <1>3, FS_Singleton

(* A handler that reads, or ends without writing, changes nothing that     *)
(* others have checked.                                                    *)
LEMMA OthersChecked ==
  ASSUME CInv, NEW s \in Session,
         \A t \in Session \ {s} : srv'[t] = srv[t],
         stale' = stale \/ stale' = stale \ {s}, crossed' = crossed,
         UNCHANGED <<member, item>>
  PROVE  KeepsAdmin' /\ \A t \in Session \ {s} : Checked(t)'
<1>1. KeepsAdmin'
  BY DEF CInv, KeepsAdmin, Admins
<1>2. ASSUME NEW t \in Session \ {s} PROVE Checked(t)'
  <2>1. Checked(t) /\ srv'[t] = srv[t] /\ (t \in stale' <=> t \in stale)
    BY DEF CInv
  <2> QED
    BY <2>1 DEF Checked, HasRead, Good, KeepsAnother, Admins, Wanted, LiveScores
<1> QED
  BY <1>1, <1>2

LEMMA ReadChecks ==
  ASSUME CInv, NEW s \in Session, NEW op, At(s, op, "start"),
         NEW ok, NEW x, ok => Remembers(srv[s].req, x),
         ok => Good(srv[s].req, x), Found(s, ok, x),
         UNCHANGED <<member, rowVars>>
  PROVE  KeepsAdmin' /\ Ruled' /\ \A t \in Session : Checked(t)'
<1>1. Slots /\ srv[s] # Free /\ srv[s].st = "start" /\ Sound(srv[s].req)
  BY Working DEF CInv, IInv
<1>2. /\ \/ srv'[s] = Free
         \/ ok /\ srv'[s] = [st |-> "read", req |-> srv[s].req, seen |-> x]
      /\ \A t \in Session \ {s} : srv'[t] = srv[t]
      /\ stale' = stale \/ stale' = stale \ {s}
      /\ crossed' = crossed
  BY <1>1, FoundOrClosed
<1>3. UNCHANGED <<member, item>>
  BY DEF rowVars
<1>4. KeepsAdmin' /\ \A t \in Session \ {s} : Checked(t)'
  BY <1>2, <1>3, OthersChecked
<1>5. Checked(s)'
  <2> SUFFICES ASSUME ok, srv'[s].req = srv[s].req, srv'[s].seen = x
               PROVE  Good(srv[s].req, srv[s].seen)'
    BY <1>2 DEF Checked, HasRead
  <2>1. Good(srv[s].req, x)
    OBVIOUS
  <2> QED
    BY <1>3, <2>1 DEF Good, KeepsAnother, Admins, Wanted, LiveScores
<1>6. Ruled'
  <2> SUFFICES ASSUME "members" \notin crossed, NEW t \in Session, HasRead(t)',
                      srv'[t].req.op \in {"grant", "remove"}
               PROVE  Admins' # {}
    BY <1>2 DEF Ruled
  <2>1. Admins' = Admins
    BY <1>3 DEF Admins
  <2>2. CASE t # s
    BY <1>2, <2>1, <2>2 DEF CInv, Ruled, HasRead
  <2>3. CASE t = s
    <3>1. /\ Good(srv[s].req, x) /\ srv[s].req.op \in {"grant", "remove"}
      BY <1>2, <2>3 DEF HasRead
    <3>2. member[srv[s].req.user] >= Admin /\ srv[s].req.user \in User
      BY <1>1, <3>1 DEF Good, Sound
    <3>3. member[srv[s].req.user] \in 0 .. Admin
      BY <3>2 DEF CInv, IInv
    <3>4. member[srv[s].req.user] = Admin
      BY <3>2, <3>3 DEF Admin
    <3> QED
      BY <2>1, <3>2, <3>4 DEF Admins
  <2> QED
    BY <2>2, <2>3
<1> QED
  BY <1>4, <1>5, <1>6

(* Once a handler has written, all others that have read are out of date. *)
LEMMA WriteChecks ==
  ASSUME CInv, NEW s \in Session, NEW over, Close(s, over)
  PROVE  \A t \in Session : Checked(t)'
<1>1. /\ srv'[s] = Free
      /\ \A t \in Session \ {s} : srv'[t] = srv[t]
      /\ stale' = {t \in Session \ {s} : srv[t] # Free /\ srv[t].st = "read"}
  BY Closed DEF CInv, IInv
<1> QED
  BY <1>1 DEF Checked, HasRead

(* A handler that has written without touching the members. *)
LEMMA RowWriteChecks ==
  ASSUME CInv, NEW s \in Session, NEW over, Close(s, over), UNCHANGED member
  PROVE  KeepsAdmin' /\ Ruled' /\ \A t \in Session : Checked(t)'
<1>1. /\ srv'[s] = Free
      /\ \A t \in Session \ {s} : srv'[t] = srv[t]
      /\ crossed' = crossed \cup over
  BY Closed DEF CInv, IInv
<1>2. Admins' = Admins
  BY DEF Admins
<1>3. KeepsAdmin'
  BY <1>1, <1>2 DEF CInv, KeepsAdmin
<1>4. Ruled'
  BY <1>1, <1>2 DEF CInv, Ruled, HasRead
<1> QED
  BY <1>3, <1>4, WriteChecks

(* A handler that leaves without having written rows. *)
LEMMA LeaveChecks ==
  ASSUME CInv, NEW s \in Session, Leave(s), UNCHANGED <<member, item>>
  PROVE  KeepsAdmin' /\ Ruled' /\ \A t \in Session : Checked(t)'
<1>1. /\ srv'[s] = Free
      /\ \A t \in Session \ {s} : srv'[t] = srv[t]
      /\ stale' = stale \ {s} /\ crossed' = crossed
  BY Left DEF CInv, IInv
<1>2. KeepsAdmin' /\ \A t \in Session \ {s} : Checked(t)'
  BY <1>1, OthersChecked
<1>3. Ruled'
  BY <1>1 DEF CInv, Ruled, HasRead, Admins
<1> QED
  BY <1>1, <1>2, <1>3 DEF Checked, HasRead

(* A change of one role leaves an admin, or crosses one out. *)
LEMMA AdminLeft ==
  ASSUME CInv, NEW s \in Session, HasRead(s),
         srv[s].req.op \in {"grant", "remove"}, NEW rank,
         member' = member \/ member' = [member EXCEPT ![srv[s].req.to] = rank],
         s \notin stale => srv[s].req.to \in User,
         s \notin stale /\ rank # Admin => KeepsAnother(srv[s].req.to),
         crossed' = crossed \cup Unchecked(s, rank),
         "members" \notin crossed'
  PROVE  Admins' # {}
<1> DEFINE w == srv[s].req.to
<1>0. member \in [User -> 0 .. Admin]
  BY DEF CInv, IInv
<1>1. PICK v \in User : member[v] = Admin
  BY DEF CInv, Ruled, Admins
<1>2. CASE member[w] # Admin \/ rank = Admin
  <2>1. member'[v] = Admin
    <3> HIDE DEF w
    <3> QED
      BY <1>0, <1>1, <1>2 DEF w
  <2> QED
    BY <2>1 DEF Admins
<1>3. CASE member[w] = Admin /\ rank # Admin
  <2>1. s \notin stale
    BY <1>3 DEF Unchecked
  <2>2. PICK z \in User \ {w} : member[z] = Admin
    BY <1>3, <2>1, Another
  <2>3. member'[z] = Admin
    <3> HIDE DEF w
    <3> QED
      BY <1>0, <2>2 DEF w
  <2> QED
    BY <2>2, <2>3 DEF Admins
<1> QED
  BY <1>2, <1>3

LEMMA MemberStepChecks ==
  ASSUME CInv, NEW s \in Session, MemberStep(s), UNCHANGED rowVars
  PROVE  KeepsAdmin' /\ Ruled' /\ \A t \in Session : Checked(t)'
<1> DEFINE q == srv[s].req
<1>0. Slots /\ member \in [User -> 0 .. Admin] /\ Admin = 4 /\ IInv
  BY DEF CInv, IInv, Admin
<1>1. CASE CreateProject(s)
  <2>1. At(s, "project", "start") /\ Close(s, {})
    BY <1>1 DEF CreateProject
  <2>2. srv[s] # Free /\ q.user \in User
    BY <1>0, <2>1, Working DEF Sound
  <2>3. \A t \in Session : Checked(t)'
    BY <2>1, WriteChecks
  <2>4. CASE \A u \in User : member[u] = 0
    <3>1. member'[q.user] = Admin
      BY <1>0, <1>1, <2>2, <2>4 DEF CreateProject
    <3> QED
      BY <2>2, <2>3, <3>1 DEF KeepsAdmin, Ruled, Admins
  <2>5. CASE ~\A u \in User : member[u] = 0
    <3>1. member' = member
      BY <1>1, <2>5 DEF CreateProject
    <3> QED
      BY <2>1, <3>1, RowWriteChecks
  <2> QED
    BY <2>4, <2>5
<1>2. CASE CheckGrant(s)
  <2>1. At(s, "grant", "start") /\ UNCHANGED member
    BY <1>2 DEF CheckGrant
  <2>2. Sound(q) /\ q.op = "grant" /\ srv[s] # Free
    BY <1>0, <2>1, Working
  <2> DEFINE ok == /\ Permits(s, Admin)
                   /\ q.role # Admin => KeepsAnother(q.to)
  <2>3. CASE q.to = None
    <3>1. Found(s, FALSE, 0)
      BY <1>2, <2>3 DEF CheckGrant, Found
    <3> QED
      BY <2>1, <3>1, ReadChecks
  <2>4. CASE q.to # None
    <3>1. Found(s, ok, member[q.to])
      BY <1>2, <2>4 DEF CheckGrant
    <3>2. \A x : Remembers(q, x)
      BY <2>2 DEF Remembers
    <3>3. q.to \in User
      BY <2>2, <2>4 DEF Sound
    <3>4. \A x : ok => Good(q, x)
      BY <2>2, <3>3 DEF Good, Permits
    <3> HIDE DEF ok
    <3> QED
      BY <2>1, <3>1, <3>2, <3>4, ReadChecks
  <2> QED
    BY <2>3, <2>4
<1>3. CASE CheckRemove(s)
  <2>1. At(s, "remove", "start") /\ UNCHANGED member
    BY <1>3 DEF CheckRemove
  <2>2. Sound(q) /\ q.op = "remove" /\ srv[s] # Free
    BY <1>0, <2>1, Working
  <2> DEFINE ok == /\ Permits(s, Admin) /\ member[q.to] # 0
                   /\ KeepsAnother(q.to)
  <2>3. CASE q.to = None
    <3>1. Found(s, FALSE, 0)
      BY <1>3, <2>3 DEF CheckRemove, Found
    <3> QED
      BY <2>1, <3>1, ReadChecks
  <2>4. CASE q.to # None
    <3>1. Found(s, ok, member[q.to])
      BY <1>3, <2>4 DEF CheckRemove
    <3>2. \A x : Remembers(q, x)
      BY <2>2 DEF Remembers
    <3>3. q.to \in User
      BY <2>2, <2>4 DEF Sound
    <3>4. \A x : ok => Good(q, x)
      BY <2>2, <3>3 DEF Good, Permits
    <3> HIDE DEF ok
    <3> QED
      BY <2>1, <3>1, <3>2, <3>4, ReadChecks
  <2> QED
    BY <2>3, <2>4
<1>4. CASE Grant(s)
  <2>1. At(s, "grant", "read") /\ Close(s, Unchecked(s, q.role))
    BY <1>4 DEF Grant
  <2>2. Sound(q) /\ q.op = "grant" /\ HasRead(s)
    BY <1>0, <2>1, Working DEF HasRead
  <2>3. crossed' = crossed \cup Unchecked(s, q.role)
    BY <2>1 DEF Close
  <2>4. member' = member \/ member' = [member EXCEPT ![q.to] = q.role]
    BY <1>4 DEF Grant
  <2>5. /\ s \notin stale => q.to \in User
        /\ s \notin stale /\ q.role # Admin => KeepsAnother(q.to)
    BY <2>2 DEF CInv, Checked, Good
  <2>6. "members" \notin crossed' => Admins' # {}
    BY <1>0, <2>2, <2>3, <2>4, <2>5, AdminLeft
  <2> QED
    BY <2>1, <2>6, WriteChecks DEF KeepsAdmin, Ruled
<1>5. CASE Remove(s)
  <2>1. At(s, "remove", "read") /\ Close(s, Unchecked(s, 0))
    BY <1>5 DEF Remove
  <2>2. Sound(q) /\ q.op = "remove" /\ HasRead(s)
    BY <1>0, <2>1, Working DEF HasRead
  <2>3. crossed' = crossed \cup Unchecked(s, 0)
    BY <2>1 DEF Close
  <2>4. member' = [member EXCEPT ![q.to] = 0]
    BY <1>5 DEF Remove
  <2>5. /\ s \notin stale => q.to \in User
        /\ s \notin stale /\ 0 # Admin => KeepsAnother(q.to)
    BY <2>2 DEF CInv, Checked, Good
  <2>6. "members" \notin crossed' => Admins' # {}
    BY <1>0, <2>2, <2>3, <2>4, <2>5, AdminLeft
  <2> QED
    BY <2>1, <2>6, WriteChecks DEF KeepsAdmin, Ruled
<1> QED
  BY <1>1, <1>2, <1>3, <1>4, <1>5 DEF MemberStep

LEMMA RowStepChecks ==
  ASSUME CInv, NEW s \in Session, RowStep(s)
  PROVE  KeepsAdmin' /\ Ruled' /\ \A t \in Session : Checked(t)'
<1> DEFINE q == srv[s].req
<1>0. Slots /\ Rows /\ IInv
  BY DEF CInv, IInv
<1>1. CASE \/ Create(s) \/ Patch(s) \/ Delete(s)
          \/ NewAction(s) \/ MoveAction(s) \/ DropAction(s)
          \/ Assess(s) \/ SaveBatch(s)
  <2>1. \E over : Close(s, over) /\ UNCHANGED member
    BY <1>1 DEF Create, Patch, Delete, NewAction, MoveAction, DropAction,
                Assess, SaveBatch
  <2> QED
    BY <2>1, RowWriteChecks
<1>2. CASE CheckCreate(s)
  <2> DEFINE x == 0
             ok == Permits(s, Member) /\ Storable(srv[s].req.body)
  <2>1. /\ At(s, "create", "start") /\ Found(s, ok, x)
        /\ UNCHANGED <<member, rowVars>>
    BY <1>2 DEF CheckCreate
  <2>2. q.op = "create" /\ Sound(q)
    BY <1>0, <2>1, Working
  <2>3. ok => Remembers(q, x)
    BY <1>0, <2>2 DEF Remembers, Sound, Rows
  <2>4. ok => Good(q, x)
    BY <2>2 DEF Good, Permits
  <2> HIDE DEF ok, x
  <2> QED
    BY <2>1, <2>3, <2>4, ReadChecks
<1>3. CASE CheckPatch(s)
  <2> DEFINE x == item[srv[s].req.row]
             ok == /\ Permits(s, RankToPatch(srv[s].req.body))
                   /\ Based(item[srv[s].req.row], srv[s].req.base)
  <2>1. /\ At(s, "patch", "start") /\ Found(s, ok, x)
        /\ UNCHANGED <<member, rowVars>>
    BY <1>3 DEF CheckPatch
  <2>2. q.op = "patch" /\ Sound(q)
    BY <1>0, <2>1, Working
  <2>3. ok => Remembers(q, x)
    BY <1>0, <2>2 DEF Remembers, Sound, Rows
  <2>4. ok => Good(q, x)
    BY <2>2 DEF Good, Permits
  <2> HIDE DEF ok, x
  <2> QED
    BY <2>1, <2>3, <2>4, ReadChecks
<1>4. CASE CheckDelete(s)
  <2> DEFINE x == item[srv[s].req.row]
             ok == Permits(s, Manager) /\ item[srv[s].req.row].ver # 0
  <2>1. /\ At(s, "delete", "start") /\ Found(s, ok, x)
        /\ UNCHANGED <<member, rowVars>>
    BY <1>4 DEF CheckDelete
  <2>2. q.op = "delete" /\ Sound(q)
    BY <1>0, <2>1, Working
  <2>3. ok => Remembers(q, x)
    BY <1>0, <2>2 DEF Remembers, Sound, Rows
  <2>4. ok => Good(q, x)
    BY <2>2 DEF Good, Permits
  <2> HIDE DEF ok, x
  <2> QED
    BY <2>1, <2>3, <2>4, ReadChecks
<1>5. CASE CheckNewAction(s)
  <2> DEFINE x == 0
             ok == Permits(s, Member) /\ Target(srv[s].req)
  <2>1. /\ At(s, "act", "start") /\ Found(s, ok, x)
        /\ UNCHANGED <<member, rowVars>>
    BY <1>5 DEF CheckNewAction
  <2>2. q.op = "act" /\ Sound(q)
    BY <1>0, <2>1, Working
  <2>3. ok => Remembers(q, x)
    BY <1>0, <2>2 DEF Remembers, Sound, Rows
  <2>4. ok => Good(q, x)
    BY <2>2 DEF Good, Permits
  <2> HIDE DEF ok, x
  <2> QED
    BY <2>1, <2>3, <2>4, ReadChecks
<1>6. CASE CheckMoveAction(s)
  <2> DEFINE x == action[srv[s].req.act]
             ok == /\ Permits(s, Member)
                   /\ action[srv[s].req.act].ver # 0 /\ ~action[srv[s].req.act].del
                   /\ srv[s].req.row # None => Target(srv[s].req)
  <2>1. /\ At(s, "move", "start") /\ Found(s, ok, x)
        /\ UNCHANGED <<member, rowVars>>
    BY <1>6 DEF CheckMoveAction
  <2>2. q.op = "move" /\ Sound(q)
    BY <1>0, <2>1, Working
  <2>3. ok => Remembers(q, x)
    BY <1>0, <2>2 DEF Remembers, Sound, Rows
  <2>4. ok => Good(q, x)
    BY <2>2 DEF Good, Permits
  <2> HIDE DEF ok, x
  <2> QED
    BY <2>1, <2>3, <2>4, ReadChecks
<1>7. CASE CheckDropAction(s)
  <2> DEFINE x == action[srv[s].req.act]
             ok == Permits(s, Manager) /\ action[srv[s].req.act].ver # 0
  <2>1. /\ At(s, "drop", "start") /\ Found(s, ok, x)
        /\ UNCHANGED <<member, rowVars>>
    BY <1>7 DEF CheckDropAction
  <2>2. q.op = "drop" /\ Sound(q)
    BY <1>0, <2>1, Working
  <2>3. ok => Remembers(q, x)
    BY <1>0, <2>2 DEF Remembers, Sound, Rows
  <2>4. ok => Good(q, x)
    BY <2>2 DEF Good, Permits
  <2> HIDE DEF ok, x
  <2> QED
    BY <2>1, <2>3, <2>4, ReadChecks
<1>8. CASE CheckAssess(s)
  <2> DEFINE x == judged[<<srv[s].req.row, srv[s].req.user>>]
             ok == /\ Permits(s, Member) /\ Live(srv[s].req.row)
                   /\ x.ver # 0 => srv[s].req.base \in {0, x.ver}
  <2>1. /\ At(s, "assess", "start") /\ Found(s, ok, x)
        /\ UNCHANGED <<member, rowVars>>
    BY <1>8 DEF CheckAssess
  <2>2. q.op = "assess" /\ Sound(q)
    BY <1>0, <2>1, Working
  <2>3. ok => Remembers(q, x)
    BY <1>0, <2>2 DEF Remembers, Sound, Rows
  <2>4. ok => Good(q, x)
    BY <2>2 DEF Good, Permits
  <2> HIDE DEF ok, x
  <2> QED
    BY <2>1, <2>3, <2>4, ReadChecks
<1>9. CASE ReadRisks(s)
  <2> DEFINE x == Wanted(srv[s].req, "risk")
             ok == Permits(s, Member)
  <2>1. /\ At(s, "snapshot", "start") /\ Found(s, ok, x)
        /\ UNCHANGED <<member, rowVars>>
    BY <1>9 DEF ReadRisks
  <2>2. q.op = "snapshot" /\ Sound(q)
    BY <1>0, <2>1, Working
  <2>3. ok => Remembers(q, x)
    BY <1>0, <2>2, WantedType DEF Remembers, Sound, Rows
  <2>4. ok => Good(q, x)
    BY <2>2 DEF Good, Permits
  <2> HIDE DEF ok, x
  <2> QED
    BY <2>1, <2>3, <2>4, ReadChecks
<1>10. CASE CheckPrune(s)
  <2> DEFINE x == 0
             ok == Permits(s, Admin)
  <2>1. /\ At(s, "prune", "start") /\ Found(s, ok, x)
        /\ UNCHANGED <<member, rowVars>>
    BY <1>10 DEF CheckPrune
  <2>2. q.op = "prune" /\ Sound(q)
    BY <1>0, <2>1, Working
  <2>3. ok => Remembers(q, x)
    BY <1>0, <2>2 DEF Remembers, Sound, Rows
  <2>4. ok => Good(q, x)
    BY <2>2 DEF Good, Permits
  <2> HIDE DEF ok, x
  <2> QED
    BY <2>1, <2>3, <2>4, ReadChecks
<1> QED
  BY <1>1, <1>2, <1>3, <1>4, <1>5, <1>6, <1>7, <1>8, <1>9, <1>10 DEF RowStep

LEMMA AskChecks ==
  ASSUME CInv, NEW s \in Session, Ask(s)
  PROVE  KeepsAdmin' /\ Ruled' /\ \A t \in Session : Checked(t)'
<1>0. IInv
  BY DEF CInv
<1>1. PICK q : Sound(q) /\ Open(s, q)
  BY <1>0, AskIsSound
<1>2. /\ srv'[s] = [st |-> "start", req |-> q, seen |-> 0]
      /\ \A t \in Session \ {s} : srv'[t] = srv[t]
  BY <1>0, <1>1, Opened DEF IInv
<1>3. UNCHANGED <<stale, crossed, member, item>>
  BY <1>1 DEF Open, Ask, rowVars
<1>4. KeepsAdmin' /\ \A t \in Session \ {s} : Checked(t)'
  BY <1>2, <1>3, OthersChecked
<1>5. srv'[s].st = "start"
  BY <1>2
<1>6. Ruled'
  BY <1>2, <1>3, <1>5 DEF CInv, Ruled, HasRead, Admins
<1> QED
  BY <1>4, <1>5, <1>6 DEF Checked, HasRead

LEMMA NextCInv == CInv /\ [Next]_vars => CInv'
<1> SUFFICES ASSUME CInv, [Next]_vars PROVE CInv'
  OBVIOUS
<1>0. IInv'
  BY NextIInv DEF CInv
<1>1. SUFFICES KeepsAdmin' /\ Ruled' /\ \A t \in Session : Checked(t)'
  BY <1>0 DEF CInv
<1>2. ASSUME NEW s \in Session, Ask(s)
      PROVE  KeepsAdmin' /\ Ruled' /\ \A t \in Session : Checked(t)'
  BY <1>2, AskChecks
<1>3. ASSUME NEW s \in Session, Handle(s)
      PROVE  KeepsAdmin' /\ Ruled' /\ \A t \in Session : Checked(t)'
  <2>1. CASE MemberStep(s) /\ UNCHANGED <<rowVars, logVars>>
    BY <1>3, <2>1, MemberStepChecks
  <2>2. CASE RowStep(s)
    BY <1>3, <2>2, RowStepChecks
  <2>3. CASE PruneLogs(s)
    <3>1. Leave(s) /\ UNCHANGED <<member, item>>
      BY <2>3 DEF PruneLogs, rowVars
    <3> QED
      BY <1>3, <3>1, LeaveChecks
  <2> QED
    BY <1>3, <2>1, <2>2, <2>3 DEF Handle
<1>4. CASE Elsewhere \/ UNCHANGED vars
  <2>1. UNCHANGED <<member, srv, stale, crossed, item>>
    BY <1>4 DEF Elsewhere, vars, memberVars, rowVars
  <2>2. KeepsAdmin' /\ Ruled'
    BY <2>1 DEF CInv, KeepsAdmin, Ruled, HasRead, Admins
  <2>3. ASSUME NEW t \in Session PROVE Checked(t)'
    <3>1. Checked(t)
      BY DEF CInv
    <3> QED
      BY <2>1, <3>1 DEF Checked, HasRead, Good, KeepsAnother, Admins, Wanted,
         LiveScores
  <2> QED
    BY <2>2, <2>3
<1> QED
  BY <1>2, <1>3, <1>4 DEF Next

LEMMA InitCInv == Init => CInv
<1> SUFFICES ASSUME Init PROVE CInv
  OBVIOUS
<1>1. \A s \in Session : srv[s] = Free
  BY DEF Init
<1>2. KeepsAdmin
  BY RegisterAssumption DEF Init, KeepsAdmin, Admins
<1> QED
  BY <1>1, <1>2, InitIInv DEF CInv, Ruled, Checked, HasRead

(* KeepsAdmin for every number of accounts and of handlers at once: a      *)
(* project that exists keeps an admin, unless a handler has taken the role *)
(* of one on a count that another handler had made out of date.            *)
THEOREM AdminRemains == Spec => []KeepsAdmin
<1>1. CInv => KeepsAdmin
  BY DEF CInv
<1> QED
  BY <1>1, InitCInv, NextCInv, PTL DEF Spec

(* The columns an UPDATE leaves. *)
LEMMA StoredDel ==
  ASSUME NEW old, NEW x, NEW new \in ItemRow, Stored(old, x, new).del, ~old.del
  PROVE  new.del # x.del
<1>1. "del" \in DOMAIN new
  BY DEF ItemRow
<1> QED
  BY <1>1 DEF Stored

(* If nobody has written the row since, the UPDATE leaves the row that was *)
(* computed.                                                               *)
LEMMA StoredWhole ==
  ASSUME NEW x, NEW new \in ItemRow
  PROVE  Stored(x, x, new) = new
<1> DEFINE F == {"ver", "code", "status", "prob", "impact", "dims", "score", "del"}
<1>1. new = [f \in F |-> new[f]]
  BY DEF ItemRow
<1>2. Stored(x, x, new) = [f \in F |-> new[f]]
  BY <1>1 DEF Stored
<1> QED
  BY <1>1, <1>2

(* What a handler may do with the rank it needs to edit or to delete. *)
LEMMA RankSuffices ==
  ASSUME IInv, NEW s \in Session, Sound(srv[s].req), Permits(s, Manager)
  PROVE  Permits(s, Member)
<1>1. member[srv[s].req.user] \in 0 .. Admin
  BY DEF IInv, Sound
<1> QED
  BY <1>1 DEF Permits, Member, Manager, Admin

(* An edit: it changes one row, with the rank that was checked, and to the *)
(* row that was computed unless the row has changed in between.            *)
LEMMA EditStep ==
  ASSUME CInv, NEW s \in Session, Patch(s) \/ Delete(s)
  PROVE  /\ Acting(s) /\ srv[s].req.op \in {"patch", "delete"}
         /\ \A t \in Session \ {s} : srv'[t] = srv[t]
         /\ s \in stale \/ Permits(s, Member)
         /\ \A i \in Item : item'[i] # item[i] =>
              /\ srv[s].seen # item[i] => i \in crossed'
              /\ srv[s].seen = item[i] =>
                   /\ item'[i] \in ItemRow /\ item'[i].ver = item[i].ver + 1
                   /\ srv[s].req.op = "patch" =>
                        srv[s].req.base \in {0, item[i].ver}
                   /\ item'[i].del \/ Scored(item'[i])
              /\ item'[i].del /\ ~item[i].del => s \in stale \/ Permits(s, Manager)
<1> DEFINE q == srv[s].req
           x == srv[s].seen
<1>0. At(s, "patch", "read") \/ At(s, "delete", "read")
  BY DEF Patch, Delete
<1>1. /\ Sound(q) /\ q.op \in {"patch", "delete"} /\ Remembers(q, x)
      /\ HasRead(s) /\ IInv /\ Slots
  BY <1>0, Working DEF CInv, IInv, HasRead
<1>2. s \notin stale => Good(q, x)
  BY <1>1 DEF CInv, Checked
<1>3. /\ q.row \in Item /\ x \in ItemRow /\ Marked(x)
      /\ q.op = "patch" => Based(x, q.base)
  BY <1>1 DEF Sound, Remembers
<1>4. Close(s, WrittenOver(s))
  BY DEF Patch, Delete
<1>5. /\ Acting(s) /\ \A t \in Session \ {s} : srv'[t] = srv[t]
      /\ crossed' = crossed \cup WrittenOver(s)
  BY <1>1, <1>4, Closed DEF Acting, HasRead
<1>6. item \in [Item -> ItemRow]
  BY <1>1 DEF IInv, Rows
<1>7. x # item[q.row] => q.row \in crossed'
  BY <1>5 DEF WrittenOver
<1>8. CASE Patch(s)
  <2> DEFINE new == Patched(x, q.body)
             y == Stored(item[q.row], x, new)
  <2>1. q.body \in Body /\ q.op = "patch"
    BY <1>1, <1>8, RegisterAssumption DEF Patch, At, Sound
  <2>2. /\ new \in ItemRow /\ new.ver = x.ver + 1
        /\ q.body.status # "deleted" => new.del = x.del
        /\ new.del \/ Scored(new)
    BY <1>3, <2>1, PatchedType, PatchedScored
  <2>3. item' = item \/ item' = [item EXCEPT ![q.row] = y]
    BY <1>8 DEF Patch
  <2>4. s \notin stale => Permits(s, RankToPatch(q.body))
    BY <1>2, <2>1 DEF Good, Permits
  <2>5. s \in stale \/ Permits(s, Member)
    BY <1>1, <2>4, RankSuffices DEF RankToPatch
  <2>6. y.del /\ ~item[q.row].del => s \in stale \/ Permits(s, Manager)
    BY <2>2, <2>4, StoredDel DEF RankToPatch
  <2>7. x = item[q.row] => y = new
    BY <2>2, StoredWhole
  <2>8. ASSUME NEW i \in Item, item'[i] # item[i]
        PROVE  i = q.row /\ item'[i] = y
    <3> HIDE DEF y, q
    <3> QED
      BY <1>6, <2>3, <2>8
  <2>9. q.base \in {0, x.ver}
    BY <1>3, <2>1 DEF Based
  <2> HIDE DEF y, new, x
  <2> QED
    BY <1>1, <1>5, <1>7, <2>2, <2>5, <2>6, <2>7, <2>8, <2>9 DEF x
<1>9. CASE Delete(s)
  <2> DEFINE new == SoftDeleted(x)
             y == Stored(item[q.row], x, new)
  <2>1. q.op = "delete"
    BY <1>9 DEF Delete, At
  <2>2. new \in ItemRow /\ new.ver = x.ver + 1 /\ new.del
    BY <1>3, SoftDeletedType
  <2>3. item' = [item EXCEPT ![q.row] = y]
    BY <1>9 DEF Delete
  <2>4. s \notin stale => Permits(s, Manager)
    BY <1>2, <2>1 DEF Good, Permits
  <2>5. s \in stale \/ Permits(s, Member)
    BY <1>1, <2>4, RankSuffices
  <2>7. x = item[q.row] => y = new
    BY <2>2, StoredWhole
  <2>8. ASSUME NEW i \in Item, item'[i] # item[i]
        PROVE  i = q.row /\ item'[i] = y
    <3> HIDE DEF y, q
    <3> QED
      BY <1>6, <2>3, <2>8
  <2> HIDE DEF y, new, x
  <2> QED
    BY <1>1, <1>5, <1>7, <2>1, <2>2, <2>4, <2>5, <2>7, <2>8 DEF x
<1> QED
  BY <1>8, <1>9

(* A creation. *)
LEMMA CreateStep ==
  ASSUME CInv, NEW s \in Session, Create(s)
  PROVE  /\ Acting(s) /\ srv[s].req.op = "create"
         /\ \A t \in Session \ {s} : srv'[t] = srv[t]
         /\ s \in stale \/ Permits(s, Member)
         /\ \A i \in Item : item'[i] # item[i] =>
              /\ item'[i].ver = item[i].ver + 1 /\ ~item'[i].del
              /\ Scored(item'[i])
<1> DEFINE q == srv[s].req
           b == srv[s].req.body
<1>0. At(s, "create", "read") /\ Close(s, {})
  BY DEF Create
<1>1. /\ Sound(q) /\ q.op = "create" /\ HasRead(s) /\ IInv /\ Slots
      /\ b \in Drafts /\ b \in Body
  BY <1>0, Working, DraftType DEF CInv, IInv, Sound, HasRead
<1>2. s \in stale \/ Permits(s, Member)
  BY <1>1 DEF CInv, Checked, Good, Permits
<1>3. Acting(s) /\ \A t \in Session \ {s} : srv'[t] = srv[t]
  BY <1>0, <1>1, Closed DEF Acting, HasRead
<1> DEFINE row(i) == [ver |-> 1, code |-> Keep(i, b.code, None),
                      status |-> Keep("concept", b.status, None),
                      prob |-> b.prob, impact |-> b.impact,
                      dims |-> Merge(NoItem.dims, b.dims), score |-> 0,
                      del |-> FALSE]
<1>4. PICK i \in Item :
        /\ item[i].ver = 0
        /\ item' = IF CodeFree(Keep(i, b.code, None), i)
                   THEN [item EXCEPT ![i] = Rescored(row(i))] ELSE item
  BY DEF Create
<1>5. row(i) \in ItemRow
  <2>1. /\ Keep(i, b.code, None) \in {"x", None} \cup Item
        /\ Keep("concept", b.status, None) \in Status
    BY <1>1 DEF Keep, Body, Status
  <2>2. NoItem.dims \in [Dim -> 0 .. 5]
    BY DEF NoItem
  <2>3. Merge(NoItem.dims, b.dims) \in [Dim -> 0 .. 5]
    BY <1>1, <2>2, MergeType
  <2>4. b.prob \in Scale /\ b.impact \in Scale
    BY <1>1, DraftType
  <2> HIDE DEF b
  <2> QED
    BY <2>1, <2>3, <2>4 DEF ItemRow
<1>6. row(i).ver = 1 /\ ~row(i).del
  OBVIOUS
<1> HIDE DEF row
<1>7. /\ Rescored(row(i)).ver = 1 /\ ~Rescored(row(i)).del
      /\ Scored(Rescored(row(i)))
  BY <1>5, <1>6, RescoredType, RescoredScored
<1>8. ASSUME NEW j \in Item, item'[j] # item[j]
      PROVE  j = i /\ item'[j] = Rescored(row(i))
  BY <1>1, <1>4, <1>8 DEF IInv, Rows
<1> QED
  BY <1>1, <1>2, <1>3, <1>4, <1>7, <1>8

(* Any other write. *)
LEMMA OtherStep ==
  ASSUME CInv, NEW s \in Session,
         NewAction(s) \/ MoveAction(s) \/ DropAction(s) \/ Assess(s) \/ SaveBatch(s)
  PROVE  /\ Acting(s)
         /\ \A t \in Session \ {s} : srv'[t] = srv[t]
         /\ s \in stale \/ Permits(s, Member)
         /\ UNCHANGED item
<1> DEFINE q == srv[s].req
<1>0. /\ \/ At(s, "act", "read") \/ At(s, "move", "read")
         \/ At(s, "drop", "read") \/ At(s, "assess", "read")
         \/ At(s, "snapshot", "read")
      /\ Close(s, {}) /\ UNCHANGED item
  BY DEF NewAction, MoveAction, DropAction, Assess, SaveBatch
<1>1. /\ q.op \in {"act", "move", "drop", "assess", "snapshot"}
      /\ HasRead(s) /\ IInv /\ Slots /\ Sound(q)
  BY <1>0, Working DEF CInv, IInv, HasRead
<1>2. s \notin stale => Permits(s, Member) \/ Permits(s, Manager)
  BY <1>1 DEF CInv, Checked, Good, Permits
<1>3. s \in stale \/ Permits(s, Member)
  BY <1>1, <1>2, RankSuffices
<1>4. Acting(s) /\ \A t \in Session \ {s} : srv'[t] = srv[t]
  BY <1>0, <1>1, Closed DEF Acting, HasRead
<1> QED
  BY <1>0, <1>3, <1>4

(* A step that writes to no table of rows. *)
LEMMA RowsStay ==
  ASSUME Next,
         \A s \in Session :
           /\ ~Create(s) /\ ~Patch(s) /\ ~Delete(s) /\ ~NewAction(s)
           /\ ~MoveAction(s) /\ ~DropAction(s) /\ ~Assess(s) /\ ~SaveBatch(s)
  PROVE  UNCHANGED rowVars
<1>1. ASSUME NEW s \in Session, Ask(s) PROVE UNCHANGED rowVars
  BY <1>1 DEF Ask
<1>2. ASSUME NEW s \in Session, Handle(s) PROVE UNCHANGED rowVars
  BY <1>2 DEF Handle, RowStep, CheckCreate, CheckPatch, CheckDelete,
     CheckNewAction, CheckMoveAction, CheckDropAction, CheckAssess, ReadRisks,
     CheckPrune, PruneLogs
<1> QED
  BY <1>1, <1>2 DEF Next, Elsewhere

Writes(s) ==
  \/ Create(s) \/ Patch(s) \/ Delete(s) \/ NewAction(s)
  \/ MoveAction(s) \/ DropAction(s) \/ Assess(s) \/ SaveBatch(s)

(* Rows change by the write of one handler, and no other ends with it. *)
LEMMA OneWriter ==
  ASSUME CInv, [Next]_vars, rowVars' # rowVars
  PROVE  \E t \in Session :
           Writes(t) /\ Acting(t) /\ \A s \in Session : Acting(s) => s = t
<1>1. Next
  BY DEF vars
<1>2. PICK t \in Session : Writes(t)
  BY <1>1, RowsStay DEF Writes
<1>3. Acting(t) /\ \A s \in Session \ {t} : srv'[s] = srv[s]
  <2>1. CASE Create(t)
    BY <2>1, CreateStep
  <2>2. CASE Patch(t) \/ Delete(t)
    BY <2>2, EditStep
  <2>3. CASE \/ NewAction(t) \/ MoveAction(t) \/ DropAction(t) \/ Assess(t)
             \/ SaveBatch(t)
    BY <2>3, OtherStep
  <2> QED
    BY <1>2, <2>1, <2>2, <2>3 DEF Writes
<1> QED
  BY <1>2, <1>3 DEF Acting

(* EditsInTurn for every register and every number of handlers at once:    *)
(* whatever the bodies and base versions, a change of an item is one step  *)
(* of its version, on the version the client names if it names one, unless *)
(* the item has changed since the handler read it.                         *)
THEOREM EditsTakeTurns == Spec => EditsInTurn
<1> DEFINE Turns ==
      \A i \in Item, s \in Session : Acting(s) /\ item'[i] # item[i] =>
        \/ srv[s].req.op \in {"patch", "delete"} /\ srv[s].seen # item[i]
        \/ /\ item'[i].ver = item[i].ver + 1
           /\ srv[s].req.op = "patch" => srv[s].req.base \in {0, item[i].ver}
<1>1. ASSUME CInv, [Next]_vars PROVE Turns
  <2> SUFFICES ASSUME NEW i \in Item, NEW s \in Session, Acting(s),
                      item'[i] # item[i]
               PROVE  \/ /\ srv[s].req.op \in {"patch", "delete"}
                         /\ srv[s].seen # item[i]
                      \/ /\ item'[i].ver = item[i].ver + 1
                         /\ srv[s].req.op = "patch" =>
                              srv[s].req.base \in {0, item[i].ver}
    OBVIOUS
  <2>1. Writes(s)
    BY <1>1, OneWriter DEF rowVars
  <2>2. CASE Create(s)
    BY <1>1, <2>2, CreateStep
  <2>3. CASE Patch(s) \/ Delete(s)
    BY <1>1, <2>3, EditStep
  <2>4. CASE \/ NewAction(s) \/ MoveAction(s) \/ DropAction(s) \/ Assess(s)
             \/ SaveBatch(s)
    BY <1>1, <2>4, OtherStep
  <2> QED
    BY <2>1, <2>2, <2>3, <2>4 DEF Writes
<1>2. CInv /\ [Next]_vars => [Turns]_vars
  BY <1>1
<1>3. Spec => [][Turns]_vars
  <2> HIDE DEF Turns
  <2> QED
    BY <1>2, InitCInv, NextCInv, PTL DEF Spec
<1> QED
  BY <1>3 DEF EditsInTurn

(* OnlyPermitted for every set of members and every number of handlers at  *)
(* once: a row changes on the request of a member and an item disappears   *)
(* on the request of a manager, by whichever endpoint, and the role is     *)
(* still held then unless something was written since it was checked.      *)
THEOREM RolesRespected == Spec => OnlyPermitted
<1> DEFINE Permitted ==
      /\ rowVars' # rowVars =>
           \E s \in Session : Acting(s) /\ (s \in stale \/ Permits(s, Member))
      /\ \A i \in Item : item'[i].del /\ ~item[i].del =>
           \E s \in Session : Acting(s) /\ (s \in stale \/ Permits(s, Manager))
<1>1. ASSUME CInv, [Next]_vars, rowVars' # rowVars PROVE Permitted
  <2>1. PICK t \in Session : Writes(t) /\ Acting(t)
    BY <1>1, OneWriter
  <2>2. CASE Create(t)
    <3>1. t \in stale \/ Permits(t, Member)
      BY <1>1, <2>2, CreateStep
    <3>2. \A i \in Item : ~(item'[i].del /\ ~item[i].del)
      BY <1>1, <2>2, CreateStep
    <3> QED
      BY <2>1, <3>1, <3>2
  <2>3. CASE Patch(t) \/ Delete(t)
    <3>1. t \in stale \/ Permits(t, Member)
      BY <1>1, <2>3, EditStep
    <3>2. \A i \in Item : item'[i].del /\ ~item[i].del =>
            t \in stale \/ Permits(t, Manager)
      BY <1>1, <2>3, EditStep
    <3> QED
      BY <2>1, <3>1, <3>2
  <2>4. CASE \/ NewAction(t) \/ MoveAction(t) \/ DropAction(t) \/ Assess(t)
             \/ SaveBatch(t)
    <3>1. (t \in stale \/ Permits(t, Member)) /\ UNCHANGED item
      BY <1>1, <2>4, OtherStep
    <3> QED
      BY <2>1, <3>1
  <2> QED
    BY <2>1, <2>2, <2>3, <2>4 DEF Writes
<1>2. ASSUME rowVars' = rowVars PROVE Permitted
  BY <1>2 DEF rowVars
<1>3. CInv /\ [Next]_vars => [Permitted]_vars
  <2> HIDE DEF Permitted
  <2> QED
    BY <1>1, <1>2
<1>4. Spec => [][Permitted]_vars
  <2> HIDE DEF Permitted
  <2> QED
    BY <1>3, InitCInv, NextCInv, PTL DEF Spec
<1> QED
  BY <1>4 DEF OnlyPermitted

-----------------------------------------------------------------------------
(* Receipts. *)

(* A change with a receipt was applied last on the day of the receipt; one *)
(* without was not applied yesterday or today.                             *)
Receipts ==
  \A c \in Change :
    \/ /\ receipt[c] = {}
       /\ \A i \in DOMAIN applied[c] : now - applied[c][i] > 1
    \/ /\ applied[c] # << >>
       /\ receipt[c] = {applied[c][Len(applied[c])]}

RInv == IInv /\ Receipts /\ RetryCounted

LEMMA DaysPositive ==
  ASSUME NEW d \in Int
  PROVE  Days(d) \in Int /\ Days(d) >= 1
  BY RetentionAssumption DEF Days

LEMMA PushReceipts ==
  ASSUME RInv, NEW c \in Change, Push(c)
  PROVE  Receipts' /\ RetryCounted'
<1>1. /\ receipt \in [Change -> SUBSET Nat]
      /\ applied \in [Change -> Seq(Nat)] /\ now \in Nat
  BY DEF RInv, IInv, LogsTypeOK
<1>2. /\ receipt[c] = {} /\ now' = now
      /\ receipt' = [receipt EXCEPT ![c] = {now}]
      /\ applied' = [applied EXCEPT ![c] = Append(applied[c], now)]
  BY DEF Push
<1>3. \A i \in DOMAIN applied[c] : now - applied[c][i] > 1
  BY <1>2 DEF RInv, Receipts
<1> DEFINE s == applied[c]
           r == Append(s, now)
<1>4. s \in Seq(Nat)
  BY <1>1
<1>5. /\ Len(r) = Len(s) + 1 /\ r[Len(r)] = now /\ r # << >>
      /\ DOMAIN r = 1 .. Len(r) /\ DOMAIN s = 1 .. Len(s) /\ Len(s) \in Nat
      /\ \A i \in 1 .. Len(s) : r[i] = s[i]
  <2> HIDE DEF s
  <2>1. Len(r) = Len(s) + 1 /\ r \in Seq(Nat) /\ Len(s) \in Nat
    BY <1>1, <1>4
  <2>2. r[Len(s) + 1] = now /\ \A i \in 1 .. Len(s) : r[i] = s[i]
    BY <1>1, <1>4
  <2>3. r # << >>
    BY <2>1
  <2> QED
    BY <1>4, <2>1, <2>2, <2>3
<1>6. \A i, j \in DOMAIN s : i < j => s[j] - s[i] > 1
  BY DEF RInv, RetryCounted
<1>7. \A i \in DOMAIN s : now - s[i] > 1
  BY <1>3
<1>8. applied'[c] = r /\ receipt'[c] = {now}
  BY <1>1, <1>2
<1> HIDE DEF r, s
<1>9. \A i, j \in DOMAIN r : i < j => r[j] - r[i] > 1
  <2> SUFFICES ASSUME NEW i \in DOMAIN r, NEW j \in DOMAIN r, i < j
               PROVE  r[j] - r[i] > 1
    OBVIOUS
  <2>1. i \in DOMAIN s
    BY <1>5
  <2>2. CASE j \in DOMAIN s
    BY <1>5, <1>6, <2>1, <2>2
  <2>3. CASE j \notin DOMAIN s
    <3>1. j = Len(r)
      BY <1>5, <2>3
    <3> QED
      BY <1>5, <1>7, <2>1, <3>1
  <2> QED
    BY <2>2, <2>3
<1>10. \A d \in Change \ {c} : receipt'[d] = receipt[d] /\ applied'[d] = applied[d]
  BY <1>1, <1>2
<1>11. RetryCounted'
  <2>1. ASSUME NEW d \in Change, NEW i \in DOMAIN applied'[d],
               NEW j \in DOMAIN applied'[d], i < j
        PROVE  applied'[d][j] - applied'[d][i] > 1
    <3>1. CASE d = c
      BY <1>8, <1>9, <2>1, <3>1
    <3>2. CASE d # c
      BY <1>10, <2>1, <3>2 DEF RInv, RetryCounted
    <3> QED
      BY <3>1, <3>2
  <2> QED
    BY <2>1 DEF RetryCounted
<1>12. Receipts'
  <2>1. ASSUME NEW d \in Change
        PROVE  \/ /\ receipt'[d] = {}
                  /\ \A i \in DOMAIN applied'[d] : now' - applied'[d][i] > 1
               \/ /\ applied'[d] # << >>
                  /\ receipt'[d] = {applied'[d][Len(applied'[d])]}
    <3>1. CASE d = c
      BY <1>5, <1>8, <3>1
    <3>2. CASE d # c
      BY <1>2, <1>10, <3>2 DEF RInv, Receipts
    <3> QED
      BY <3>1, <3>2
  <2> QED
    BY <2>1 DEF Receipts
<1> QED
  BY <1>11, <1>12

(* A receipt goes when a day has passed in between. *)
LEMMA PruneReceipts ==
  ASSUME RInv, NEW s \in Session, PruneLogs(s)
  PROVE  Receipts' /\ RetryCounted'
<1> DEFINE n == Days(srv[s].req.days)
<1>0. /\ receipt \in [Change -> SUBSET Nat]
      /\ applied \in [Change -> Seq(Nat)] /\ now \in Nat
  BY DEF RInv, IInv, LogsTypeOK
<1>1. srv[s].req.days \in Int
  <2>1. At(s, "prune", "read")
    BY DEF PruneLogs
  <2> QED
    BY <2>1, Working DEF RInv, IInv, Sound
<1>2. n \in Int /\ n >= 1
  BY <1>1, DaysPositive
<1>3. /\ receipt' = [c \in Change |-> {t \in receipt[c] : t >= now - n}]
      /\ UNCHANGED <<applied, now>>
  BY DEF PruneLogs, Prune
<1> HIDE DEF n
<1>4. ASSUME NEW c \in Change
      PROVE  \/ /\ receipt'[c] = {}
                /\ \A i \in DOMAIN applied[c] : now - applied[c][i] > 1
             \/ /\ applied[c] # << >>
                /\ receipt'[c] = {applied[c][Len(applied[c])]}
  <2>1. CASE receipt[c] = {}
    BY <1>3, <2>1 DEF RInv, Receipts
  <2>2. CASE receipt[c] # {}
    <3> DEFINE a == applied[c]
               m == Len(a)
    <3>1. a # << >> /\ receipt[c] = {a[m]}
      BY <2>2 DEF RInv, Receipts
    <3>2. /\ DOMAIN a = 1 .. m /\ m \in Nat /\ m \in DOMAIN a
          /\ \A i \in DOMAIN a : a[i] \in Nat
      <4>1. a \in Seq(Nat)
        BY <1>0
      <4> HIDE DEF a
      <4> QED
        BY <3>1, <4>1
    <3>3. \A i \in DOMAIN a : i < m => a[m] - a[i] > 1
      BY <3>2 DEF RInv, RetryCounted
    <3>4. receipt'[c] = {t \in {a[m]} : t >= now - n}
      BY <1>3, <3>1
    <3> HIDE DEF a, m
    <3>5. CASE a[m] >= now - n
      BY <3>1, <3>4, <3>5 DEF a, m
    <3>6. CASE ~(a[m] >= now - n)
      <4>1. now - a[m] > 1
        BY <1>0, <1>2, <3>2, <3>6
      <4>2. \A i \in DOMAIN a : now - a[i] > 1
        <5> SUFFICES ASSUME NEW i \in DOMAIN a PROVE now - a[i] > 1
          OBVIOUS
        <5>1. CASE i = m
          BY <4>1, <5>1
        <5>2. CASE i # m
          <6>1. a[m] - a[i] > 1 /\ a[m] \in Nat /\ a[i] \in Nat
            BY <3>2, <3>3, <5>2
          <6> QED
            BY <1>0, <4>1, <6>1
        <5> QED
          BY <5>1, <5>2
      <4>3. receipt'[c] = {}
        BY <3>4, <3>6
      <4> QED
        BY <4>2, <4>3 DEF a
    <3> QED
      BY <3>5, <3>6
  <2> QED
    BY <2>1, <2>2
<1> QED
  BY <1>3, <1>4 DEF Receipts, RetryCounted, RInv

LEMMA NextRInv == RInv /\ [Next]_vars => RInv'
<1> SUFFICES ASSUME RInv, [Next]_vars PROVE RInv'
  OBVIOUS
<1>0. IInv'
  BY NextIInv DEF RInv
<1>1. CASE \E c \in Change : Push(c)
  BY <1>0, <1>1, PushReceipts DEF RInv
<1>2. CASE \E s \in Session : PruneLogs(s)
  BY <1>0, <1>2, PruneReceipts DEF RInv
<1>3. CASE Tomorrow
  <2>1. UNCHANGED <<receipt, applied>> /\ now' = now + 1
    BY <1>3 DEF Tomorrow
  <2>2. now \in Nat /\ applied \in [Change -> Seq(Nat)]
    BY DEF RInv, IInv, LogsTypeOK
  <2>3. ASSUME NEW c \in Change, NEW i \in DOMAIN applied[c],
               now - applied[c][i] > 1
        PROVE  now' - applied[c][i] > 1
    <3>1. applied[c][i] \in Nat
      BY <2>2, <2>3
    <3> QED
      BY <2>1, <2>2, <2>3, <3>1
  <2>4. Receipts'
    BY <2>1, <2>3 DEF RInv, Receipts
  <2> QED
    BY <1>0, <2>1, <2>4 DEF RInv, RetryCounted
<1>4. CASE UNCHANGED logVars
  BY <1>0, <1>4 DEF RInv, Receipts, RetryCounted, logVars
<1>5. ASSUME NEW s \in Session, Ask(s) PROVE UNCHANGED logVars
  BY <1>5 DEF Ask
<1>6. ASSUME NEW s \in Session, Handle(s)
      PROVE  UNCHANGED logVars \/ PruneLogs(s)
  BY <1>6 DEF Handle
<1>7. ASSUME UNCHANGED vars PROVE UNCHANGED logVars
  BY <1>7 DEF vars
<1> QED
  BY <1>1, <1>2, <1>3, <1>4, <1>5, <1>6, <1>7 DEF Next, Elsewhere

(* RetryCounted for every retention and every wish of an administrator:    *)
(* while the receipts of a project are pruned, also with a number of days  *)
(* below one, no change is applied twice within two days.                  *)
THEOREM RetriesCounted == Spec => []RetryCounted
<1>1. Init => RInv
  <2> SUFFICES ASSUME Init PROVE RInv
    OBVIOUS
  <2>1. \A c \in Change : receipt[c] = {} /\ applied[c] = << >>
    BY DEF Init, LogsInit
  <2>2. DOMAIN << >> = {}
    OBVIOUS
  <2> QED
    BY <2>1, <2>2, InitIInv DEF RInv, Receipts, RetryCounted
<1>2. RInv => RetryCounted
  BY DEF RInv
<1> QED
  BY <1>1, <1>2, NextRInv, PTL DEF Spec

-----------------------------------------------------------------------------
(* Rows that were written over stay so. *)
LEMMA CrossedGrows ==
  ASSUME [Next]_vars
  PROVE  crossed \subseteq crossed'
<1>1. ASSUME NEW s \in Session, NEW q, Open(s, q) PROVE crossed' = crossed
  BY <1>1 DEF Open
<1>2. ASSUME NEW s \in Session, NEW ok, NEW x, NEW over,
             Found(s, ok, x) \/ Close(s, over) \/ Leave(s)
      PROVE  crossed \subseteq crossed'
  BY <1>2 DEF Found, Close, Leave
<1>3. ASSUME NEW s \in Session, Ask(s) PROVE crossed' = crossed
  BY <1>1, <1>3 DEF Ask, AskMembers, AskPrune, AskRisks, AskOpportunities,
     AskItems, AskAssessments, AskActions, AskSnapshot
<1>4. ASSUME NEW s \in Session, Handle(s) PROVE crossed \subseteq crossed'
  <2>1. CASE MemberStep(s)
    BY <1>2, <2>1 DEF MemberStep, CreateProject, CheckGrant, Grant,
       CheckRemove, Remove
  <2>2. CASE PruneLogs(s)
    BY <1>2, <2>2 DEF PruneLogs
  <2>3. CASE \/ Create(s) \/ Patch(s) \/ Delete(s) \/ NewAction(s)
             \/ MoveAction(s) \/ DropAction(s) \/ Assess(s) \/ SaveBatch(s)
    BY <1>2, <2>3 DEF Create, Patch, Delete, NewAction, MoveAction,
       DropAction, Assess, SaveBatch
  <2>4. CASE \/ CheckCreate(s) \/ CheckPatch(s) \/ CheckDelete(s)
             \/ CheckNewAction(s) \/ CheckMoveAction(s) \/ CheckDropAction(s)
             \/ CheckAssess(s) \/ ReadRisks(s) \/ CheckPrune(s)
    BY <1>2, <2>4 DEF CheckCreate, CheckPatch, CheckDelete, CheckNewAction,
       CheckMoveAction, CheckDropAction, CheckAssess, ReadRisks, CheckPrune
  <2> QED
    BY <1>4, <2>1, <2>2, <2>3, <2>4 DEF Handle, RowStep
<1>5. CASE Elsewhere \/ UNCHANGED vars
  BY <1>5 DEF Elsewhere, vars, memberVars
<1> QED
  BY <1>3, <1>4, <1>5 DEF Next

(* ScoreTrue for every register and every number of handlers at once: an   *)
(* item that can be seen has the score its own probability, impact and     *)
(* dimensions give it, unless an edit of it was written over another one.  *)
THEOREM ScoresTrue == Spec => []ScoreTrue
<1>1. Init => ScoreTrue
  <2> SUFFICES ASSUME Init PROVE ScoreTrue
    OBVIOUS
  <2>1. \A i \in Item : item[i].ver # 0 => Scored(item[i])
    <3>1. CASE item = [i \in Item |-> NoItem]
      BY <3>1 DEF NoItem
    <3>2. CASE \E i \in Item :
                 item = [[j \in Item |-> NoItem] EXCEPT
                           ![i] = [@ EXCEPT !.ver = 1, !.code = "x", !.score = 1]]
      <4> DEFINE x == [NoItem EXCEPT !.ver = 1, !.code = "x", !.score = 1]
      <4>1. PICK i \in Item : item = [[j \in Item |-> NoItem] EXCEPT ![i] = x]
        BY <3>2
      <4>2. Scored(x)
        BY DEF NoItem, Scored
      <4> HIDE DEF x
      <4>3. \A j \in Item : item[j] = x \/ item[j] = NoItem
        BY <4>1
      <4> QED
        BY <4>2, <4>3 DEF NoItem
    <3> QED
      BY <3>1, <3>2 DEF Init
  <2> QED
    BY <2>1 DEF ScoreTrue, Scored, Live
<1>2. CInv /\ ScoreTrue /\ [Next]_vars => ScoreTrue'
  <2> SUFFICES ASSUME CInv, ScoreTrue, [Next]_vars, NEW i \in Item,
                      i \notin crossed', ~item'[i].del, item'[i].ver # 0
               PROVE  Scored(item'[i])
    BY DEF ScoreTrue, Live, Scored
  <2>0. i \notin crossed
    BY CrossedGrows
  <2>1. CASE item'[i] = item[i]
    BY <2>0, <2>1 DEF ScoreTrue, Live, Scored
  <2>2. CASE item'[i] # item[i]
    <3>1. PICK t \in Session : Writes(t)
      BY <2>2, OneWriter DEF rowVars
    <3>2. CASE Create(t)
      BY <2>2, <3>2, CreateStep
    <3>3. CASE Patch(t) \/ Delete(t)
      BY <2>2, <3>3, EditStep
    <3>4. CASE \/ NewAction(t) \/ MoveAction(t) \/ DropAction(t) \/ Assess(t)
               \/ SaveBatch(t)
      BY <2>2, <3>4, OtherStep
    <3> QED
      BY <3>1, <3>2, <3>3, <3>4 DEF Writes
  <2> QED
    BY <2>1, <2>2
<1> QED
  BY <1>1, <1>2, InitCInv, NextCInv, PTL DEF Spec

-----------------------------------------------------------------------------
(* Snapshots. *)

(* What the handler of a snapshot saves. *)
LEMMA BatchSaved ==
  ASSUME CInv, NEW s \in Session, SaveBatch(s)
  PROVE  /\ srv[s].req.types \subseteq {"risk", "opportunity"}
         /\ \E b \in Batch :
              /\ snap' = snap \/ snap' = snap \cup {b}
              /\ b.at = srv[s].req.at
              /\ \A t \in srv[s].req.types :
                   t = "opportunity" \/ s \notin stale => b[t] = LiveScores(item, t)
<1> DEFINE q == srv[s].req
           b == [at |-> q.at, risk |-> srv[s].seen,
                 opportunity |-> Wanted(q, "opportunity")]
<1>0. At(s, "snapshot", "read")
  BY DEF SaveBatch
<1>1. /\ HasRead(s) /\ q.op = "snapshot" /\ IInv
      /\ Sound(q) /\ Remembers(q, srv[s].seen)
  BY <1>0, Working DEF CInv, IInv, HasRead
<1>2. q.at \in Nat /\ q.types \subseteq {"risk", "opportunity"}
  BY <1>1 DEF Sound
<1>3. s \notin stale => srv[s].seen = Wanted(q, "risk")
  BY <1>1 DEF CInv, Checked, Good
<1>4. b \in Batch
  BY <1>1, <1>2, WantedType DEF Remembers, Batch
<1>5. snap' = snap \/ snap' = snap \cup {b}
  BY DEF SaveBatch
<1>6. b.at = q.at /\ b.opportunity = Wanted(q, "opportunity")
      /\ (s \notin stale => b.risk = Wanted(q, "risk"))
  BY <1>3
<1> HIDE DEF b
<1>7. ASSUME NEW t \in q.types, t = "opportunity" \/ s \notin stale
      PROVE  b[t] = LiveScores(item, t)
  <2>1. t = "risk" \/ t = "opportunity"
    BY <1>2
  <2> QED
    BY <1>6, <1>7, <2>1 DEF Wanted
<1> QED
  BY <1>2, <1>4, <1>5, <1>6, <1>7

(* The batch that is later than all others is the latest. *)
LEMMA LatestIsLast ==
  ASSUME NEW B, B \subseteq Batch, NEW b \in Batch,
         \A c \in B : c.at < b.at,
         NEW t \in {"risk", "opportunity"}, b[t] # {}
  PROVE  Latest(B \cup {b}, t) = b[t]
<1> DEFINE some == {c \in B \cup {b} : c[t] # {}}
           last == CHOOSE c \in some : \A a \in some : a.at <= c.at
<1>1. b \in some /\ \A c \in some : c = b \/ c.at < b.at
  OBVIOUS
<1>2. \A c \in some : c.at \in Nat
  BY DEF Batch
<1>3. \A c \in some : c.at <= b.at
  BY <1>1, <1>2
<1>4. last \in some /\ \A a \in some : a.at <= last.at
  <2> HIDE DEF some
  <2> QED
    BY <1>1, <1>3
<1>5. last = b
  <2> HIDE DEF last, some
  <2> QED
    BY <1>1, <1>2, <1>4
<1>6. Latest(B \cup {b}, t) = last[t]
  BY <1>1 DEF Latest
<1> QED
  BY <1>5, <1>6

(* LatestShown for every register and every number of handlers at once: a  *)
(* snapshot is the one that is shown unless one asked for later is there,  *)
(* and it shows the live items of the types asked for with the scores they *)
(* have; of the risks this holds if nobody has written since they were     *)
(* read.                                                                   *)
THEOREM SnapshotShown == Spec => LatestShown
<1> DEFINE Shows ==
      snap' # snap =>
        \A s \in Session :
          Acting(s) /\ (\A b \in snap : b.at < srv[s].req.at) =>
            \A t \in srv[s].req.types :
              (LiveScores(item, t) # {} /\ (t = "opportunity" \/ s \notin stale))
                => Latest(snap', t) = LiveScores(item, t)
<1>1. ASSUME CInv, [Next]_vars PROVE Shows
  <2> SUFFICES ASSUME snap' # snap, NEW s \in Session, Acting(s),
                      \A b \in snap : b.at < srv[s].req.at,
                      NEW t \in srv[s].req.types, LiveScores(item, t) # {},
                      t = "opportunity" \/ s \notin stale
               PROVE  Latest(snap', t) = LiveScores(item, t)
    OBVIOUS
  <2>1. Writes(s)
    BY <1>1, OneWriter DEF rowVars
  <2>2. SaveBatch(s)
    BY <2>1 DEF Writes, Create, Patch, Delete, NewAction, MoveAction,
       DropAction, Assess
  <2>3. srv[s].req.types \subseteq {"risk", "opportunity"}
    BY <1>1, <2>2, BatchSaved
  <2>4. PICK b \in Batch :
          /\ snap' = snap \/ snap' = snap \cup {b}
          /\ b.at = srv[s].req.at
          /\ \A k \in srv[s].req.types :
               k = "opportunity" \/ s \notin stale => b[k] = LiveScores(item, k)
    BY <1>1, <2>2, BatchSaved
  <2>5. snap' = snap \cup {b} /\ b[t] = LiveScores(item, t)
    BY <2>4
  <2>6. snap \subseteq Batch /\ t \in {"risk", "opportunity"}
    BY <1>1, <2>3 DEF CInv, IInv, Rows
  <2>7. \A c \in snap : c.at < b.at
    BY <2>4
  <2> QED
    BY <2>5, <2>6, <2>7, LatestIsLast
<1>2. CInv /\ [Next]_vars => [Shows]_vars
  BY <1>1
<1>3. Spec => [][Shows]_vars
  <2> HIDE DEF Shows
  <2> QED
    BY <1>2, InitCInv, NextCInv, PTL DEF Spec
<1> QED
  BY <1>3 DEF LatestShown
==============================================================================
