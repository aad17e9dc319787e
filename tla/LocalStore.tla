------------------------------ MODULE LocalStore ------------------------------
(***************************************************************************)
(* The SQLite database of one device, as far as projects go:               *)
(* sqlite_data_store.py and the outbox table.  The program has a single    *)
(* connection.  A statement changes what the connection sees, commit()     *)
(* makes all of it durable, and an exception between the two leaves the    *)
(* transaction open for whoever commits next.                              *)
(*                                                                         *)
(*   db     what the connection sees                                       *)
(*   disk   what was committed last                                        *)
(*   open   a transaction is open, if only because of a statement that was *)
(*          refused                                                        *)
(*                                                                         *)
(* db and disk are records: project, the ids in the projects table;        *)
(* row[r], row r of risks or opportunities (proj None: no row); queue, the *)
(* outbox; since, the server times of sync_state, in the terms a pull      *)
(* tells apart: since[r] is the version row r had on the server when its   *)
(* project was pulled last.                                                *)
(* A code is <<type, n>> for R-00n and O-00n.  bootstrap_project_id is left *)
(* out: it is only read when there is no project, and then finds none.     *)
(***************************************************************************)
EXTENDS Integers, FiniteSets, FiniteSetsExt

CONSTANTS
  Row, Type,   \* rows, and whether each is a risk or an opportunity
  Remote,      \* ids the server can give to projects
  Local,       \* the id of the project made offline, "local-..."
  None

ASSUME LocalStoreAssumption ==
  /\ Type \in [Row -> {"risk", "opportunity"}]
  /\ Local \notin Remote /\ None \notin Remote \cup Row \cup {Local}
  /\ IsFiniteSet(Row)

VARIABLES db, disk, open

store == <<db, disk, open>>

ProjectId == Remote \cup {Local}
Code  == {"risk", "opportunity"} \X Nat
Stored == [proj : ProjectId \cup {None}, code : Code, val : Nat, ver : Nat,
           del : BOOLEAN]
Entry == [row : Row, proj : ProjectId, code : Code, val : Nat, del : BOOLEAN,
          id : Nat, st : {"pending", "blocked"}]
Database == [project : SUBSET ProjectId, row : [Row -> Stored],
             queue : SUBSET Entry, since : [Row -> Nat]]

(* Mutant of NoRow: an item nobody has sent has version -1.                *)
NoRowUnsent(r) == [proj |-> None, code |-> <<Type[r], 0>>, val |-> 0,
                   ver |-> -1, del |-> FALSE]

NoRow(r) == [proj |-> None, code |-> <<Type[r], 0>>, val |-> 0, ver |-> 0,
             del |-> FALSE]

StoreInit ==
  /\ db = [project |-> {}, row |-> [r \in Row |-> NoRow(r)], queue |-> {},
            since |-> [r \in Row |-> 0]]
  /\ disk = db /\ open = FALSE

(* A statement and commit(); statements that are not committed, or that    *)
(* are refused: sqlite3 has opened a transaction for them all the same.    *)
Commit(d) == db' = d /\ disk' = d /\ open' = FALSE
Leave(d)  == db' = d /\ UNCHANGED disk /\ open' = TRUE

(* Rows of a project that is not there: a foreign key forbids them.        *)
Orphans(d) == {r \in Row : d.row[r].proj \notin d.project \cup {None}}

Rows(d, p, t) == {r \in Row : d.row[r].proj = p /\ Type[r] = t}
Pending(d, p) == {e \in d.queue : e.proj = p /\ e.st = "pending"}

(* The unique index on (project_id, code) refuses x for row r. *)
Clash(d, r, x) ==
  \E q \in Rows(d, x.proj, Type[r]) \ {r} : d.row[q].code = x.code

(* _next_code: one more than the largest number in use, in rows that are   *)
(* deleted as well; a code of the other kind does not count.               *)
Numbered(d, p, t) == {r \in Rows(d, p, t) : d.row[r].code[1] = t}

NextCode(d, p, t) ==
  <<t, 1 + Max({0} \cup {d.row[r].code[2] : r \in Numbered(d, p, t)})>>

Write(d, r, x) == [d EXCEPT !.row[r] = x]

(* _replace_outbox_entry: one entry for a row. *)
Queued(d, r, id) ==
  LET x == d.row[r]
      same == {e \in d.queue : e.row = r /\ e.proj = x.proj}
  IN [d EXCEPT !.queue = (@ \ same) \cup
        {[row |-> r, proj |-> x.proj, code |-> x.code, val |-> x.val,
          del |-> x.del, id |-> id, st |-> "pending"]}]

(* discard_entity_changes *)
Discarded(d, r) ==
  [d EXCEPT !.queue = {e \in @ : e.row # r \/ e.proj # d.row[r].proj}]

(* migrate_project_id: the tables one after the other, then the outbox and *)
(* the old project.  A clash stops it.                                     *)
Moved(d, t, new) ==
  [d EXCEPT !.row = [r \in Row |->
     IF r \in Rows(d, Local, t) THEN [d.row[r] EXCEPT !.proj = new]
     ELSE d.row[r]]]

Obstructed(d, t, new) ==
  \E r \in Rows(d, Local, t) : Clash(d, r, [d.row[r] EXCEPT !.proj = new])

(* Mutant of Readdressed: the outbox is left out. *)
ReaddressedRows(d, new) == [d EXCEPT !.project = @ \ {Local}]

Readdressed(d, new) ==
  [d EXCEPT !.project = @ \ {Local},
            !.queue = {IF e.proj = Local THEN [e EXCEPT !.proj = new] ELSE e :
                         e \in @}]

(* What an UPDATE that fails leaves of the migration. *)
HalfMoved(d, new) ==
  LET d0 == [d EXCEPT !.project = @ \cup {new}]
  IN IF Obstructed(d0, "risk", new) THEN d0 ELSE Moved(d0, "risk", new)

Blocked(d, new) == \E t \in {"risk", "opportunity"} : Obstructed(d, t, new)

Migrated(d, new) ==
  LET d0 == [d EXCEPT !.project = @ \cup {new}]
  IN Readdressed(Moved(Moved(d0, "risk", new), "opportunity", new), new)

(* _apply_pull_scored_entities, for one row of the answer: a pending row   *)
(* only learns its version.                                                *)
Waits(d, r, x) == \E e \in Pending(d, x.proj) : e.row = r

Unapplicable(d, r, x) == ~Waits(d, r, x) /\ Clash(d, r, x)

(* Mutant of Applied: an UPDATE, which finds no row the first time.        *)
AppliedUpdate(d, r, x) ==
  IF d.row[r].proj = None THEN d.row[r]
  ELSE IF Waits(d, r, x) THEN [d.row[r] EXCEPT !.ver = x.ver] ELSE x

Applied(d, r, x) ==
  IF Waits(d, r, x) THEN [d.row[r] EXCEPT !.ver = x.ver] ELSE x
=============================================================================
