---------------------------- MODULE DesktopProofs ----------------------------
(***************************************************************************)
(* Theorems about Desktop for every set of rows and of project ids, every  *)
(* set of codes people type and every number of operations and failures.   *)
(***************************************************************************)
EXTENDS Desktop, FiniteSetTheorems, FunctionTheorems, TLAPS

-----------------------------------------------------------------------------
(* The next code. *)

(* A finite set of numbers has a largest element: a smallest subset that   *)
(* had none would have none without one of its elements either.            *)
LEMMA FiniteMax ==
  ASSUME NEW S \in SUBSET Nat, IsFiniteSet(S), S # {}
  PROVE  Max(S) \in S
<1> DEFINE HasMax(U) == \E x \in U : \A y \in U : x >= y
           Bad == {U \in SUBSET S : U # {} /\ ~HasMax(U)}
<1>1. Bad = {}
  <2> SUFFICES ASSUME Bad # {} PROVE FALSE
    OBVIOUS
  <2>1. Bad \subseteq FiniteSubsetsOf(S)
    BY FS_Subset DEF FiniteSubsetsOf
  <2>2. PICK U \in Bad : \A V \in Bad : ~(<<V, U>> \in StrictSubsetOrdering(S))
    BY <2>1, FS_StrictSubsetOrderingWellFounded, WFMin
  <2>3. PICK x \in U : TRUE
    OBVIOUS
  <2>4. /\ U \ {x} \in SUBSET S /\ U \in SUBSET S /\ U \ {x} # U /\ x \in Nat
        /\ \A y \in U : y \in Nat
    BY <2>3
  <2>5. HasMax(U \ {x}) \/ U \ {x} = {}
    BY <2>2, <2>4 DEF StrictSubsetOrdering
  <2>6. CASE U \ {x} = {}
    BY <2>3, <2>4, <2>6
  <2>7. CASE HasMax(U \ {x})
    <3>1. PICK m \in U \ {x} : \A y \in U \ {x} : m >= y
      BY <2>7
    <3>2. CASE m >= x
      BY <3>1, <3>2
    <3>3. CASE ~(m >= x)
      BY <2>3, <2>4, <3>1, <3>3
    <3> QED
      BY <3>2, <3>3
  <2> QED
    BY <2>5, <2>6, <2>7
<1>2. HasMax(S)
  BY <1>1
<1> QED
  BY <1>2 DEF Max

LEMMA NextCodeType ==
  ASSUME NEW d \in Database, NEW p, NEW t \in {"risk", "opportunity"}
  PROVE  NextCode(d, p, t) \in Code
<1> DEFINE R == Numbered(d, p, t)
           N == {d.row[r].code[2] : r \in R}
           f == [r \in R |-> d.row[r].code[2]]
<1>1. IsFiniteSet(R)
  BY LocalStoreAssumption, FS_Subset DEF Numbered, Rows
<1>2. N \in SUBSET Nat
  BY DEF Database, Stored, Code, Numbered, Rows
<1>3. f \in Surjection(R, N)
  BY DEF Surjection
<1>4. IsFiniteSet(N)
  BY <1>1, <1>3, FS_Surjection
<1>5. IsFiniteSet({0} \cup N)
  <2>1. IsFiniteSet({0})
    BY FS_Singleton
  <2> QED
    BY <1>4, <2>1, FS_Union
<1>6. Max({0} \cup N) \in Nat
  <2>1. {0} \cup N \in SUBSET Nat /\ {0} \cup N # {}
    BY <1>2
  <2> HIDE DEF N
  <2> QED
    BY <1>5, <2>1, FiniteMax
<1> QED
  BY <1>6 DEF NextCode, Code

-----------------------------------------------------------------------------
(* What the statements do to a database. *)

LEMMA NoRowType ==
  ASSUME NEW r \in Row
  PROVE  NoRow(r) \in Stored /\ NoRow(r).proj = None
  BY LocalStoreAssumption DEF NoRow, Stored, Code

LEMMA WriteFacts ==
  ASSUME NEW d \in Database, NEW r \in Row, NEW x \in Stored
  PROVE  /\ Write(d, r, x) \in Database
         /\ Write(d, r, x).project = d.project /\ Write(d, r, x).queue = d.queue
         /\ Write(d, r, x).row[r] = x
         /\ \A q \in Row \ {r} : Write(d, r, x).row[q] = d.row[q]
  BY DEF Write, Database

LEMMA QueuedFacts ==
  ASSUME NEW d \in Database, NEW r \in Row, NEW id \in Nat, d.row[r].proj # None
  PROVE  /\ Queued(d, r, id) \in Database
         /\ Queued(d, r, id).row = d.row /\ Queued(d, r, id).project = d.project
         /\ \A e \in Queued(d, r, id).queue :
              e \in d.queue \/ (e.row = r /\ e.proj = d.row[r].proj)
         /\ \E e \in Queued(d, r, id).queue :
              e.row = r /\ e.val = d.row[r].val /\ e.st = "pending"
<1> DEFINE x == d.row[r]
           same == {e \in d.queue : e.row = r /\ e.proj = x.proj}
           new == [row |-> r, proj |-> x.proj, code |-> x.code, val |-> x.val,
                   del |-> x.del, id |-> id, st |-> "pending"]
           Q == (d.queue \ same) \cup {new}
<1>1. x \in Stored /\ x.proj # None
  BY DEF Database
<1>2. new \in Entry
  <2> HIDE DEF x
  <2> QED
    BY <1>1 DEF Entry, Stored
<1>3. Queued(d, r, id) = [d EXCEPT !.queue = Q]
  BY DEF Queued, Database
<1>4. Q \in SUBSET Entry
  BY <1>2 DEF Database
<1>5. \A e \in Q : e \in d.queue \/ (e.row = r /\ e.proj = d.row[r].proj)
  OBVIOUS
<1>6. \E e \in Q : e.row = r /\ e.val = x.val /\ e.st = "pending"
  <2>1. new \in Q /\ new.row = r /\ new.val = x.val /\ new.st = "pending"
    OBVIOUS
  <2> HIDE DEF new, Q, x
  <2> QED
    BY <2>1
<1> HIDE DEF Q
<1> QED
  BY <1>3, <1>4, <1>5, <1>6 DEF Database

LEMMA DiscardedFacts ==
  ASSUME NEW d \in Database, NEW r \in Row
  PROVE  /\ Discarded(d, r) \in Database
         /\ Discarded(d, r).row = d.row /\ Discarded(d, r).project = d.project
         /\ Discarded(d, r).queue \subseteq d.queue
<1> DEFINE Q == {e \in d.queue : e.row # r \/ e.proj # d.row[r].proj}
<1>1. Discarded(d, r) = [d EXCEPT !.queue = Q]
  BY DEF Discarded, Database
<1>2. Q \subseteq d.queue /\ Q \in SUBSET Entry
  BY DEF Database
<1> HIDE DEF Q
<1> QED
  BY <1>1, <1>2 DEF Database

(* A row moves with its project, and nothing else about it changes. *)
Follows(x, y, new) ==
  /\ y \in Stored /\ y.val = x.val
  /\ y.proj = x.proj \/ (x.proj = Local /\ y.proj = new)

LEMMA MovedFacts ==
  ASSUME NEW d \in Database, NEW t, NEW new \in Remote
  PROVE  /\ Moved(d, t, new) \in Database
         /\ Moved(d, t, new).project = d.project /\ Moved(d, t, new).queue = d.queue
         /\ \A r \in Row : /\ Follows(d.row[r], Moved(d, t, new).row[r], new)
                           /\ Type[r] = t => Moved(d, t, new).row[r].proj # Local
<1> DEFINE m == [r \in Row |-> IF r \in Rows(d, Local, t)
                               THEN [d.row[r] EXCEPT !.proj = new] ELSE d.row[r]]
<1>1. Moved(d, t, new) = [d EXCEPT !.row = m]
  BY DEF Moved
<1>2. ASSUME NEW r \in Row
      PROVE  /\ Follows(d.row[r], m[r], new)
             /\ Type[r] = t => m[r].proj # Local
  <2>1. d.row[r] \in Stored
    BY DEF Database
  <2>2. new \in ProjectId /\ new # Local
    BY LocalStoreAssumption DEF ProjectId
  <2> QED
    BY <2>1, <2>2 DEF Stored, Follows, Rows
<1>3. m \in [Row -> Stored]
  BY <1>2 DEF Follows
<1> HIDE DEF m
<1> QED
  BY <1>1, <1>2, <1>3 DEF Database

LEMMA ReaddressedFacts ==
  ASSUME NEW d \in Database, NEW new \in Remote
  PROVE  /\ Readdressed(d, new) \in Database
         /\ Readdressed(d, new).row = d.row
         /\ Readdressed(d, new).project = d.project \ {Local}
         /\ \A e \in Readdressed(d, new).queue :
              \E o \in d.queue : /\ e.row = o.row
                                 /\ e.proj = IF o.proj = Local THEN new ELSE o.proj
<1> DEFINE Q == {IF e.proj = Local THEN [e EXCEPT !.proj = new] ELSE e : e \in d.queue}
           P == d.project \ {Local}
<1>1. Readdressed(d, new) = [d EXCEPT !.project = P, !.queue = Q]
  BY DEF Readdressed, Database
<1>2. d.queue \subseteq Entry /\ new \in ProjectId /\ P \in SUBSET ProjectId
  BY DEF Database, ProjectId
<1>3. \A e \in Q : \E o \in d.queue : /\ e \in Entry /\ e.row = o.row
                                      /\ e.proj = IF o.proj = Local THEN new ELSE o.proj
  BY <1>2 DEF Entry
<1>4. Q \in SUBSET Entry
  BY <1>3
<1> HIDE DEF Q
<1> QED
  BY <1>1, <1>2, <1>3, <1>4 DEF Database

LEMMA AddedFacts ==
  ASSUME NEW d \in Database, NEW P \in SUBSET ProjectId
  PROVE  /\ [d EXCEPT !.project = P] \in Database
         /\ [d EXCEPT !.project = P].project = P
         /\ [d EXCEPT !.project = P].row = d.row
         /\ [d EXCEPT !.project = P].queue = d.queue
  BY DEF Database

LEMMA MigratedFacts ==
  ASSUME NEW d \in Database, NEW new \in Remote
  PROVE  /\ Migrated(d, new) \in Database
         /\ Migrated(d, new).project = (d.project \cup {new}) \ {Local}
         /\ \A r \in Row : /\ Follows(d.row[r], Migrated(d, new).row[r], new)
                           /\ Migrated(d, new).row[r].proj # Local
         /\ \A e \in Migrated(d, new).queue :
              \E o \in d.queue : /\ e.row = o.row
                                 /\ e.proj = IF o.proj = Local THEN new ELSE o.proj
<1> DEFINE P == d.project \cup {new}
           d0 == [d EXCEPT !.project = P]
           d1 == Moved(d0, "risk", new)
           d2 == Moved(d1, "opportunity", new)
<1>0. P \in SUBSET ProjectId
  BY DEF Database, ProjectId
<1>1. d0 \in Database /\ d0.project = P /\ d0.row = d.row /\ d0.queue = d.queue
  <2> HIDE DEF P
  <2> QED
    BY <1>0, AddedFacts
<1>2. Migrated(d, new) = Readdressed(d2, new)
  BY DEF Migrated, Database
<1> HIDE DEF d0
<1>3. /\ d1 \in Database /\ d1.project = P /\ d1.queue = d.queue
      /\ \A r \in Row : /\ Follows(d.row[r], d1.row[r], new)
                        /\ Type[r] = "risk" => d1.row[r].proj # Local
  BY <1>1, MovedFacts
<1> HIDE DEF d1
<1>4. /\ d2 \in Database /\ d2.project = P /\ d2.queue = d.queue
      /\ \A r \in Row : /\ Follows(d1.row[r], d2.row[r], new)
                        /\ Type[r] = "opportunity" => d2.row[r].proj # Local
  BY <1>3, MovedFacts
<1> HIDE DEF d2
<1>5. ASSUME NEW r \in Row
      PROVE  Follows(d.row[r], d2.row[r], new) /\ d2.row[r].proj # Local
  <2>1. new # Local /\ Type[r] \in {"risk", "opportunity"}
    BY LocalStoreAssumption
  <2> QED
    BY <1>3, <1>4, <2>1 DEF Follows
<1> QED
  BY <1>2, <1>4, <1>5, ReaddressedFacts

LEMMA HalfMovedFacts ==
  ASSUME NEW d \in Database, NEW new \in Remote
  PROVE  /\ HalfMoved(d, new) \in Database
         /\ HalfMoved(d, new).project = d.project \cup {new}
         /\ \A r \in Row : Follows(d.row[r], HalfMoved(d, new).row[r], new)
<1> DEFINE P == d.project \cup {new}
           d0 == [d EXCEPT !.project = P]
           d1 == Moved(d0, "risk", new)
<1>0. P \in SUBSET ProjectId
  BY DEF Database, ProjectId
<1>1. d0 \in Database /\ d0.project = P /\ d0.row = d.row /\ d0.queue = d.queue
  <2> HIDE DEF P
  <2> QED
    BY <1>0, AddedFacts
<1>2. HalfMoved(d, new) \in {d0, d1}
  BY DEF HalfMoved, Database
<1> HIDE DEF d0
<1>3. /\ d1 \in Database /\ d1.project = P
      /\ \A r \in Row : Follows(d.row[r], d1.row[r], new)
  BY <1>1, MovedFacts
<1> HIDE DEF d1
<1>4. \A r \in Row : Follows(d.row[r], d0.row[r], new)
  BY <1>1 DEF Follows, Database
<1> QED
  BY <1>1, <1>2, <1>3, <1>4

LEMMA AppliedFacts ==
  ASSUME NEW d \in Database, NEW r \in Row, NEW x \in Stored, x.proj # None
  PROVE  /\ Applied(d, r, x) \in Stored
         /\ Applied(d, r, x).proj \in {d.row[r].proj, x.proj}
         /\ d.row[r].proj # None => Applied(d, r, x).proj # None
<1>1. d.row[r] \in Stored
  BY DEF Database
<1> QED
  BY <1>1 DEF Applied, Stored

(* What a pull makes of the rows in T. *)
LEMMA PulledFacts ==
  ASSUME NEW d \in Database, NEW new \in [Row -> Stored], NEW T \in SUBSET Row,
         \A r \in T : new[r].proj # None
  PROVE  LET D == [d EXCEPT !.row = [r \in Row |-> IF r \in T THEN Applied(d, r, new[r])
                                                   ELSE d.row[r]]]
         IN  /\ D \in Database /\ D.project = d.project /\ D.queue = d.queue
             /\ \A r \in Row : /\ D.row[r].proj = d.row[r].proj
                                  \/ (r \in T /\ D.row[r].proj = new[r].proj)
                               /\ d.row[r].proj # None => D.row[r].proj # None
<1> DEFINE m == [r \in Row |-> IF r \in T THEN Applied(d, r, new[r]) ELSE d.row[r]]
           D == [d EXCEPT !.row = m]
<1>1. d.row \in [Row -> Stored]
  BY DEF Database
<1>2. ASSUME NEW r \in Row
      PROVE  /\ m[r] \in Stored
             /\ m[r].proj = d.row[r].proj \/ (r \in T /\ m[r].proj = new[r].proj)
             /\ d.row[r].proj # None => m[r].proj # None
  <2>1. CASE r \in T
    <3>1. m[r] = Applied(d, r, new[r]) /\ new[r] \in Stored /\ new[r].proj # None
      BY <2>1
    <3> QED
      BY <2>1, <3>1, AppliedFacts
  <2>2. CASE r \notin T
    BY <1>1, <2>2
  <2> QED
    BY <2>1, <2>2
<1>3. m \in [Row -> Stored]
  BY <1>2
<1> HIDE DEF m
<1>4. /\ D \in Database /\ D.project = d.project /\ D.queue = d.queue
      /\ D.row = m
  BY <1>3 DEF Database
<1> QED
  BY <1>2, <1>4 DEF m

-----------------------------------------------------------------------------
(* The invariant of the window. *)

(* What follows the saving of the editor can be done. *)
NextOK(n, w, d) ==
  /\ n.do = "select" => n.arg \in ProjectId
  /\ n.do = "click" => n.arg \in Row /\ d.row[n.arg].proj # None
  /\ n.do = "reload" => w.eff \in Remote

(* The editor holds a row that exists, a sync works on a project of the    *)
(* server, and what is about to be queued has been written.                *)
WinOK(w, d) ==
  /\ w \in Window
  /\ IF w.pc = "off" THEN w.cur = None ELSE w.sel \in ProjectId
  /\ w.pc \in {"queue", "delete", "drop"} => w.cur # None
  /\ w.cur # None => d.row[w.cur].proj # None
  /\ w.pc \in {"migrate", "push", "pull", "moved", "reload"} => w.eff \in Remote
  /\ IF w.pc = "queue" THEN d.row[w.cur].val = w.val /\ NextOK(w.next, w, d)
     ELSE w.next = Stay
  /\ w.pc = "reload" => ~w.dirty

TInv ==
  /\ TypeOK
  /\ WinOK(win, db)
  /\ \A r \in Row : srow[r].proj \in Remote \cup {None}

(* Unless a code has clashed, everything is committed, queued changes are  *)
(* under the project of their row, and device and server agree on it.      *)
Matches(d) ==
  /\ \A e \in d.queue : e.proj = d.row[e.row].proj
  /\ \A r \in Row : srow[r].proj # None /\ d.row[r].proj # None =>
       d.row[r].proj = srow[r].proj

EntryInv == ~clashed => db = disk /\ Matches(db)

(* The step of TypedIsKept. *)
KeepsTyped ==
  win.dirty /\ win'.cur # win.cur /\ win.cur # None /\ win'.pc # "off" =>
    \/ Refused(win)
    \/ /\ db'.row[win.cur].val = win.val
       /\ \E e \in db'.queue :
            e.row = win.cur /\ e.val = win.val /\ e.st = "pending"

Good == TInv' /\ (EntryInv => EntryInv') /\ KeepsTyped

(* No row goes. *)
KeepsRows(d, new) ==
  \A r \in Row : d.row[r].proj # None => new.row[r].proj # None

(* No row or queued change goes to another project. *)
Tame(d, new) ==
  /\ \A r \in Row : new.row[r].proj = d.row[r].proj
  /\ \A e \in new.queue :
       \/ \E o \in d.queue : o.row = e.row /\ o.proj = e.proj
       \/ e.proj = d.row[e.row].proj

LEMMA TameMatches ==
  ASSUME NEW d \in Database, NEW new \in Database, Tame(d, new), Matches(d),
         srow' = srow
  PROVE  Matches(new)'
<1>1. \A e \in new.queue : e.row \in Row
  BY DEF Database, Entry
<1>2. \A e \in new.queue : e.proj = new.row[e.row].proj
  BY <1>1 DEF Tame, Matches
<1> QED
  BY <1>2 DEF Tame, Matches

LEMMA WindowFields ==
  ASSUME NEW w \in Window
  PROVE  /\ w.next \in Follow /\ w.online \in BOOLEAN /\ w.list \in SUBSET ProjectId
         /\ w.sel \in ProjectId \cup {None} /\ w.cur \in Row \cup {None}
         /\ w.dirty \in BOOLEAN /\ w.val \in Nat /\ w.num \in Nat
         /\ w.eff \in ProjectId \cup {None} /\ w.fk \in BOOLEAN
         /\ w.code \in Code \cup {None} /\ w.bad \in BOOLEAN
  BY DEF Window

LEMMA RemoteIds == Remote = ProjectId \ {Local} /\ None \notin ProjectId \cup Row
  BY LocalStoreAssumption DEF ProjectId

(* Where the window is when the editor has been left. *)
LEMMA AfterFacts ==
  ASSUME NEW w \in Window, w.sel \in ProjectId, NEW n \in Follow,
         NEW d, w.cur # None => d.row[w.cur].proj # None,
         NextOK(n, w, d), n.do = "delete" => w.cur # None
  PROVE  /\ WinOK(After(w, n), d)
         /\ After(w, n).pc \notin {"off", "queue"} /\ ~After(w, n).dirty
         /\ n.do \in {"stay", "sync", "delete", "reload"} => After(w, n).cur = w.cur
         /\ n.do = "sync" => After(w, n).pc \in {"push", "promote", "idle"}
         /\ n.do = "delete" => After(w, n).pc = "delete"
         /\ n.do = "stay" => After(w, n).pc = "idle"
<1> DEFINE v == [w EXCEPT !.dirty = FALSE, !.val = 0, !.code = None, !.bad = FALSE,
                          !.num = 0, !.next = Stay, !.pc = "idle"]
<1>1. v \in Window /\ v.sel = w.sel /\ v.cur = w.cur /\ v.eff = w.eff
      /\ v.pc = "idle" /\ ~v.dirty /\ v.next = Stay
  BY DEF Window, Stay, Follow
<1>2. n.do \in {"stay", "select", "click", "new", "sync", "delete", "reload"}
  BY DEF Follow
<1>3. After(w, n) = CASE n.do = "stay"   -> v
                      [] n.do = "select" -> [v EXCEPT !.sel = n.arg, !.cur = None]
                      [] n.do = "click"  -> [v EXCEPT !.cur = n.arg]
                      [] n.do = "new"    -> [v EXCEPT !.cur = None]
                      [] n.do = "delete" -> [v EXCEPT !.pc = "delete", !.num = w.num]
                      [] n.do = "reload" -> [v EXCEPT !.pc = "reload"]
                      [] n.do = "sync"   -> Begin(v)
  BY DEF After
<1> HIDE DEF v
<1>4. CASE n.do = "stay"
  BY <1>1, <1>3, <1>4 DEF WinOK
<1>5. CASE n.do = "select"
  <2>1. After(w, n) = [v EXCEPT !.sel = n.arg, !.cur = None]
    BY <1>3, <1>5
  <2> QED
    BY <1>1, <1>5, <2>1 DEF WinOK, Window, NextOK
<1>6. CASE n.do = "click"
  <2>1. After(w, n) = [v EXCEPT !.cur = n.arg]
    BY <1>3, <1>6
  <2>2. n.arg \in Row /\ d.row[n.arg].proj # None
    BY <1>6 DEF NextOK
  <2>3. /\ After(w, n) \in Window /\ After(w, n).cur = n.arg /\ After(w, n).pc = "idle"
        /\ After(w, n).sel = w.sel /\ ~After(w, n).dirty /\ After(w, n).next = Stay
    BY <1>1, <2>1, <2>2 DEF Window
  <2> QED
    BY <1>6, <2>2, <2>3 DEF WinOK
<1>7. CASE n.do = "new"
  <2>1. After(w, n) = [v EXCEPT !.cur = None]
    BY <1>3, <1>7
  <2> QED
    BY <1>1, <1>7, <2>1 DEF WinOK, Window
<1>8. CASE n.do = "delete"
  <2>1. After(w, n) = [v EXCEPT !.pc = "delete", !.num = w.num]
    BY <1>3, <1>8
  <2> QED
    <3>1. /\ After(w, n) \in Window /\ After(w, n).cur = w.cur
          /\ After(w, n).pc = "delete" /\ After(w, n).sel = w.sel /\ ~After(w, n).dirty
          /\ After(w, n).next = Stay
      BY <1>1, <2>1 DEF Window
    <3> QED
      BY <1>8, <3>1 DEF WinOK
<1>9. CASE n.do = "reload"
  <2>1. After(w, n) = [v EXCEPT !.pc = "reload"]
    BY <1>3, <1>9
  <2> QED
    BY <1>1, <1>9, <2>1 DEF WinOK, Window, NextOK
<1>10. CASE n.do = "sync"
  <2> DEFINE pc == IF v.sel # Local THEN "push"
                   ELSE IF Local \in db.project THEN "promote" ELSE "idle"
             eff == IF v.sel = Local THEN None ELSE v.sel
  <2>1. After(w, n) = [v EXCEPT !.eff = eff, !.pc = pc]
    BY <1>3, <1>10 DEF Begin
  <2>2. /\ pc \in {"push", "promote", "idle"} /\ eff \in ProjectId \cup {None}
        /\ pc = "push" => eff \in Remote
    BY <1>1, RemoteIds
  <2> HIDE DEF pc, eff
  <2>3. /\ After(w, n) \in Window /\ After(w, n).cur = w.cur /\ After(w, n).pc = pc
        /\ After(w, n).sel = w.sel /\ ~After(w, n).dirty /\ After(w, n).eff = eff
        /\ After(w, n).next = Stay
    BY <1>1, <2>1, <2>2 DEF Window
  <2> QED
    BY <1>10, <2>2, <2>3 DEF WinOK
<1> QED
  BY <1>2, <1>4, <1>5, <1>6, <1>7, <1>8, <1>9, <1>10

LEMMA UnsavedFacts ==
  ASSUME NEW w \in Window, w.sel \in ProjectId, NEW n \in Follow,
         NEW d, w.cur # None => d.row[w.cur].proj # None,
         n.do \in {"stay", "sync", "delete"}, n.do = "delete" => w.cur # None
  PROVE  /\ WinOK(Unsaved(w, n), d) /\ Unsaved(w, n).cur = w.cur
         /\ Unsaved(w, n).pc \in {"push", "promote", "idle", "delete"}
<1> DEFINE v == After(w, n)
           u == [v EXCEPT !.dirty = w.dirty, !.val = w.val, !.code = w.code,
                          !.bad = w.bad]
<1>1. NextOK(n, w, d)
  BY DEF NextOK
<1>2. /\ WinOK(v, d) /\ v.cur = w.cur
      /\ v.pc \in {"push", "promote", "idle", "delete"}
  BY <1>1, AfterFacts
<1>3. Unsaved(w, n) = u
  BY DEF Unsaved
<1> HIDE DEF v
<1>4. /\ w.dirty \in BOOLEAN /\ w.val \in Nat /\ w.code \in Code \cup {None}
      /\ w.bad \in BOOLEAN /\ v \in Window
  BY <1>2, WindowFields DEF WinOK
<1>5. /\ u \in Window /\ u.pc = v.pc /\ u.cur = v.cur /\ u.sel = v.sel /\ u.eff = v.eff
      /\ u.next = v.next
  BY <1>4 DEF Window
<1> HIDE DEF u
<1>6. WinOK(u, d)
  BY <1>2, <1>5 DEF WinOK
<1> QED
  BY <1>2, <1>3, <1>5, <1>6

(* The editor is left, or saved first. *)
LEMMA GoFacts ==
  ASSUME db \in Database, disk \in Database, NEW w \in Window,
         w.sel \in ProjectId, w.cur # None => db.row[w.cur].proj # None,
         NEW do, NEW arg, [do |-> do, arg |-> arg] \in Follow,
         NextOK([do |-> do, arg |-> arg], w, db), do = "delete" => w.cur # None,
         open \in BOOLEAN, Go(w, do, arg)
  PROVE  /\ db' \in Database /\ disk' \in Database /\ open' \in BOOLEAN
         /\ WinOK(win', db')
         /\ Tame(db, db') /\ (db = disk => db' = disk')
         /\ win'.pc # "off"
         /\ w.dirty /\ w.cur # None => win'.cur = w.cur \/ Refused(w)
<1> DEFINE n == [do |-> do, arg |-> arg]
           x == Typed(w)
           v == [w EXCEPT !.pc = "queue", !.next = n]
<1>0. /\ n.do = do /\ n.arg = arg /\ n \in Follow /\ NextOK(n, w, db)
      /\ n.do = "delete" => w.cur # None
  OBVIOUS
<1>1. CASE w.dirty /\ w.cur # None /\ ~Refused(w)
  <2>1. db' = Write(db, w.cur, x) /\ disk' = db' /\ open' = FALSE /\ win' = v
    BY <1>1 DEF Go, Commit
  <2>2. w.cur \in Row /\ db.row[w.cur] \in Stored /\ w.val \in Nat
        /\ w.code \in Code \cup {None}
    BY <1>1, WindowFields DEF Database
  <2>3. x \in Stored /\ x.proj = db.row[w.cur].proj /\ x.val = w.val
    <3> DEFINE c == IF w.code = None THEN db.row[w.cur].code ELSE w.code
    <3>1. c \in Code
      BY <2>2 DEF Stored
    <3>2. x = [db.row[w.cur] EXCEPT !.val = w.val, !.del = FALSE, !.code = c]
      BY DEF Typed
    <3> HIDE DEF c, x
    <3> QED
      BY <2>2, <3>1, <3>2 DEF Stored
  <2> HIDE DEF x
  <2>4. /\ db' \in Database /\ db'.queue = db.queue /\ db'.row[w.cur] = x
        /\ \A q \in Row \ {w.cur} : db'.row[q] = db.row[q]
    BY <2>1, <2>2, <2>3, WriteFacts
  <2>5. \A q \in Row : db'.row[q].proj = db.row[q].proj
    BY <2>3, <2>4
  <2>6. NextOK(n, w, db')
    BY <2>5 DEF NextOK
  <2>7. /\ v \in Window /\ v.pc = "queue" /\ v.next = n /\ v.cur = w.cur
        /\ v.sel = w.sel /\ v.val = w.val /\ v.eff = w.eff
    <3> HIDE DEF n
    <3> QED
      BY <1>0 DEF Window
  <2>8. WinOK(win', db')
    <3>1. NextOK(n, v, db')
      BY <2>6, <2>7 DEF NextOK
    <3> HIDE DEF n, v
    <3> QED
      BY <1>1, <2>1, <2>2, <2>3, <2>4, <2>7, <3>1 DEF WinOK
  <2>9. Tame(db, db')
    BY <2>4, <2>5 DEF Tame
  <2> QED
    BY <1>1, <2>1, <2>4, <2>7, <2>8, <2>9
<1>2. CASE ~(w.dirty /\ w.cur # None)
  <2>1. win' = After(w, n) /\ db' = db /\ disk' = disk /\ open' = open
    BY <1>2 DEF Go, store
  <2>2. WinOK(win', db') /\ win'.pc # "off"
    <3> HIDE DEF n
    <3> QED
      BY <1>0, <2>1, AfterFacts
  <2>3. Tame(db, db')
    BY <2>1 DEF Tame
  <2> QED
    BY <1>2, <2>1, <2>2, <2>3
<1>3. CASE w.dirty /\ w.cur # None /\ Refused(w)
  <2>1. /\ win' = (IF do \in {"stay", "sync", "delete"} THEN Unsaved(w, n)
                   ELSE After(w, n))
        /\ db' = db /\ disk' = disk /\ open' \in BOOLEAN
    BY <1>3 DEF Go, Leave, store
  <2>2. WinOK(win', db') /\ win'.pc # "off"
    <3> HIDE DEF n
    <3> QED
      BY <1>0, <2>1, AfterFacts, UnsavedFacts
  <2>3. Tame(db, db')
    BY <2>1 DEF Tame
  <2> QED
    BY <1>3, <2>1, <2>2, <2>3
<1> QED
  BY <1>1, <1>2, <1>3

(* Steps of the editor, which leave the server alone. *)
LEMMA EditorStep ==
  ASSUME TInv, UNCHANGED <<server, clashed>>, ops' \in Nat, faults' \in Nat,
         db' \in Database, disk' \in Database, open' \in BOOLEAN,
         torn' \in SUBSET Row, WinOK(win', db'), Tame(db, db'),
         db = disk => db' = disk', KeepsTyped
  PROVE  Good
<1>1. TInv'
  BY DEF TInv, TypeOK, server, WinOK
<1>2. EntryInv => EntryInv'
  <2> SUFFICES ASSUME EntryInv, ~clashed PROVE db' = disk' /\ Matches(db)'
    BY DEF EntryInv, server
  <2>1. Matches(db) /\ db \in Database
    BY DEF EntryInv, TInv, TypeOK
  <2>2. PICK new \in Database : new = db'
    OBVIOUS
  <2>3. Matches(new)'
    BY <2>1, <2>2, TameMatches DEF server
  <2>4. Matches(db)'
    BY <2>2, <2>3 DEF Matches
  <2> QED
    BY <2>4 DEF EntryInv
<1> QED
  BY <1>1, <1>2 DEF Good

LEMMA Bounds ==
  ASSUME TypeOK, Count \/ Idle \/ Fault
  PROVE  ops' \in Nat /\ faults' \in Nat
  BY DEF TypeOK, Count, Idle, Fault

LEMMA TInvFacts ==
  ASSUME TInv
  PROVE  /\ db \in Database /\ disk \in Database /\ win \in Window
         /\ ops \in Nat /\ WinOK(win, db) /\ TypeOK
         /\ win.pc # "off" => win.sel \in ProjectId
         /\ win.cur # None => win.cur \in Row /\ db.row[win.cur].proj # None
         /\ win.cur # None => db.row[win.cur] \in Stored
         /\ open \in BOOLEAN /\ torn \in SUBSET Row
         /\ UNCHANGED marks => UNCHANGED clashed /\ torn' \in SUBSET Row
         /\ db.row \in [Row -> Stored] /\ srow \in [Row -> Stored]
<1>1. UNCHANGED marks => clashed' = clashed /\ torn' = torn
  BY DEF marks
<1> QED
  BY <1>1 DEF TInv, TypeOK, WinOK, Window, Database

LEMMA TypeInWorks == ASSUME TInv, TypeIn PROVE Good
<1>1. PICK c \in Code \cup {None}, b \in BOOLEAN :
        win' = [win EXCEPT !.dirty = TRUE, !.val = ops + 1, !.code = c, !.bad = b]
  BY DesktopAssumption DEF TypeIn
<1> DEFINE w == [win EXCEPT !.dirty = TRUE, !.val = ops + 1, !.code = c, !.bad = b]
<1>2. win \in Window /\ win.pc = "idle" /\ win.sel \in ProjectId /\ ops + 1 \in Nat
      /\ win.next = Stay
  BY TInvFacts DEF TypeIn, WinOK
<1>3. w \in Window /\ w.pc = "idle" /\ w.sel \in ProjectId /\ w.cur = win.cur
      /\ w.next = Stay
  BY <1>2 DEF Window
<1>4. /\ win' = w /\ db' = db /\ disk' = disk /\ open' = open
      /\ UNCHANGED <<server, clashed>> /\ torn' = torn
  BY <1>1 DEF TypeIn, store, marks
<1>5. WinOK(win', db')
  <2> HIDE DEF w
  <2> QED
    BY <1>3, <1>4, TInvFacts DEF WinOK
<1>6. Tame(db, db') /\ KeepsTyped
  BY <1>3, <1>4 DEF Tame, KeepsTyped
<1>7. ops' \in Nat /\ faults' \in Nat
  BY Bounds, TInvFacts DEF TypeIn
<1> QED
  BY <1>4, <1>5, <1>6, <1>7, TInvFacts, EditorStep

LEMMA EnqueueWorks == ASSUME TInv, Enqueue PROVE Good
<1>0. /\ win.pc = "queue" /\ win.cur # None /\ win.cur \in Row /\ win.val \in Nat
      /\ win.next \in Follow /\ NextOK(win.next, win, db)
      /\ db.row[win.cur].val = win.val /\ win.sel \in ProjectId
      /\ db.row[win.cur].proj # None
  BY TInvFacts, WindowFields DEF Enqueue, WinOK
<1>1. /\ db' = Queued(db, win.cur, win.val) /\ disk' = db' /\ open' = FALSE
      /\ win' = After(win, win.next) /\ UNCHANGED <<server, clashed>>
      /\ torn' \in SUBSET Row
  BY TInvFacts DEF Enqueue, Commit
<1>2. /\ db' \in Database /\ db'.row = db.row
      /\ \A e \in db'.queue : e \in db.queue \/ (e.row = win.cur /\ e.proj = db.row[win.cur].proj)
      /\ \E e \in db'.queue :
           e.row = win.cur /\ e.val = db.row[win.cur].val /\ e.st = "pending"
  BY <1>0, <1>1, TInvFacts, QueuedFacts
<1>3. NextOK(win.next, win, db') /\ db'.row[win.cur].proj # None
  BY <1>0, <1>2 DEF NextOK
<1>4. WinOK(win', db')
  BY <1>0, <1>1, <1>3, TInvFacts, AfterFacts
<1>5. Tame(db, db')
  BY <1>0, <1>2 DEF Tame
<1>6. KeepsTyped
  BY <1>0, <1>2 DEF KeepsTyped
<1>7. ops' \in Nat /\ faults' \in Nat
  BY Bounds, TInvFacts DEF Enqueue
<1> QED
  BY <1>1, <1>2, <1>4, <1>5, <1>6, <1>7, TInvFacts, EditorStep

(* An action that leaves the editor of the window as it is. *)
LEMMA GoWorks ==
  ASSUME TInv, NEW w \in Window, w.sel \in ProjectId, w.cur = win.cur,
         w.dirty = win.dirty, w.val = win.val, w.code = win.code, w.bad = win.bad,
         NEW do, NEW arg, [do |-> do, arg |-> arg] \in Follow,
         NextOK([do |-> do, arg |-> arg], w, db), do = "delete" => w.cur # None,
         Go(w, do, arg), UNCHANGED <<server, marks>>, Idle \/ Count
  PROVE  Good
<1>1. /\ db' \in Database /\ disk' \in Database /\ open' \in BOOLEAN
      /\ WinOK(win', db') /\ Tame(db, db') /\ (db = disk => db' = disk')
      /\ w.dirty /\ w.cur # None => win'.cur = w.cur \/ Refused(w)
  BY TInvFacts, GoFacts
<1>2. Refused(w) => Refused(win)
  BY DEF Refused, Typed
<1>3. KeepsTyped
  BY <1>1, <1>2 DEF KeepsTyped
<1>4. ops' \in Nat /\ faults' \in Nat
  BY Bounds, TInvFacts
<1>5. UNCHANGED <<server, clashed>> /\ torn' \in SUBSET Row
  BY TInvFacts
<1> QED
  BY <1>1, <1>3, <1>4, <1>5, EditorStep

LEMMA FollowTypes ==
  /\ \A do \in {"stay", "new", "sync", "delete", "reload"} :
       [do |-> do, arg |-> None] \in Follow
  /\ \A p \in ProjectId : [do |-> "select", arg |-> p] \in Follow
  /\ \A r \in Row : [do |-> "click", arg |-> r] \in Follow
  BY DEF Follow

LEMMA SelectWorks == ASSUME TInv, NEW p \in ProjectId, Select(p) PROVE Good
<1>1. /\ win.pc = "idle" /\ win.sel \in ProjectId /\ Idle
      /\ UNCHANGED <<server, marks>> /\ Go(win, "select", p)
  BY TInvFacts DEF Select, SelectProject
<1>2. NextOK([do |-> "select", arg |-> p], win, db)
  BY DEF NextOK
<1> QED
  BY <1>1, <1>2, FollowTypes, TInvFacts, GoWorks

LEMMA PressWorks == ASSUME TInv, Press PROVE Good
<1>0. win.pc = "idle" /\ win.sel \in ProjectId /\ Idle /\ UNCHANGED <<server, marks>>
  BY TInvFacts DEF Press
<1>1. ASSUME NEW r \in Shown, Click(r) PROVE Good
  <2>1. r \in Row /\ db.row[r].proj # None
    BY <1>0, RemoteIds DEF Shown
  <2>2. CASE r = win.cur
    <3>1. win' = After(win, Stay) /\ db' = db /\ disk' = disk /\ open' = open
      BY <1>1, <2>2 DEF Click, store
    <3>2. Stay \in Follow /\ Stay.do = "stay" /\ NextOK(Stay, win, db)
      BY DEF Stay, Follow, NextOK
    <3>3. WinOK(After(win, Stay), db) /\ After(win, Stay).cur = win.cur
      BY <1>0, <3>2, TInvFacts, AfterFacts
    <3>4. WinOK(win', db') /\ KeepsTyped /\ Tame(db, db')
      BY <3>1, <3>3 DEF KeepsTyped, Tame
    <3>5. ops' \in Nat /\ faults' \in Nat
      BY <1>0, Bounds, TInvFacts
    <3>6. UNCHANGED <<server, clashed>> /\ torn' \in SUBSET Row
      BY <1>0, TInvFacts
    <3> QED
      BY <3>1, <3>4, <3>5, <3>6, TInvFacts, EditorStep
  <2>3. CASE r # win.cur
    <3>1. Go(win, "click", r)
      BY <1>1, <2>3 DEF Click
    <3>2. NextOK([do |-> "click", arg |-> r], win, db)
      BY <2>1 DEF NextOK
    <3> QED
      BY <1>0, <2>1, <3>1, <3>2, FollowTypes, TInvFacts, GoWorks
  <2> QED
    BY <2>2, <2>3
<1>2. ASSUME NEW do \in {"new", "stay"}, Go(win, do, None) PROVE Good
  <2>1. NextOK([do |-> do, arg |-> None], win, db)
    BY <1>2 DEF NextOK
  <2> QED
    BY <1>0, <1>2, <2>1, FollowTypes, TInvFacts, GoWorks
<1> QED
  BY <1>1, <1>2 DEF Press

(* Keys, which leave what was typed in the editor. *)
LEMMA KeyWorks ==
  ASSUME TInv, NEW w \in Window, w.sel \in ProjectId, w.cur = win.cur,
         NEW do \in {"delete", "sync"}, do = "delete" => w.cur # None,
         Key(w, do), UNCHANGED <<server, marks>>, Idle \/ Count
  PROVE  Good
<1> DEFINE n == [do |-> do, arg |-> None]
<1>1. n \in Follow /\ n.do = do
  BY FollowTypes
<1>2. win' = Unsaved(w, n) /\ db' = db /\ disk' = disk /\ open' = open
  BY DEF Key, store
<1>3. WinOK(Unsaved(w, n), db) /\ Unsaved(w, n).cur = w.cur
  <2> HIDE DEF n
  <2> QED
    BY <1>1, TInvFacts, UnsavedFacts
<1>4. WinOK(win', db') /\ Tame(db, db') /\ KeepsTyped
  BY <1>2, <1>3 DEF Tame, KeepsTyped
<1>5. ops' \in Nat /\ faults' \in Nat
  BY Bounds, TInvFacts
<1>6. UNCHANGED <<server, clashed>> /\ torn' \in SUBSET Row
  BY TInvFacts
<1> QED
  BY <1>2, <1>4, <1>5, <1>6, TInvFacts, EditorStep

LEMMA PressSyncWorks == ASSUME TInv, PressSync PROVE Good
<1>1. win.sel \in ProjectId /\ Idle /\ UNCHANGED <<server, marks>>
  BY TInvFacts DEF PressSync
<1>2. NextOK([do |-> "sync", arg |-> None], win, db)
  BY DEF NextOK
<1>3. Go(win, "sync", None) \/ Key(win, "sync")
  BY DEF PressSync, Mouse
<1> QED
  BY <1>1, <1>2, <1>3, FollowTypes, TInvFacts, GoWorks, KeyWorks

LEMMA PressDeleteWorks == ASSUME TInv, PressDelete PROVE Good
<1> DEFINE w == [win EXCEPT !.num = ops + 1]
<1>0. /\ win \in Window /\ win.sel \in ProjectId /\ win.cur # None /\ ops + 1 \in Nat
      /\ Count /\ UNCHANGED <<server, marks>>
  BY TInvFacts DEF PressDelete
<1>1. /\ w \in Window /\ w.sel \in ProjectId /\ w.cur = win.cur
      /\ w.dirty = win.dirty /\ w.val = win.val /\ w.code = win.code
      /\ w.bad = win.bad
  BY <1>0 DEF Window
<1>2. Go(w, "delete", None) \/ Key(w, "delete")
  BY DEF PressDelete, Mouse
<1> HIDE DEF w
<1>3. NextOK([do |-> "delete", arg |-> None], w, db)
  BY DEF NextOK
<1> QED
  BY <1>0, <1>1, <1>2, <1>3, FollowTypes, TInvFacts, GoWorks, KeyWorks

LEMMA SoftDeleteWorks == ASSUME TInv, SoftDelete PROVE Good
<1> DEFINE x == [db.row[win.cur] EXCEPT !.del = TRUE]
           w == [win EXCEPT !.pc = "drop"]
<1>1. /\ win.cur # None /\ win.cur \in Row /\ db.row[win.cur] \in Stored
      /\ db.row[win.cur].proj # None /\ win.sel \in ProjectId /\ win.next = Stay
  BY TInvFacts DEF SoftDelete, WinOK
<1>2. /\ db' = Write(db, win.cur, x) /\ disk' = db' /\ open' = FALSE /\ win' = w
      /\ UNCHANGED <<server, clashed>> /\ torn' \in SUBSET Row
  BY TInvFacts DEF SoftDelete, Commit
<1>3. x \in Stored /\ x.proj = db.row[win.cur].proj
  BY <1>1 DEF Stored
<1>4. w \in Window /\ w.pc = "drop" /\ w.cur = win.cur /\ w.sel = win.sel
      /\ w.next = win.next
  BY TInvFacts DEF Window
<1> HIDE DEF x, w
<1>5. /\ db' \in Database /\ db'.queue = db.queue /\ db'.row[win.cur] = x
      /\ \A q \in Row \ {win.cur} : db'.row[q] = db.row[q]
  BY <1>1, <1>2, <1>3, TInvFacts, WriteFacts
<1>6. Tame(db, db')
  BY <1>3, <1>5 DEF Tame
<1>7. WinOK(win', db') /\ KeepsTyped
  BY <1>1, <1>2, <1>3, <1>4, <1>5 DEF WinOK, KeepsTyped
<1>8. ops' \in Nat /\ faults' \in Nat
  BY Bounds, TInvFacts DEF SoftDelete
<1> QED
  BY <1>2, <1>5, <1>6, <1>7, <1>8, EditorStep

LEMMA QueueDeleteWorks == ASSUME TInv, QueueDelete PROVE Good
<1> DEFINE w == [win EXCEPT !.pc = "renew", !.num = 0]
<1>1. /\ win.cur # None /\ win.cur \in Row /\ db.row[win.cur].proj # None
      /\ win.sel \in ProjectId /\ win.num \in Nat /\ win.next = Stay
  BY TInvFacts, WindowFields DEF QueueDelete, WinOK
<1>2. /\ db' \in {Discarded(db, win.cur), Queued(db, win.cur, win.num)}
      /\ disk' = db' /\ open' = FALSE /\ win' = w
      /\ UNCHANGED <<server, clashed>> /\ torn' \in SUBSET Row
  BY TInvFacts DEF QueueDelete, Commit
<1>3. /\ db' \in Database /\ db'.row = db.row
      /\ \A e \in db'.queue : e \in db.queue \/ (e.row = win.cur /\ e.proj = db.row[win.cur].proj)
  BY <1>1, <1>2, TInvFacts, QueuedFacts, DiscardedFacts
<1>4. Tame(db, db')
  BY <1>3 DEF Tame
<1>5. w \in Window /\ w.pc = "renew" /\ w.cur = win.cur /\ w.sel = win.sel
      /\ w.next = win.next
  BY TInvFacts DEF Window
<1> HIDE DEF w
<1>6. WinOK(win', db') /\ KeepsTyped
  BY <1>1, <1>2, <1>3, <1>5 DEF WinOK, KeepsTyped
<1>7. ops' \in Nat /\ faults' \in Nat
  BY Bounds, TInvFacts DEF QueueDelete
<1> QED
  BY <1>2, <1>3, <1>4, <1>6, <1>7, EditorStep

LEMMA StartNewWorks == ASSUME TInv, StartNew PROVE Good
<1>1. win.sel \in ProjectId /\ Idle /\ UNCHANGED <<server, marks>> /\ Go(win, "new", None)
  BY TInvFacts DEF StartNew
<1>2. NextOK([do |-> "new", arg |-> None], win, db)
  BY DEF NextOK
<1> QED
  BY <1>1, <1>2, FollowTypes, TInvFacts, GoWorks

LEMMA LeaveLocalWorks == ASSUME TInv, LeaveLocal PROVE Good
<1>1. /\ win.sel \in ProjectId /\ Idle /\ UNCHANGED <<server, marks>>
      /\ Go(win, "reload", None) /\ win.eff \in Remote
  BY TInvFacts DEF LeaveLocal, WinOK
<1>2. NextOK([do |-> "reload", arg |-> None], win, db)
  BY <1>1 DEF NextOK
<1> QED
  BY <1>1, <1>2, FollowTypes, TInvFacts, GoWorks

LEMMA ReloadWorks == ASSUME TInv, Reload PROVE Good
<1>1. PICK P \in {db.project \cup There(site), db.project} :
        /\ Idle \/ Fault
        /\ Commit([db EXCEPT !.project = P])
        /\ win' = [win EXCEPT !.pc = "idle", !.list = P, !.sel = win.eff,
                              !.cur = None, !.eff = None]
  BY DEF Reload
<1>2. P \in SUBSET ProjectId
  BY TInvFacts DEF Database, There, ProjectId
<1>3. /\ db' \in Database /\ db'.row = db.row /\ db'.queue = db.queue /\ disk' = db'
      /\ open' = FALSE
  BY <1>1, <1>2, TInvFacts, AddedFacts DEF Commit
<1>4. win.eff \in Remote /\ ~win.dirty /\ win.eff \in ProjectId /\ win.next = Stay
  BY TInvFacts, RemoteIds DEF WinOK, Reload
<1>5. /\ win' \in Window /\ win'.pc = "idle" /\ win'.cur = None
      /\ win'.sel \in ProjectId /\ win'.next = Stay
  BY <1>1, <1>2, <1>4, TInvFacts DEF Window
<1>6. WinOK(win', db') /\ KeepsTyped /\ Tame(db, db')
  BY <1>3, <1>4, <1>5 DEF WinOK, KeepsTyped, Tame
<1>7. /\ ops' \in Nat /\ faults' \in Nat /\ UNCHANGED <<server, clashed>>
      /\ torn' \in SUBSET Row
  BY <1>1, Bounds, TInvFacts DEF Reload
<1> QED
  BY <1>3, <1>6, <1>7, EditorStep

LEMMA CreateWorks ==
  ASSUME TInv, NEW r \in Row, Create(r)
  PROVE  Good
<1>0. /\ win.pc = "idle" /\ win.cur = None /\ win.sel \in ProjectId /\ Count
      /\ UNCHANGED <<server, clashed>> /\ torn' \in SUBSET Row
      /\ win \in Window /\ ops + 1 \in Nat
      /\ db.row[r].proj = None /\ srow[r].proj = None /\ win.next = Stay
  BY TInvFacts DEF Create, Fresh, Free, WinOK
<1>1. PICK c \in {NextCode(db, win.sel, Type[r])} \cup Chosen :
        LET x == [NoRow(r) EXCEPT !.proj = win.sel, !.code = c, !.val = ops + 1]
        IN \/ Leave(db) /\ UNCHANGED win
           \/ /\ Commit(Write(db, r, x))
              /\ win' = [win EXCEPT !.pc = "queue", !.cur = r, !.val = ops + 1]
  BY DEF Create
<1> DEFINE x == [NoRow(r) EXCEPT !.proj = win.sel, !.code = c, !.val = ops + 1]
           w == [win EXCEPT !.pc = "queue", !.cur = r, !.val = ops + 1]
<1>2. ops' \in Nat /\ faults' \in Nat
  BY <1>0, Bounds, TInvFacts
<1>3. KeepsTyped
  BY <1>0 DEF KeepsTyped
<1>4. CASE Leave(db) /\ UNCHANGED win
  <2>1. TInv'
    BY <1>0, <1>2, <1>4 DEF TInv, TypeOK, Leave, server, WinOK, NextOK
  <2>2. EntryInv => EntryInv'
    BY <1>0, <1>4 DEF EntryInv, Matches, Leave, server
  <2> QED
    BY <1>3, <2>1, <2>2 DEF Good
<1>5. CASE Commit(Write(db, r, x)) /\ win' = w
  <2>1. c \in Code
    BY NextCodeType, TInvFacts, LocalStoreAssumption, DesktopAssumption
  <2>2. x \in Stored /\ x.proj = win.sel /\ x.val = ops + 1
    BY <1>0, <2>1, NoRowType DEF Stored
  <2>3. /\ w \in Window /\ w.pc = "queue" /\ w.cur = r /\ w.val = ops + 1
        /\ w.sel = win.sel /\ w.next = win.next /\ w.eff = win.eff
    BY <1>0 DEF Window
  <2> HIDE DEF x, w
  <2>4. /\ db' \in Database /\ disk' = db' /\ open' = FALSE
        /\ db'.queue = db.queue /\ db'.row[r] = x
        /\ \A q \in Row \ {r} : db'.row[q] = db.row[q]
    BY <1>5, <2>2, TInvFacts, WriteFacts DEF Commit
  <2>5. WinOK(win', db')
    <3>1. NextOK(w.next, w, db')
      BY <1>0, <2>3 DEF NextOK, Stay
    <3> QED
      BY <1>0, <1>5, <2>2, <2>3, <2>4, <3>1, RemoteIds DEF WinOK
  <2>6. TInv'
    BY <1>0, <1>2, <1>5, <2>4, <2>5 DEF TInv, TypeOK, server, WinOK
  <2>7. EntryInv => EntryInv'
    <3> SUFFICES ASSUME EntryInv, ~clashed PROVE Matches(db)'
      BY <1>0, <1>5, <2>4 DEF EntryInv
    <3>1. Matches(db)
      BY DEF EntryInv
    <3>2. \A e \in db.queue : e.row \in Row /\ e.proj # None
      BY TInvFacts, RemoteIds DEF Database, Entry
    <3>3. \A e \in db.queue : e.row # r
      BY <1>0, <3>1, <3>2 DEF Matches
    <3>4. \A e \in db'.queue : e.proj = db'.row[e.row].proj
      BY <2>4, <3>1, <3>2, <3>3 DEF Matches
    <3>5. \A q \in Row : srow[q].proj # None /\ db'.row[q].proj # None =>
                           db'.row[q].proj = srow[q].proj
      BY <1>0, <2>4, <3>1 DEF Matches
    <3> QED
      BY <1>0, <3>4, <3>5 DEF Matches, server
  <2> QED
    BY <1>3, <2>6, <2>7 DEF Good
<1> QED
  BY <1>1, <1>4, <1>5

-----------------------------------------------------------------------------
(* Opening and closing. *)

LEMMA MadeType ==
  ASSUME NEW st \in [Remote -> {"none", "auto", "mine", "theirs"}],
         NEW kind \in {"auto", "mine", "theirs"}
  PROVE  Made(st, kind) \in [Remote -> {"none", "auto", "mine", "theirs"}]
  BY DEF Made

LEMMA ListedType ==
  ASSUME TInv
  PROVE  Listed \in [Remote -> {"none", "auto", "mine", "theirs"}]
  BY MadeType DEF TInv, TypeOK, Listed

(* A step that only adds projects to the database. *)
LEMMA ProjectStep ==
  ASSUME TInv, NEW P \in SUBSET ProjectId, Commit([db EXCEPT !.project = P]),
         UNCHANGED <<srow, receipts, marks>>, ops' \in Nat, faults' \in Nat,
         site' \in [Remote -> {"none", "auto", "mine", "theirs"}],
         WinOK(win', db), KeepsTyped
  PROVE  Good
<1>1. /\ db' \in Database /\ disk' = db' /\ db'.row = db.row /\ db'.queue = db.queue
      /\ open' = FALSE /\ clashed' = clashed /\ torn' \in SUBSET Row
  BY TInvFacts, AddedFacts DEF Commit
<1>2. WinOK(win', db')
  BY <1>1 DEF WinOK, NextOK
<1>3. TInv'
  BY <1>1, <1>2 DEF TInv, TypeOK, WinOK
<1>4. EntryInv => EntryInv'
  BY <1>1 DEF EntryInv, Matches
<1> QED
  BY <1>3, <1>4 DEF Good

LEMMA StartWorks == ASSUME TInv, Start PROVE Good
<1>1. ASSUME NEW on \in BOOLEAN, NEW known \in SUBSET Remote, Open(on, known),
             ops' \in Nat, faults' \in Nat,
             site' \in [Remote -> {"none", "auto", "mine", "theirs"}]
      PROVE  Good
  <2> DEFINE P == db.project \cup known
             w == [Closed EXCEPT !.pc = "idle", !.online = on, !.list = P]
  <2>1. P \in SUBSET ProjectId /\ {Local} \in SUBSET ProjectId
    BY TInvFacts DEF Database, ProjectId
  <2>2. PICK Q \in SUBSET ProjectId :
          /\ Commit([db EXCEPT !.project = Q])
          /\ \E p \in Q : win' = [[w EXCEPT !.list = Q] EXCEPT !.sel = p]
    <3>1. CASE P # {}
      <4>1. [w EXCEPT !.list = P] = w
        BY DEF Closed
      <4>2. Commit([db EXCEPT !.project = P]) /\ \E p \in P : win' = [w EXCEPT !.sel = p]
        BY <1>1, <3>1 DEF Open
      <4> HIDE DEF w, P
      <4> QED
        BY <2>1, <4>1, <4>2
    <3>2. CASE P = {}
      <4>1. /\ Commit([db EXCEPT !.project = {Local}])
            /\ win' = [w EXCEPT !.sel = Local, !.list = {Local}]
        BY <1>1, <3>2 DEF Open
      <4>2. [w EXCEPT !.sel = Local, !.list = {Local}]
              = [[w EXCEPT !.list = {Local}] EXCEPT !.sel = Local]
        BY DEF Closed
      <4> HIDE DEF w, P
      <4> QED
        BY <2>1, <4>1, <4>2
    <3> QED
      BY <3>1, <3>2
  <2>3. /\ win' \in Window /\ win'.pc = "idle" /\ win'.cur = None
        /\ win'.sel \in ProjectId /\ win'.next = Stay
    <3>1. Closed \in Window /\ Closed.cur = None /\ Closed.next = Stay
      BY DEF Closed, Window, Stay, Follow
    <3>2. w \in Window /\ w.pc = "idle" /\ w.cur = None /\ w.next = Stay
      <4> HIDE DEF P
      <4> QED
        BY <2>1, <3>1 DEF Window
    <3>3. PICK p \in Q : win' = [[w EXCEPT !.list = Q] EXCEPT !.sel = p]
      BY <2>2
    <3>4. [w EXCEPT !.list = Q] \in Window /\ [w EXCEPT !.list = Q].cur = None
          /\ [w EXCEPT !.list = Q].next = Stay /\ [w EXCEPT !.list = Q].pc = "idle"
      <4> HIDE DEF w
      <4> QED
        BY <3>2 DEF Window
    <3> HIDE DEF w
    <3> QED
      BY <3>3, <3>4 DEF Window
  <2>4. WinOK(win', db)
    BY <2>3 DEF WinOK
  <2>5. KeepsTyped
    BY DEF KeepsTyped, Start, TInv, WinOK
  <2>6. UNCHANGED <<srow, receipts, marks>>
    BY DEF Start
  <2> QED
    BY <1>1, <2>2, <2>4, <2>5, <2>6, ProjectStep
<1>2. ops' \in Nat /\ faults' \in Nat
  BY Bounds, TInvFacts DEF Start
<1>3. There(Listed) \in SUBSET Remote /\ {} \in SUBSET Remote
  BY DEF There
<1>4. site \in [Remote -> {"none", "auto", "mine", "theirs"}]
  BY DEF TInv, TypeOK
<1>5. \/ Open(FALSE, {}) /\ site' = site
      \/ Open(TRUE, There(Listed)) /\ site' = Listed
      \/ Open(TRUE, {}) /\ site' \in {site, Listed}
  BY DEF Start
<1> QED
  BY <1>1, <1>2, <1>3, <1>4, <1>5, ListedType

LEMMA ClosedOK == ASSUME NEW d PROVE WinOK(Closed, d)
  BY DEF WinOK, Closed, Window, Stay, Follow

LEMMA ExitWorks ==
  ASSUME TInv, Exit, Idle \/ Fault, torn' \in SUBSET Row
  PROVE  Good
<1>1. /\ db' = disk /\ disk' = disk /\ open' = FALSE /\ win' = Closed
      /\ UNCHANGED <<server, clashed>>
  BY DEF Exit
<1>2. ops' \in Nat /\ faults' \in Nat
  BY Bounds, TInvFacts
<1>3. TInv'
  BY <1>1, <1>2, ClosedOK DEF TInv, TypeOK, server, WinOK
<1>4. EntryInv => EntryInv'
  BY <1>1 DEF EntryInv, Matches, server
<1>5. KeepsTyped
  BY <1>1 DEF KeepsTyped, Closed
<1> QED
  BY <1>3, <1>4, <1>5 DEF Good

-----------------------------------------------------------------------------
(* Sync. *)

(* How the steps of a sync leave the window. *)
LEMMA SyncWindow ==
  ASSUME TInv, win.pc \notin {"off", "queue"},
         NEW pc \in {"idle", "migrate", "push", "pull", "moved"},
         NEW eff \in Remote \cup {None}, pc # "idle" => eff \in Remote,
         win' = [win EXCEPT !.pc = pc, !.eff = eff]
  PROVE  WinOK(win', db) /\ KeepsTyped
<1>1. win \in Window /\ WinOK(win, db)
  BY TInvFacts
<1>2. /\ win' \in Window /\ win'.cur = win.cur /\ win'.pc = pc /\ win'.eff = eff
      /\ win'.sel = win.sel /\ win'.next = win.next
  BY <1>1 DEF Window, ProjectId
<1>3. WinOK(win', db)
  BY <1>1, <1>2 DEF WinOK
<1> QED
  BY <1>2, <1>3 DEF KeepsTyped

LEMMA SyncMoves ==
  ASSUME TInv, win.pc \notin {"off", "queue"}
  PROVE  /\ Finish => WinOK(win', db) /\ KeepsTyped
         /\ \A pc \in {"migrate", "push", "pull", "moved"} :
              Proceed(pc) /\ win.eff \in Remote => WinOK(win', db) /\ KeepsTyped
<1>1. win \in Window
  BY TInvFacts
<1>2. ASSUME Finish PROVE WinOK(win', db) /\ KeepsTyped
  <2>1. win' = [win EXCEPT !.pc = "idle", !.eff = None]
    BY <1>2 DEF Finish
  <2> QED
    BY <2>1, SyncWindow
<1>3. ASSUME NEW pc \in {"migrate", "push", "pull", "moved"}, Proceed(pc),
             win.eff \in Remote
      PROVE  WinOK(win', db) /\ KeepsTyped
  <2>1. win' = [win EXCEPT !.pc = pc, !.eff = win.eff]
    BY <1>1, <1>3 DEF Proceed, Window
  <2> QED
    BY <1>3, <2>1, SyncWindow
<1> QED
  BY <1>2, <1>3

LEMMA PromoteWorks == ASSUME TInv, Promote PROVE Good
<1>1. /\ UNCHANGED <<db, disk, open, srow, receipts, clashed, torn>>
      /\ Idle \/ Fault
      /\ win.pc = "promote"
  BY DEF Promote, store, marks
<1>2. \/ Finish
      \/ \E p \in Remote : win' = [win EXCEPT !.pc = "migrate", !.eff = p]
  BY DEF Promote, Found
<1>3. site' \in [Remote -> {"none", "auto", "mine", "theirs"}]
  <2>1. site \in [Remote -> {"none", "auto", "mine", "theirs"}]
    BY DEF TInv, TypeOK
  <2>2. site' \in {site, Listed, Made(site, "mine"), Made(Listed, "mine")}
    BY DEF Promote, Found
  <2> QED
    BY <2>1, <2>2, ListedType, MadeType
<1>4. WinOK(win', db') /\ KeepsTyped
  <2>1. CASE Finish
    BY <1>1, <2>1, SyncMoves
  <2>2. ASSUME NEW p \in Remote, win' = [win EXCEPT !.pc = "migrate", !.eff = p]
        PROVE  WinOK(win', db') /\ KeepsTyped
    BY <1>1, <2>2, SyncWindow
  <2> QED
    BY <1>2, <2>1, <2>2
<1>5. ops' \in Nat /\ faults' \in Nat
  BY <1>1, Bounds, TInvFacts
<1>6. TInv'
  BY <1>1, <1>3, <1>4, <1>5 DEF TInv, TypeOK, WinOK
<1>7. EntryInv => EntryInv'
  BY <1>1 DEF EntryInv, Matches
<1> QED
  BY <1>4, <1>6, <1>7 DEF Good

(* The window does not mind what else happens to the database as long as   *)
(* no row goes, nor whether foreign keys are enforced.                     *)
LEMMA KeepsWindow ==
  ASSUME NEW w \in Window, NEW d, NEW D, WinOK(w, d), w.pc # "queue",
         KeepsRows(d, D)
  PROVE  WinOK(w, D)
<1>1. w.cur # None => w.cur \in Row
  BY WindowFields
<1> QED
  BY <1>1 DEF WinOK, KeepsRows

LEMMA FkFacts ==
  ASSUME NEW w \in Window, NEW b \in BOOLEAN, NEW d, WinOK(w, d), w.pc # "queue"
  PROVE  /\ [w EXCEPT !.fk = b] \in Window /\ WinOK([w EXCEPT !.fk = b], d)
         /\ [w EXCEPT !.fk = b].pc = w.pc /\ [w EXCEPT !.fk = b].eff = w.eff
         /\ [w EXCEPT !.fk = b].cur = w.cur
<1> DEFINE v == [w EXCEPT !.fk = b]
<1>1. /\ v \in Window /\ v.pc = w.pc /\ v.eff = w.eff /\ v.cur = w.cur
      /\ v.sel = w.sel /\ v.next = w.next /\ v.dirty = w.dirty
  BY DEF Window
<1> HIDE DEF v
<1>2. WinOK(v, d)
  BY <1>1 DEF WinOK
<1> QED
  BY <1>1, <1>2 DEF v

(* A promotion takes the queued changes along with their rows. *)
LEMMA MigratedMatches ==
  ASSUME TInv, NEW new \in Remote, Matches(db)
  PROVE  LET D == Migrated(db, new)
         IN  /\ \A e \in D.queue : e.proj = D.row[e.row].proj
             /\ \A r \in Row : srow[r].proj # None /\ D.row[r].proj # None =>
                  D.row[r].proj = srow[r].proj
<1> DEFINE D == Migrated(db, new)
<1>1. /\ \A r \in Row : Follows(db.row[r], D.row[r], new) /\ D.row[r].proj # Local
      /\ \A e \in D.queue :
           \E o \in db.queue : /\ e.row = o.row
                               /\ e.proj = IF o.proj = Local THEN new ELSE o.proj
  BY TInvFacts, MigratedFacts
<1>2. \A o \in db.queue : o.row \in Row /\ o.proj = db.row[o.row].proj
  BY TInvFacts DEF Matches, Database, Entry
<1>3. /\ Local # None /\ Local \notin Remote
      /\ \A r \in Row : srow[r].proj \in Remote \cup {None}
  BY LocalStoreAssumption DEF TInv
<1> HIDE DEF D
<1>4. ASSUME NEW e \in D.queue PROVE e.proj = D.row[e.row].proj
  <2>1. PICK o \in db.queue : /\ e.row = o.row
                              /\ e.proj = IF o.proj = Local THEN new ELSE o.proj
    BY <1>1
  <2>2. o.row \in Row /\ o.proj = db.row[o.row].proj
    BY <1>2
  <2> QED
    BY <1>1, <2>1, <2>2 DEF Follows
<1>5. ASSUME NEW r \in Row, srow[r].proj # None, D.row[r].proj # None
      PROVE  D.row[r].proj = srow[r].proj
  <2>1. Follows(db.row[r], D.row[r], new) /\ D.row[r].proj # Local
    BY <1>1
  <2>2. db.row[r].proj # None
    BY <1>3, <1>5, <2>1 DEF Follows
  <2>3. db.row[r].proj = srow[r].proj
    BY <1>5, <2>2 DEF Matches
  <2> QED
    BY <1>3, <1>5, <2>1, <2>3 DEF Follows
<1> QED
  BY <1>4, <1>5 DEF D

LEMMA MigrateWorks == ASSUME TInv, MigrateProject PROVE Good
<1>0. win.fk \in BOOLEAN /\ open \in BOOLEAN
  BY TInvFacts, WindowFields
<1>1. /\ win.pc = "migrate" /\ win \in Window /\ WinOK(win, db) /\ win.eff \in Remote
      /\ win.cur # None => win.cur \in Row
  BY TInvFacts DEF MigrateProject, WinOK
<1>2. PICK new \in Remote, b \in BOOLEAN : new = win.eff /\ b = (win.fk /\ open)
  BY <1>0, <1>1
<1> DEFINE w == [win EXCEPT !.fk = b]
<1>3. /\ w \in Window /\ WinOK(w, db) /\ w.pc = "migrate" /\ w.eff = new
      /\ w.cur = win.cur
  BY <1>1, <1>2, FkFacts
<1>4. \/ /\ Leave(HalfMoved(db, new)) /\ clashed' = TRUE
         /\ win' = [w EXCEPT !.pc = "idle", !.eff = None]
      \/ /\ Commit(Migrated(db, new)) /\ clashed' = clashed
         /\ win' = [w EXCEPT !.pc = "push"]
  BY <1>1, <1>2 DEF MigrateProject
<1>5. /\ UNCHANGED <<site, srow, receipts, torn>> /\ ops' \in Nat /\ faults' \in Nat
      /\ open' \in BOOLEAN
  BY <1>4, Bounds, TInvFacts DEF MigrateProject, server, Leave, Commit
<1> HIDE DEF w
<1>6. /\ db' \in Database /\ disk' \in Database /\ KeepsRows(db, db')
  <2>1. /\ HalfMoved(db, new) \in Database /\ Migrated(db, new) \in Database
        /\ \A r \in Row : /\ Follows(db.row[r], HalfMoved(db, new).row[r], new)
                          /\ Follows(db.row[r], Migrated(db, new).row[r], new)
    BY TInvFacts, HalfMovedFacts, MigratedFacts
  <2>2. db' \in {HalfMoved(db, new), Migrated(db, new)} /\ disk' \in {disk, db'}
    BY <1>4 DEF Leave, Commit
  <2>3. \A r \in Row : Follows(db.row[r], db'.row[r], new)
    BY <2>1, <2>2
  <2>4. new # None
    BY RemoteIds
  <2>5. KeepsRows(db, db')
    BY <2>3, <2>4 DEF KeepsRows, Follows
  <2> QED
    BY <2>1, <2>2, <2>5, TInvFacts
<1>7. WinOK(win', db) /\ win' \in Window /\ win'.pc # "queue" /\ win'.cur = win.cur
  <2>1. PICK pc \in {"idle", "push"}, eff \in Remote \cup {None} :
          /\ win' = [w EXCEPT !.pc = pc, !.eff = eff]
          /\ pc # "idle" => eff \in Remote
    <3>1. [w EXCEPT !.pc = "push"] = [w EXCEPT !.pc = "push", !.eff = new]
      BY <1>3 DEF Window
    <3> QED
      BY <1>4, <3>1
  <2>2. /\ win' \in Window /\ win'.cur = w.cur /\ win'.pc = pc /\ win'.eff = eff
        /\ win'.sel = w.sel /\ win'.next = w.next
    BY <1>3, <2>1 DEF Window, ProjectId
  <2>3. WinOK(win', db)
    BY <1>3, <2>1, <2>2 DEF WinOK
  <2> QED
    BY <1>3, <2>1, <2>2, <2>3
<1>8. WinOK(win', db')
  BY <1>6, <1>7, KeepsWindow
<1>9. clashed' \in BOOLEAN
  BY <1>4 DEF TInv, TypeOK
<1>10. TInv'
  BY <1>5, <1>6, <1>8, <1>9 DEF TInv, TypeOK, WinOK
<1>11. EntryInv => EntryInv'
  <2> SUFFICES ASSUME EntryInv, ~clashed' PROVE db' = disk' /\ Matches(db)'
    BY DEF EntryInv
  <2>1. db' = Migrated(db, new) /\ disk' = db' /\ ~clashed
    BY <1>4 DEF Commit
  <2>2. Matches(db)
    BY <2>1 DEF EntryInv
  <2> QED
    BY <1>5, <2>1, <2>2, MigratedMatches DEF Matches
<1> QED
  BY <1>7, <1>10, <1>11 DEF Good, KeepsTyped

(* What a push makes of the server. *)
LEMMA ProcessFacts ==
  ASSUME TInv, win.eff \in Remote, NEW P, P = Pending(db, win.eff),
         NEW A \in SUBSET P, Process(P, A)
  PROVE  /\ srow' \in [Row -> Stored] /\ receipts' \in SUBSET Nat
         /\ \A r \in Row : \/ srow'[r].proj = srow[r].proj
                           \/ /\ srow'[r].proj = win.eff
                              /\ \E e \in db.queue : e.row = r /\ e.proj = win.eff
<1>1. /\ P \subseteq db.queue /\ P \subseteq Entry
      /\ \A e \in P : e.proj = win.eff
  BY TInvFacts DEF Pending, Database
<1>2. srow \in [Row -> Stored] /\ receipts \in SUBSET Nat
  BY DEF TInv, TypeOK
<1> DEFINE put(r) == IF \E e \in A : e.row = r
                     THEN LET e == CHOOSE e \in A : e.row = r
                          IN [proj |-> e.proj, code |-> e.code, val |-> e.val,
                              ver |-> srow[r].ver + 1, del |-> e.del]
                     ELSE srow[r]
<1>3. srow' = [r \in Row |-> put(r)] /\ receipts' = receipts \cup {e.id : e \in P}
  BY DEF Process
<1>4. ASSUME NEW r \in Row
      PROVE  /\ put(r) \in Stored
             /\ \/ put(r).proj = srow[r].proj
                \/ /\ put(r).proj = win.eff
                   /\ \E e \in db.queue : e.row = r /\ e.proj = win.eff
  <2>1. CASE \E e \in A : e.row = r
    <3>1. PICK e \in A : e = CHOOSE f \in A : f.row = r
      BY <2>1
    <3>2. e \in Entry /\ e \in db.queue /\ e.row = r /\ e.proj = win.eff
      BY <1>1, <2>1, <3>1
    <3>3. put(r) = [proj |-> e.proj, code |-> e.code, val |-> e.val,
                    ver |-> srow[r].ver + 1, del |-> e.del]
      BY <2>1, <3>1
    <3>4. srow[r].ver + 1 \in Nat
      BY <1>2 DEF Stored
    <3>5. put(r) \in Stored /\ put(r).proj = win.eff
      <4> HIDE DEF put
      <4> QED
        BY <3>2, <3>3, <3>4 DEF Stored, Entry
    <3> QED
      BY <3>2, <3>5
  <2>2. CASE ~\E e \in A : e.row = r
    BY <1>2, <2>2
  <2> QED
    BY <2>1, <2>2
<1>5. \A e \in P : e.id \in Nat
  BY <1>1 DEF Entry
<1> HIDE DEF put
<1> QED
  BY <1>2, <1>3, <1>4, <1>5

(* A step of the sync with the server: rows there stay or come from the    *)
(* queue, queued changes here go or stay.                                  *)
LEMMA PushStep ==
  ASSUME TInv, win.pc = "push", win.eff \in Remote,
         NEW Q, Q \in SUBSET Entry,
         \A e \in Q : \E o \in db.queue : o.row = e.row /\ o.proj = e.proj,
         Commit([db EXCEPT !.queue = Q]) \/ UNCHANGED store,
         srow' \in [Row -> Stored], receipts' \in SUBSET Nat,
         \A r \in Row : \/ srow'[r].proj = srow[r].proj
                        \/ /\ srow'[r].proj = win.eff
                           /\ \E e \in db.queue : e.row = r /\ e.proj = win.eff,
         clashed' \in BOOLEAN, clashed => clashed', site' = site, torn' = torn,
         ops' \in Nat, faults' \in Nat, Finish \/ Proceed("pull")
  PROVE  Good
<1>1. /\ db' \in Database /\ disk' \in Database /\ db'.row = db.row
      /\ db'.queue \in {Q, db.queue} /\ (db = disk => db' = disk')
      /\ open' \in BOOLEAN /\ torn' \in SUBSET Row
  BY TInvFacts DEF Commit, store, Database
<1>2. WinOK(win', db) /\ KeepsTyped
  BY SyncMoves
<1>3. WinOK(win', db')
  BY <1>1, <1>2 DEF WinOK, NextOK
<1>4. TInv'
  BY <1>1, <1>3 DEF TInv, TypeOK, WinOK
<1>5. EntryInv => EntryInv'
  <2> SUFFICES ASSUME EntryInv, ~clashed' PROVE db' = disk' /\ Matches(db)'
    BY DEF EntryInv
  <2>1. db = disk /\ Matches(db)
    BY DEF EntryInv
  <2>2. \A e \in db'.queue : e.proj = db'.row[e.row].proj
    BY <1>1, <2>1 DEF Matches
  <2>3. ASSUME NEW r \in Row, srow'[r].proj # None, db'.row[r].proj # None
        PROVE  db'.row[r].proj = srow'[r].proj
    <3>1. CASE srow'[r].proj = srow[r].proj
      BY <1>1, <2>1, <2>3, <3>1 DEF Matches
    <3>2. ASSUME NEW e \in db.queue, e.row = r, e.proj = win.eff,
                 srow'[r].proj = win.eff
          PROVE  db'.row[r].proj = srow'[r].proj
      BY <1>1, <2>1, <3>2 DEF Matches
    <3> QED
      BY <3>1, <3>2
  <2> QED
    BY <1>1, <2>1, <2>2, <2>3 DEF Matches
<1> QED
  BY <1>2, <1>4, <1>5 DEF Good

LEMMA PushWorks == ASSUME TInv, Push PROVE Good
<1>1. win.pc = "push" /\ win.eff \in Remote
  BY TInvFacts DEF Push, WinOK
<1> DEFINE P == Pending(db, win.eff)
<1>3. PICK A \in SUBSET P :
        \/ LET R == {e \in P \ A : e.id \notin receipts}
               kept == {[e EXCEPT !.st = "blocked"] : e \in R}
           IN /\ Process(P, A)
              /\ Commit([db EXCEPT !.queue = (@ \ P) \cup kept])
              /\ clashed' = (clashed \/ R # {})
              /\ Proceed("pull") /\ Idle
        \/ /\ Process(P, A) \/ UNCHANGED <<srow, receipts>>
           /\ Finish /\ Fault /\ UNCHANGED <<store, clashed>>
  BY DEF Push
<1> DEFINE R == {e \in P \ A : e.id \notin receipts}
           kept == {[e EXCEPT !.st = "blocked"] : e \in R}
           Q == (db.queue \ P) \cup kept
<1>4. P \subseteq db.queue /\ db.queue \subseteq Entry
  BY TInvFacts DEF Pending, Database
<1>5. /\ \A e \in Q : /\ e \in Entry
                      /\ \E o \in db.queue : o.row = e.row /\ o.proj = e.proj
  BY <1>4 DEF Entry
<1>6. \/ /\ Process(P, A) /\ Commit([db EXCEPT !.queue = Q])
         /\ clashed' = (clashed \/ R # {}) /\ Proceed("pull") /\ Idle
      \/ /\ Process(P, A) \/ UNCHANGED <<srow, receipts>>
         /\ Finish /\ Fault /\ UNCHANGED <<store, clashed>>
  <2>1. [db EXCEPT !.queue = (@ \ P) \cup kept] = [db EXCEPT !.queue = Q]
    BY TInvFacts DEF Database
  <2> QED
    BY <1>3, <2>1
<1>7. Q \in SUBSET Entry
  BY <1>5
<1>8. /\ srow' \in [Row -> Stored] /\ receipts' \in SUBSET Nat
      /\ \A r \in Row : \/ srow'[r].proj = srow[r].proj
                        \/ /\ srow'[r].proj = win.eff
                           /\ \E e \in db.queue : e.row = r /\ e.proj = win.eff
  <2>1. CASE Process(P, A)
    BY <1>1, <2>1, ProcessFacts
  <2>2. CASE UNCHANGED <<srow, receipts>>
    BY <2>2 DEF TInv, TypeOK
  <2> QED
    BY <1>6, <2>1, <2>2
<1>9. ops' \in Nat /\ faults' \in Nat
  BY <1>6, Bounds, TInvFacts
<1>10. clashed' \in BOOLEAN /\ (clashed => clashed') /\ site' = site /\ torn' = torn
  <2>1. clashed \in BOOLEAN /\ site' = site /\ torn' = torn
    BY DEF TInv, TypeOK, Push
  <2>2. clashed' = (clashed \/ R # {}) \/ clashed' = clashed
    BY <1>6
  <2> HIDE DEF R
  <2> QED
    BY <2>1, <2>2
<1>11. /\ Commit([db EXCEPT !.queue = Q]) \/ UNCHANGED store
       /\ Finish \/ Proceed("pull")
  BY <1>6
<1> HIDE DEF Q
<1> QED
  BY <1>1, <1>5, <1>7, <1>8, <1>9, <1>10, <1>11, PushStep

LEMMA PushNothingWorks == ASSUME TInv, PushNothing PROVE Good
<1>1. win.pc = "push" /\ win.eff \in Remote /\ Proceed("pull")
  BY TInvFacts DEF PushNothing, WinOK
<1>2. /\ UNCHANGED <<db, disk, open, site, srow, receipts, clashed, torn>>
      /\ ops' \in Nat /\ faults' \in Nat
  BY Bounds, TInvFacts DEF PushNothing, store, server, marks
<1>3. WinOK(win', db) /\ KeepsTyped
  BY <1>1, SyncMoves
<1>4. TInv'
  BY <1>2, <1>3 DEF TInv, TypeOK, WinOK
<1>5. EntryInv => EntryInv'
  BY <1>2 DEF EntryInv, Matches
<1> QED
  BY <1>3, <1>4, <1>5 DEF Good

(* The database with some of the rows that a pull brings: they are new     *)
(* here, or they are in the same project already.                          *)
LEMMA WithFacts ==
  ASSUME TInv, win.eff \in Remote, NEW T \in SUBSET News(win.eff)
  PROVE  /\ With(T) \in Database /\ With(T).queue = db.queue
         /\ With(T).project = db.project
         /\ \A r \in Row :
              /\ \/ With(T).row[r].proj = db.row[r].proj
                 \/ With(T).row[r].proj = srow[r].proj /\ srow[r].proj = win.eff
              /\ db.row[r].proj # None => With(T).row[r].proj # None
<1>1. T \in SUBSET Row /\ \A r \in T : srow[r].proj # None /\ srow[r].proj = win.eff
  BY RemoteIds DEF News
<1>2. db \in Database /\ srow \in [Row -> Stored]
  BY TInvFacts
<1>0. T \in SUBSET Row /\ \A r \in T : srow[r].proj # None
  BY <1>1
<1>3. LET D == With(T)
      IN  /\ D \in Database /\ D.project = db.project /\ D.queue = db.queue
          /\ \A r \in Row : /\ D.row[r].proj = db.row[r].proj
                               \/ (r \in T /\ D.row[r].proj = srow[r].proj)
                            /\ db.row[r].proj # None => D.row[r].proj # None
  BY <1>0, <1>2, PulledFacts DEF With
<1>4. ASSUME NEW r \in Row
      PROVE  /\ \/ With(T).row[r].proj = db.row[r].proj
                \/ With(T).row[r].proj = srow[r].proj /\ srow[r].proj = win.eff
             /\ db.row[r].proj # None => With(T).row[r].proj # None
  BY <1>1, <1>3
<1> QED
  BY <1>3, <1>4

(* A step of a pull.                                                       *)
LEMMA PullStep ==
  ASSUME TInv, win.pc = "pull", win.eff \in Remote,
         site' = site, srow' = srow, receipts' = receipts,
         Idle \/ Fault, Finish \/ Proceed("moved"),
         db' \in Database, disk' \in Database, open' \in BOOLEAN,
         db'.queue = db.queue,
         \A r \in Row : /\ db'.row[r].proj \in {db.row[r].proj, srow[r].proj}
                        /\ db.row[r].proj # None => db'.row[r].proj # None,
         clashed' \in BOOLEAN, clashed => clashed', torn' = torn,
         ~clashed' => (db = disk => db' = disk')
  PROVE  Good
<1>1. ops' \in Nat /\ faults' \in Nat
  BY Bounds, TInvFacts
<1>2. WinOK(win', db) /\ KeepsTyped
  BY SyncMoves
<1>3. win' \in Window /\ win'.pc # "queue"
  <2>1. win \in Window
    BY TInvFacts
  <2>2. win'.pc \in {"idle", "moved"}
    BY <2>1 DEF Finish, Proceed, Window
  <2> QED
    BY <1>2, <2>2 DEF WinOK
<1>4. WinOK(win', db')
  BY <1>2, <1>3, KeepsWindow DEF KeepsRows
<1>5. torn' \in SUBSET Row
  BY TInvFacts
<1>6. TInv'
  BY <1>1, <1>4, <1>5 DEF TInv, TypeOK, WinOK
<1>7. EntryInv => EntryInv'
  <2> SUFFICES ASSUME EntryInv, ~clashed' PROVE db' = disk' /\ Matches(db)'
    BY DEF EntryInv
  <2>1. db = disk /\ Matches(db)
    BY DEF EntryInv
  <2>2. \A e \in db.queue : e.row \in Row /\ e.proj # None
    BY TInvFacts, RemoteIds DEF Database, Entry
  <2>3. ASSUME NEW r \in Row, db.row[r].proj # None
        PROVE  db'.row[r].proj = db.row[r].proj
    BY <2>1, <2>3 DEF Matches
  <2>4. \A e \in db'.queue : e.proj = db'.row[e.row].proj
    BY <2>1, <2>2, <2>3 DEF Matches
  <2>5. ASSUME NEW r \in Row, srow[r].proj # None, db'.row[r].proj # None
        PROVE  db'.row[r].proj = srow[r].proj
    BY <2>1, <2>5 DEF Matches
  <2> QED
    BY <1>1, <2>1, <2>4, <2>5 DEF Matches
<1> QED
  BY <1>2, <1>6, <1>7 DEF Good

LEMMA ClashedType == TInv => clashed \in BOOLEAN
  BY DEF TInv, TypeOK

LEMMA PullWorks == ASSUME TInv, Pull PROVE Good
<1>1. /\ win.pc = "pull" /\ win.eff \in Remote
      /\ site' = site /\ srow' = srow /\ receipts' = receipts
      /\ Idle /\ (Finish \/ Proceed("moved")) /\ torn' = torn
  BY TInvFacts DEF Pull, WinOK, marks, server
<1> DEFINE S == News(win.eff)
           m == [r \in Row |-> IF srow[r].proj = win.eff THEN srow[r].ver
                               ELSE db.since[r]]
<1>2. PICK d : d = With(S)
  OBVIOUS
<1>3. /\ d \in Database /\ d.queue = db.queue
      /\ \A r \in Row : /\ d.row[r].proj \in {db.row[r].proj, srow[r].proj}
                        /\ db.row[r].proj # None => d.row[r].proj # None
  BY <1>1, <1>2, WithFacts
<1>4. m \in [Row -> Nat]
  BY TInvFacts DEF Database, Stored
<1>5. Commit([d EXCEPT !.since = m])
  BY <1>2 DEF Pull
<1> HIDE DEF m
<1>6. /\ db' \in Database /\ db'.queue = d.queue /\ db'.row = d.row
      /\ disk' = db' /\ open' = FALSE
  BY <1>3, <1>4, <1>5 DEF Commit, Database
<1>7. \A r \in Row : /\ db'.row[r].proj \in {db.row[r].proj, srow[r].proj}
                     /\ db.row[r].proj # None => db'.row[r].proj # None
  BY <1>3, <1>6
<1>8. /\ disk' \in Database /\ open' \in BOOLEAN /\ db'.queue = db.queue
      /\ db' \in Database
  BY <1>3, <1>6
<1>9. clashed' \in BOOLEAN /\ (clashed => clashed')
  BY ClashedType DEF Pull, marks
<1>10. ~clashed' => (db = disk => db' = disk')
  BY <1>6
<1>11. Idle \/ Fault
  BY <1>1
<1> QED
  BY <1>1, <1>7, <1>8, <1>9, <1>10, <1>11, PullStep

LEMMA PullClashWorks == ASSUME TInv, PullClash PROVE Good
<1>1. /\ win.pc = "pull" /\ win.eff \in Remote
      /\ site' = site /\ srow' = srow /\ receipts' = receipts
      /\ Idle /\ Finish /\ torn' = torn
  BY TInvFacts DEF PullClash, WinOK, server
<1>2. PICK T \in SUBSET News(win.eff), O \in SUBSET News(win.eff) :
        db' = With(T) /\ disk' \in {disk, With(O)}
  BY DEF PullClash
<1>3. /\ db' \in Database /\ db'.queue = db.queue
      /\ \A r \in Row : /\ db'.row[r].proj \in {db.row[r].proj, srow[r].proj}
                        /\ db.row[r].proj # None => db'.row[r].proj # None
  BY <1>1, <1>2, WithFacts
<1>4. disk' \in Database
  BY <1>1, <1>2, WithFacts, TInvFacts
<1>5. clashed' \in BOOLEAN /\ open' \in BOOLEAN /\ (clashed => clashed')
  BY DEF PullClash
<1>6. ~clashed' => (db = disk => db' = disk')
  BY DEF PullClash
<1>7. (Idle \/ Fault) /\ (Finish \/ Proceed("moved"))
  BY <1>1
<1> QED
  BY <1>1, <1>3, <1>4, <1>5, <1>6, <1>7, PullStep

LEMMA PullLostWorks == ASSUME TInv, PullLost PROVE Good
<1>1. /\ win.pc = "pull" /\ win.eff \in Remote
      /\ site' = site /\ srow' = srow /\ receipts' = receipts
      /\ Fault /\ Finish /\ torn' = torn
  BY TInvFacts DEF PullLost, WinOK, marks, server
<1>2. UNCHANGED store \/ \E T \in SUBSET News(win.eff) : Commit(With(T))
  BY DEF PullLost
<1>3. CASE UNCHANGED store
  <2>1. /\ db' \in Database /\ disk' \in Database /\ db' = db /\ disk' = disk
        /\ open' \in BOOLEAN
    BY <1>1, <1>3, TInvFacts DEF store
  <2>2. clashed' \in BOOLEAN /\ (clashed => clashed')
    BY ClashedType DEF PullLost, marks
  <2> QED
    BY <1>1, <2>1, <2>2, PullStep
<1>4. ASSUME NEW T \in SUBSET News(win.eff), Commit(With(T)) PROVE Good
  <2>1. db' = With(T) /\ disk' = db' /\ open' = FALSE
    BY <1>4 DEF Commit
  <2>2. /\ db' \in Database /\ db'.queue = db.queue
        /\ \A r \in Row : /\ db'.row[r].proj \in {db.row[r].proj, srow[r].proj}
                          /\ db.row[r].proj # None => db'.row[r].proj # None
    BY <1>1, <2>1, WithFacts
  <2>3. /\ disk' \in Database /\ open' \in BOOLEAN /\ clashed' \in BOOLEAN
        /\ clashed => clashed'
    BY <2>1, <2>2, ClashedType DEF PullLost, marks
  <2>4. ~clashed' => (db = disk => db' = disk')
    BY <2>1
  <2>5. (Idle \/ Fault) /\ (Finish \/ Proceed("moved"))
    BY <1>1
  <2> QED
    BY <1>1, <2>2, <2>3, <2>4, <2>5, PullStep
<1> QED
  BY <1>2, <1>3, <1>4

LEMMA ElsewhereWorks ==
  ASSUME TInv, NEW r \in Row, Elsewhere(r)
  PROVE  Good
<1>1. PICK p \in There(site), c \in Chosen \cup {<<Type[r], 1>>} :
        srow' = [srow EXCEPT ![r] = [NoRow(r) EXCEPT !.proj = p, !.code = c,
                                                     !.ver = 1]]
  BY DEF Elsewhere
<1> DEFINE x == [NoRow(r) EXCEPT !.proj = p, !.code = c, !.ver = 1]
<1>2. /\ db.row[r].proj = None
      /\ UNCHANGED <<db, disk, open, win, site, receipts, clashed, torn>>
      /\ Idle
  BY DEF Elsewhere, Fresh, Free, store, marks
<1>3. ops' \in Nat /\ faults' \in Nat
  BY <1>2, Bounds, TInvFacts
<1>4. p \in Remote /\ p \in ProjectId /\ c \in Code
  BY DesktopAssumption, LocalStoreAssumption DEF There, ProjectId, Code
<1>5. x \in Stored /\ x.proj = p
  <2>1. NoRow(r) \in Stored /\ ops + 1 \in Nat
    BY NoRowType, TInvFacts
  <2> QED
    BY <1>4, <2>1 DEF Stored
<1> HIDE DEF x
<1>6. srow' \in [Row -> Stored] /\ \A q \in Row : srow'[q].proj \in Remote \cup {None}
  BY <1>1, <1>4, <1>5 DEF TInv, TypeOK, x
<1>7. \A q \in Row \ {r} : srow'[q] = srow[q]
  BY <1>1
<1>8. TInv'
  BY <1>2, <1>3, <1>6 DEF TInv, TypeOK, WinOK
<1>9. EntryInv => EntryInv'
  BY <1>2, <1>7 DEF EntryInv, Matches
<1> QED
  BY <1>2, <1>8, <1>9 DEF Good, KeepsTyped

-----------------------------------------------------------------------------
(* The theorems. *)

LEMMA InitWorks == Init => TInv /\ EntryInv
<1> SUFFICES ASSUME Init PROVE TInv /\ EntryInv
  OBVIOUS
<1>1. \A r \in Row : NoRow(r) \in Stored /\ NoRow(r).proj = None
  BY NoRowType
<1>2. db \in Database /\ disk = db /\ open = FALSE /\ db.queue = {} /\ db.row = [r \in Row |-> NoRow(r)]
  BY <1>1 DEF Init, StoreInit, Database
<1>3. srow \in [Row -> Stored] /\ \A r \in Row : srow[r].proj = None
  BY <1>1 DEF Init
<1>4. WinOK(win, db) /\ win \in Window
  BY ClosedOK DEF Init, WinOK
<1>5. site \in [Remote -> {"none", "auto", "mine", "theirs"}]
  BY MadeType DEF Init
<1>6. TInv
  BY <1>2, <1>3, <1>4, <1>5 DEF TInv, TypeOK, Init
<1>7. EntryInv
  BY <1>2, <1>3 DEF EntryInv, Matches
<1> QED
  BY <1>6, <1>7

LEMMA NextWorks == ASSUME TInv, [Next]_vars PROVE Good
<1>1. CASE Start
  BY <1>1, StartWorks
<1>2. CASE Quit \/ Crash
  <2>1. torn' \in SUBSET Row
    <3>1. torn \in SUBSET Row /\ (win.pc \in {"queue", "drop"} => win.cur \in Row)
      BY TInvFacts DEF WinOK
    <3> QED
      BY <1>2, <3>1 DEF Quit, Crash
  <2> QED
    BY <1>2, <2>1, ExitWorks DEF Quit, Crash
<1>3. CASE Press \/ \E p \in ProjectId : Select(p)
  BY <1>3, PressWorks, SelectWorks
<1>4. CASE PressDelete
  BY <1>4, PressDeleteWorks
<1>5. CASE PressSync
  BY <1>5, PressSyncWorks
<1>6. CASE TypeIn
  BY <1>6, TypeInWorks
<1>7. ASSUME NEW r \in Row, Create(r) \/ Elsewhere(r) PROVE Good
  BY <1>7, CreateWorks, ElsewhereWorks
<1>8. CASE Program
  BY <1>8, EnqueueWorks, SoftDeleteWorks, QueueDeleteWorks, StartNewWorks, PromoteWorks,
     MigrateWorks, PushWorks, PushNothingWorks, PullWorks, PullClashWorks,
     PullLostWorks, LeaveLocalWorks, ReloadWorks DEF Program
<1>9. CASE UNCHANGED vars
  <2>1. UNCHANGED <<db, disk, open, win, site, srow, receipts, clashed, torn, ops,
                    faults>>
    BY <1>9 DEF vars, store, server, marks
  <2>2. TInv'
    BY <2>1 DEF TInv, TypeOK, WinOK
  <2>3. EntryInv => EntryInv'
    BY <2>1 DEF EntryInv, Matches
  <2>4. KeepsTyped
    BY <2>1 DEF KeepsTyped
  <2> QED
    BY <2>2, <2>3, <2>4 DEF Good
<1> QED
  BY <1>1, <1>2, <1>3, <1>4, <1>5, <1>6, <1>7, <1>8, <1>9 DEF Next

LEMMA InvariantHolds == Spec => [](TInv /\ EntryInv)
<1>1. TInv /\ EntryInv /\ [Next]_vars => (TInv /\ EntryInv)'
  BY NextWorks DEF Good
<1> QED
  BY <1>1, InitWorks, PTL DEF Spec

(* Every variable keeps its type: the window, the editor and every step of *)
(* a sync always have the row and the project they work on.                *)
THEOREM DesktopTyped == Spec => []TypeOK
<1>1. TInv => TypeOK
  BY DEF TInv
<1> QED
  BY <1>1, InvariantHolds, PTL

(* Unless a code has clashed, every queued change on disk is under the     *)
(* project of its row, wherever the program or a promotion was cut off.    *)
THEOREM EntriesStayWithRows == Spec => []EntriesFollowRows
<1>1. EntryInv => EntriesFollowRows
  BY DEF EntryInv, Matches, EntriesFollowRows
<1> QED
  BY <1>1, InvariantHolds, PTL

(* Whatever the user presses with the mouse or on the keyboard, the editor *)
(* moves to another item only when what was typed for this one is stored   *)
(* and queued for the server, or when the program has refused it.          *)
THEOREM TypedTextIsKept == Spec => TypedIsKept
<1>1. TInv /\ [Next]_vars =>
        [win.dirty /\ win'.cur # win.cur /\ win.cur # None /\ win'.pc # "off" =>
           \/ Refused(win)
           \/ /\ db'.row[win.cur].val = win.val
              /\ \E e \in db'.queue :
                   e.row = win.cur /\ e.val = win.val /\ e.st = "pending"]_vars
  BY NextWorks DEF Good, KeepsTyped
<1> QED
  BY <1>1, InvariantHolds, PTL DEF Spec, TypedIsKept


-----------------------------------------------------------------------------
(* One server project. *)

(* The ids the program can know: those of the server's projects, and the   *)
(* local one.                                                              *)
Ids(st) == There(st) \cup {Local}

Stocked(d, st) ==
  /\ d.project \subseteq Ids(st)
  /\ \A r \in Row : d.row[r].proj \in Ids(st) \cup {None}

Known(w, st) ==
  /\ w.list \subseteq Ids(st) /\ w.sel \in Ids(st) \cup {None}
  /\ w.eff \in There(st) \cup {None}
  /\ w.next.do = "select" => w.next.arg \in Ids(st)

IdsInv == Stocked(db, site) /\ Stocked(disk, site) /\ Known(win, site)

(* One project is the program's own, and while list_projects' own project  *)
(* is there it is the only one there is.                                   *)
Own == {"auto", "mine"}
Single(st) ==
  /\ \A p, q \in Remote : st[p] \in Own /\ st[q] \in Own => p = q
  /\ \A p, q \in Remote : st[p] = "auto" /\ st[q] # "none" => p = q

(* A database the promotion has been through: it is not begun again.       *)
Promoted(d) == d.project # {} /\ Local \notin d.project

(* When no call has failed, a project that a promotion made waits for the  *)
(* local one, with no row in its way, or has taken its place for good.     *)
OneInv ==
  faults = 0 =>
    /\ Single(site)
    /\ (\E p \in Remote : site[p] = "mine") =>
         IF win.pc = "migrate"
         THEN site[win.eff] = "mine" /\ \A r \in Row : db.row[r].proj # win.eff
         ELSE win.pc # "promote" /\ Promoted(db) /\ Promoted(disk)

Kept == IdsInv' /\ OneInv'

(* A step that leaves the projects of the device and the server alone.     *)
Quiet ==
  /\ site' = site /\ db'.project = db.project
  /\ \A r \in Row : db'.row[r].proj \in {db.row[r].proj} \cup Ids(site)
  /\ \/ disk' \in {disk, db'}
     \/ /\ disk'.project = db.project
        /\ \A r \in Row : disk'.row[r].proj \in {db.row[r].proj} \cup Ids(site)
  /\ Known(win', site) /\ win'.pc # "migrate"
  /\ win'.pc = "promote" => Local \in db.project

LEMMA FaultsStay ==
  ASSUME TypeOK, Count \/ Idle \/ Fault
  PROVE  /\ faults' = 0 => faults = 0
         /\ Fault => faults' # 0
  BY DEF TypeOK, Count, Idle, Fault

LEMMA QuietStep ==
  ASSUME IdsInv, OneInv, Quiet, win.pc # "migrate", faults' = 0 => faults = 0
  PROVE  Kept
<1>1. Stocked(db', site) /\ Stocked(disk', site) /\ Known(win', site) /\ site' = site
  BY DEF IdsInv, Stocked, Quiet
<1>2. IdsInv'
  BY <1>1 DEF IdsInv, Stocked, Known, Ids, There
<1>3. OneInv'
  <2> SUFFICES ASSUME faults' = 0
               PROVE  /\ Single(site)
                      /\ (\E p \in Remote : site[p] = "mine") =>
                           /\ win'.pc # "promote" /\ win'.pc # "migrate"
                           /\ Promoted(db') /\ Promoted(disk')
    BY <1>1 DEF OneInv, Single, Promoted
  <2>1. /\ Single(site)
        /\ (\E p \in Remote : site[p] = "mine") =>
             win.pc # "promote" /\ Promoted(db) /\ Promoted(disk)
    BY DEF OneInv
  <2> QED
    BY <2>1 DEF Quiet, Promoted
<1> QED
  BY <1>2, <1>3 DEF Kept

(* The editor is left for something the program knows. *)
LEMMA AfterKnown ==
  ASSUME NEW w \in Window, Known(w, site), w.sel \in ProjectId, NEW n \in Follow,
         n.do = "select" => n.arg \in Ids(site)
  PROVE  /\ Known(After(w, n), site) /\ After(w, n).pc # "migrate"
         /\ After(w, n).pc = "promote" => Local \in db.project
<1> DEFINE v == [w EXCEPT !.dirty = FALSE, !.val = 0, !.code = None, !.bad = FALSE,
                          !.num = 0, !.next = Stay, !.pc = "idle"]
<1>1. /\ v \in Window /\ v.sel = w.sel /\ v.list = w.list /\ v.eff = w.eff
      /\ v.pc = "idle" /\ v.next = Stay
  BY DEF Window, Stay, Follow
<1>2. n.do \in {"stay", "select", "click", "new", "sync", "delete", "reload"}
  BY DEF Follow
<1>3. After(w, n) = CASE n.do = "stay"   -> v
                      [] n.do = "select" -> [v EXCEPT !.sel = n.arg, !.cur = None]
                      [] n.do = "click"  -> [v EXCEPT !.cur = n.arg]
                      [] n.do = "new"    -> [v EXCEPT !.cur = None]
                      [] n.do = "delete" -> [v EXCEPT !.pc = "delete", !.num = w.num]
                      [] n.do = "reload" -> [v EXCEPT !.pc = "reload"]
                      [] n.do = "sync"   -> Begin(v)
  BY DEF After
<1> HIDE DEF v
<1>4. Known(v, site) /\ v.next.do # "select"
  BY <1>1 DEF Known, Stay
<1>5. CASE n.do \in {"stay", "click", "new", "delete", "reload"}
  <2>1. After(w, n) \in {v, [v EXCEPT !.cur = n.arg], [v EXCEPT !.cur = None],
                         [v EXCEPT !.pc = "delete", !.num = w.num],
                         [v EXCEPT !.pc = "reload"]}
    BY <1>2, <1>3, <1>5
  <2>2. /\ After(w, n).list = v.list /\ After(w, n).sel = v.sel
        /\ After(w, n).eff = v.eff /\ After(w, n).next = v.next
        /\ After(w, n).pc \in {"idle", "delete", "reload"}
    BY <1>1, <2>1 DEF Window
  <2> QED
    BY <1>4, <2>2 DEF Known
<1>6. CASE n.do = "select"
  <2>1. After(w, n) = [v EXCEPT !.sel = n.arg, !.cur = None]
    BY <1>3, <1>6
  <2>2. /\ After(w, n).list = v.list /\ After(w, n).sel = n.arg
        /\ After(w, n).eff = v.eff /\ After(w, n).next = v.next
        /\ After(w, n).pc = "idle"
    BY <1>1, <2>1 DEF Window
  <2> QED
    BY <1>4, <1>6, <2>2 DEF Known
<1>7. CASE n.do = "sync"
  <2> DEFINE pc == IF v.sel # Local THEN "push"
                   ELSE IF Local \in db.project THEN "promote" ELSE "idle"
             eff == IF v.sel = Local THEN None ELSE v.sel
  <2>1. After(w, n) = [v EXCEPT !.eff = eff, !.pc = pc]
    BY <1>3, <1>7 DEF Begin
  <2>2. /\ pc # "migrate" /\ (pc = "promote" => Local \in db.project)
        /\ eff \in There(site) \cup {None}
    BY <1>1, <1>4, RemoteIds DEF Known, Ids
  <2> HIDE DEF pc, eff
  <2>3. /\ After(w, n).list = v.list /\ After(w, n).sel = v.sel
        /\ After(w, n).eff = eff /\ After(w, n).next = v.next
        /\ After(w, n).pc = pc
    BY <1>1, <2>1 DEF Window
  <2> QED
    BY <1>4, <2>2, <2>3 DEF Known
<1> QED
  BY <1>2, <1>5, <1>6, <1>7

LEMMA UnsavedKnown ==
  ASSUME NEW w \in Window, Known(w, site), w.sel \in ProjectId, NEW n \in Follow,
         n.do # "select"
  PROVE  /\ Known(Unsaved(w, n), site) /\ Unsaved(w, n).pc # "migrate"
         /\ Unsaved(w, n).pc = "promote" => Local \in db.project
<1> DEFINE v == After(w, n)
           u == [v EXCEPT !.dirty = w.dirty, !.val = w.val, !.code = w.code,
                          !.bad = w.bad]
<1>1. /\ Known(v, site) /\ v.pc # "migrate"
      /\ v.pc = "promote" => Local \in db.project
  BY AfterKnown
<1>2. Unsaved(w, n) = u
  BY DEF Unsaved
<1> HIDE DEF v
<1>3. /\ u.list = v.list /\ u.sel = v.sel /\ u.eff = v.eff /\ u.next = v.next
      /\ u.pc = v.pc
  OBVIOUS
<1> HIDE DEF u
<1>4. Known(u, site)
  BY <1>1, <1>3 DEF Known
<1> QED
  BY <1>1, <1>2, <1>3, <1>4

(* The editor is left, or saved first. *)
LEMMA GoQuiet ==
  ASSUME TInv, NEW w \in Window, Known(w, site), w.sel \in ProjectId,
         w.cur # None => db.row[w.cur].proj # None,
         NEW do, NEW arg, [do |-> do, arg |-> arg] \in Follow,
         do = "select" => arg \in Ids(site),
         Go(w, do, arg), site' = site
  PROVE  Quiet
<1> DEFINE n == [do |-> do, arg |-> arg]
           x == Typed(w)
           v == [w EXCEPT !.pc = "queue", !.next = n]
<1>0. n.do = do /\ n.arg = arg /\ n \in Follow
  OBVIOUS
<1>1. CASE w.dirty /\ w.cur # None /\ ~Refused(w)
  <2>1. db' = Write(db, w.cur, x) /\ disk' = db' /\ win' = v
    BY <1>1 DEF Go, Commit
  <2>2. w.cur \in Row /\ db.row[w.cur] \in Stored /\ w.val \in Nat
        /\ w.code \in Code \cup {None}
    BY <1>1, WindowFields, TInvFacts DEF Database
  <2>3. x \in Stored /\ x.proj = db.row[w.cur].proj
    <3> DEFINE c == IF w.code = None THEN db.row[w.cur].code ELSE w.code
    <3>1. c \in Code
      BY <2>2 DEF Stored
    <3>2. x = [db.row[w.cur] EXCEPT !.val = w.val, !.del = FALSE, !.code = c]
      BY DEF Typed
    <3> HIDE DEF c, x
    <3> QED
      BY <2>2, <3>1, <3>2 DEF Stored
  <2>4. /\ db'.project = db.project /\ db'.row[w.cur] = x
        /\ \A q \in Row \ {w.cur} : db'.row[q] = db.row[q]
    <3> HIDE DEF x
    <3> QED
      BY <2>1, <2>2, <2>3, TInvFacts, WriteFacts
  <2>5. \A q \in Row : db'.row[q].proj = db.row[q].proj
    BY <2>3, <2>4
  <2>6. /\ v.pc = "queue" /\ v.next = n /\ v.sel = w.sel /\ v.list = w.list
        /\ v.eff = w.eff
    <3> HIDE DEF n
    <3> QED
      BY DEF Window
  <2>7. Known(win', site) /\ win'.pc = "queue"
    <3> HIDE DEF n, v, x
    <3> QED
      BY <1>0, <2>1, <2>6 DEF Known
  <2> QED
    BY <2>1, <2>4, <2>5, <2>7 DEF Quiet
<1>2. CASE ~(w.dirty /\ w.cur # None)
  <2>1. win' = After(w, n) /\ db' = db /\ disk' = disk
    BY <1>2 DEF Go, store
  <2>2. /\ Known(win', site) /\ win'.pc # "migrate"
        /\ win'.pc = "promote" => Local \in db.project
    <3> HIDE DEF n
    <3> QED
      BY <1>0, <2>1, AfterKnown
  <2> QED
    BY <2>1, <2>2 DEF Quiet
<1>3. CASE w.dirty /\ w.cur # None /\ Refused(w)
  <2>1. /\ win' = (IF do \in {"stay", "sync", "delete"} THEN Unsaved(w, n)
                   ELSE After(w, n))
        /\ db' = db /\ disk' = disk
    BY <1>3 DEF Go, Leave, store
  <2>2. /\ Known(win', site) /\ win'.pc # "migrate"
        /\ win'.pc = "promote" => Local \in db.project
    <3> HIDE DEF n
    <3> QED
      BY <1>0, <2>1, AfterKnown, UnsavedKnown
  <2> QED
    BY <2>1, <2>2 DEF Quiet
<1> QED
  BY <1>1, <1>2, <1>3


(* What the invariant says of the window and the rows. *)
LEMMA IdsFacts ==
  ASSUME TInv, IdsInv
  PROVE  /\ Stocked(db, site) /\ Stocked(disk, site) /\ Known(win, site)
         /\ win.sel \in ProjectId => win.sel \in Ids(site)
         /\ win.eff \in Remote => win.eff \in There(site)
         /\ Local \in Ids(site) /\ There(site) \subseteq Ids(site)
  BY RemoteIds DEF IdsInv, Known, Ids

(* The editor and its rows. *)
LEMMA EditorQuiet ==
  ASSUME TInv, IdsInv,
         \/ TypeIn \/ Enqueue \/ Press \/ SoftDelete \/ QueueDelete \/ StartNew
         \/ LeaveLocal \/ \E p \in ProjectId : Select(p)
  PROVE  Quiet
<1>1. win.cur # None => db.row[win.cur].proj # None
  BY TInvFacts
<1>2. win.pc # "off" => win.sel \in ProjectId
  BY TInvFacts
<1>3. Known(win, site) /\ win \in Window
  BY TInvFacts, IdsFacts
<1>4. CASE TypeIn
  <2>0. PICK c \in Chosen \cup {None}, b \in BOOLEAN :
          win' = [win EXCEPT !.dirty = TRUE, !.val = ops + 1, !.code = c, !.bad = b]
    BY <1>4 DEF TypeIn
  <2> DEFINE w == [win EXCEPT !.dirty = TRUE, !.val = ops + 1, !.code = c, !.bad = b]
  <2>1. win' = w /\ win.pc = "idle" /\ UNCHANGED <<db, disk, site>>
    BY <1>4, <2>0 DEF TypeIn, store, server
  <2>2. /\ w.list = win.list /\ w.sel = win.sel /\ w.eff = win.eff
        /\ w.next = win.next /\ w.pc = "idle"
    BY <1>3, <2>1 DEF Window
  <2> HIDE DEF w
  <2>3. Known(win', site)
    BY <1>3, <2>1, <2>2 DEF Known
  <2> QED
    BY <2>1, <2>2, <2>3 DEF Quiet
<1>5. CASE Enqueue
  <2>1. /\ win.cur # None /\ win.cur \in Row /\ win.val \in Nat /\ win.pc = "queue"
        /\ win.next \in Follow /\ db.row[win.cur].proj # None
    BY <1>5, TInvFacts, WindowFields DEF Enqueue, WinOK
  <2>2. /\ db' = Queued(db, win.cur, win.val) /\ disk' = db'
        /\ win' = After(win, win.next) /\ site' = site
    BY <1>5 DEF Enqueue, Commit, server
  <2>3. db'.row = db.row /\ db'.project = db.project
    BY <2>1, <2>2, TInvFacts, QueuedFacts
  <2>4. win.next.do = "select" => win.next.arg \in Ids(site)
    BY <1>3 DEF Known
  <2>5. /\ Known(win', site) /\ win'.pc # "migrate"
        /\ win'.pc = "promote" => Local \in db.project
    BY <1>2, <1>3, <2>1, <2>2, <2>4, AfterKnown
  <2> QED
    BY <2>2, <2>3, <2>5 DEF Quiet
<1>6. CASE Press
  <2>1. win.sel \in ProjectId /\ site' = site
    BY <1>2, <1>6 DEF Press, server
  <2>3. ASSUME NEW r \in Row, Click(r) PROVE Quiet
    <3>1. CASE r = win.cur
      <4>1. win' = After(win, Stay) /\ db' = db /\ disk' = disk
        BY <2>3, <3>1 DEF Click, store
      <4>2. Stay \in Follow /\ Stay.do = "stay"
        BY DEF Stay, Follow
      <4>3. /\ Known(win', site) /\ win'.pc # "migrate"
            /\ win'.pc = "promote" => Local \in db.project
        BY <1>3, <2>1, <4>1, <4>2, AfterKnown
      <4> QED
        BY <2>1, <4>1, <4>3 DEF Quiet
    <3>2. CASE r # win.cur
      <4>1. Go(win, "click", r)
        BY <2>3, <3>2 DEF Click
      <4> QED
        BY <1>1, <1>3, <2>1, <4>1, FollowTypes, GoQuiet, TInvFacts
    <3> QED
      BY <3>1, <3>2
  <2>4. ASSUME NEW do \in {"new", "stay"}, Go(win, do, None) PROVE Quiet
    BY <1>1, <1>3, <2>1, <2>4, FollowTypes, GoQuiet, TInvFacts
  <2>5. \A r \in Shown : r \in Row
    BY DEF Shown
  <2> QED
    BY <1>6, <2>3, <2>4, <2>5 DEF Press
<1>7. CASE SoftDelete
  <2> DEFINE x == [db.row[win.cur] EXCEPT !.del = TRUE]
             w == [win EXCEPT !.pc = "drop"]
  <2>1. win.cur # None /\ win.cur \in Row /\ db.row[win.cur] \in Stored
    BY <1>7, TInvFacts DEF SoftDelete, WinOK
  <2>2. db' = Write(db, win.cur, x) /\ disk' = db' /\ win' = w /\ site' = site
    BY <1>7 DEF SoftDelete, Commit, server
  <2>3. x \in Stored /\ x.proj = db.row[win.cur].proj
    BY <2>1 DEF Stored
  <2>4. /\ w.list = win.list /\ w.sel = win.sel /\ w.eff = win.eff
        /\ w.next = win.next /\ w.pc = "drop"
    BY <1>3 DEF Window
  <2> HIDE DEF w, x
  <2>5. /\ db'.project = db.project /\ db'.row[win.cur] = x
        /\ \A q \in Row \ {win.cur} : db'.row[q] = db.row[q]
    BY <2>1, <2>2, <2>3, TInvFacts, WriteFacts
  <2>6. Known(win', site)
    BY <1>3, <2>2, <2>4 DEF Known
  <2>7. \A q \in Row : db'.row[q].proj = db.row[q].proj
    BY <2>3, <2>5
  <2> QED
    BY <2>2, <2>4, <2>5, <2>6, <2>7 DEF Quiet
<1>8. CASE QueueDelete
  <2> DEFINE w == [win EXCEPT !.pc = "renew", !.num = 0]
  <2>1. /\ win.cur # None /\ win.cur \in Row /\ db.row[win.cur].proj # None
        /\ win.num \in Nat
    BY <1>8, TInvFacts, WindowFields DEF QueueDelete, WinOK
  <2>2. /\ db' \in {Discarded(db, win.cur), Queued(db, win.cur, win.num)}
        /\ disk' = db' /\ win' = w /\ site' = site
    BY <1>8 DEF QueueDelete, Commit, server
  <2>3. db'.row = db.row /\ db'.project = db.project
    BY <2>1, <2>2, TInvFacts, QueuedFacts, DiscardedFacts
  <2>4. /\ w.list = win.list /\ w.sel = win.sel /\ w.eff = win.eff
        /\ w.next = win.next /\ w.pc = "renew"
    BY <1>3 DEF Window
  <2> HIDE DEF w
  <2>5. Known(win', site)
    BY <1>3, <2>2, <2>4 DEF Known
  <2> QED
    BY <2>2, <2>3, <2>4, <2>5 DEF Quiet
<1>9. CASE StartNew \/ LeaveLocal
  <2>1. /\ win.sel \in ProjectId /\ site' = site
        /\ Go(win, "new", None) \/ Go(win, "reload", None)
    BY <1>2, <1>9 DEF StartNew, LeaveLocal, server
  <2> QED
    BY <1>1, <1>3, <2>1, FollowTypes, GoQuiet, TInvFacts
<1>10. ASSUME NEW p \in ProjectId, Select(p) PROVE Quiet
  <2>1. /\ win.sel \in ProjectId /\ site' = site /\ p \in Ids(site)
        /\ Go(win, "select", p)
    BY <1>2, <1>3, <1>10 DEF Select, SelectProject, server, Known
  <2> QED
    BY <1>1, <1>3, <2>1, FollowTypes, GoQuiet, TInvFacts
<1> QED
  BY <1>4, <1>5, <1>6, <1>7, <1>8, <1>9, <1>10

(* Keys and buttons. *)
LEMMA KeyQuiet ==
  ASSUME TInv, NEW w \in Window, Known(w, site), w.sel \in ProjectId,
         NEW do \in {"delete", "sync"}, Key(w, do), site' = site
  PROVE  Quiet
<1> DEFINE n == [do |-> do, arg |-> None]
<1>1. n \in Follow /\ n.do # "select"
  BY FollowTypes
<1>2. win' = Unsaved(w, n) /\ db' = db /\ disk' = disk
  BY DEF Key, store
<1> HIDE DEF n
<1> QED
  BY <1>1, <1>2, UnsavedKnown DEF Quiet

LEMMA ButtonQuiet ==
  ASSUME TInv, IdsInv, PressDelete \/ PressSync
  PROVE  Quiet
<1>1. /\ Known(win, site) /\ win \in Window /\ win.sel \in ProjectId /\ site' = site
      /\ ops + 1 \in Nat
  BY TInvFacts, IdsFacts DEF PressDelete, PressSync, server
<1>2. win.cur # None => db.row[win.cur].proj # None
  BY TInvFacts
<1>3. CASE PressSync
  <2>1. Go(win, "sync", None) \/ Key(win, "sync")
    BY <1>3 DEF PressSync, Mouse
  <2> QED
    BY <1>1, <1>2, <2>1, FollowTypes, GoQuiet, KeyQuiet
<1>4. CASE PressDelete
  <2> DEFINE w == [win EXCEPT !.num = ops + 1]
  <2>1. /\ w \in Window /\ w.sel = win.sel /\ w.cur = win.cur /\ w.list = win.list
        /\ w.eff = win.eff /\ w.next = win.next
    BY <1>1 DEF Window
  <2>2. Go(w, "delete", None) \/ Key(w, "delete")
    BY <1>4 DEF PressDelete, Mouse
  <2> HIDE DEF w
  <2>3. Known(w, site)
    BY <1>1, <2>1 DEF Known
  <2> QED
    BY <1>1, <1>2, <2>1, <2>2, <2>3, FollowTypes, GoQuiet, KeyQuiet
<1> QED
  BY <1>3, <1>4


LEMMA CreateQuiet ==
  ASSUME TInv, IdsInv, NEW r \in Row, Create(r)
  PROVE  Quiet
<1>1. /\ win.pc = "idle" /\ win.sel \in ProjectId /\ win.sel \in Ids(site)
      /\ Known(win, site) /\ win \in Window /\ ops + 1 \in Nat /\ site' = site
  BY TInvFacts, IdsFacts DEF Create, server
<1>2. PICK c \in {NextCode(db, win.sel, Type[r])} \cup Chosen :
        LET x == [NoRow(r) EXCEPT !.proj = win.sel, !.code = c, !.val = ops + 1]
        IN \/ Leave(db) /\ UNCHANGED win
           \/ /\ Commit(Write(db, r, x))
              /\ win' = [win EXCEPT !.pc = "queue", !.cur = r, !.val = ops + 1]
  BY DEF Create
<1> DEFINE x == [NoRow(r) EXCEPT !.proj = win.sel, !.code = c, !.val = ops + 1]
           w == [win EXCEPT !.pc = "queue", !.cur = r, !.val = ops + 1]
<1>3. CASE Leave(db) /\ UNCHANGED win
  BY <1>1, <1>3 DEF Quiet, Leave
<1>4. CASE Commit(Write(db, r, x)) /\ win' = w
  <2>1. c \in Code
    BY NextCodeType, TInvFacts, LocalStoreAssumption, DesktopAssumption
  <2>2. x \in Stored /\ x.proj = win.sel
    BY <1>1, <2>1, NoRowType DEF Stored
  <2>3. /\ w.list = win.list /\ w.sel = win.sel /\ w.eff = win.eff
        /\ w.next = win.next /\ w.pc = "queue"
    BY <1>1 DEF Window
  <2> HIDE DEF x, w
  <2>4. /\ db'.project = db.project /\ db'.row[r] = x /\ disk' = db'
        /\ \A q \in Row \ {r} : db'.row[q] = db.row[q]
    BY <1>4, <2>2, TInvFacts, WriteFacts DEF Commit
  <2>5. \A q \in Row : db'.row[q].proj = db.row[q].proj \/ db'.row[q].proj \in Ids(site)
    BY <1>1, <2>2, <2>4
  <2>6. Known(win', site)
    BY <1>1, <1>4, <2>3 DEF Known
  <2> QED
    BY <1>1, <1>4, <2>3, <2>4, <2>5, <2>6 DEF Quiet
<1> QED
  BY <1>2, <1>3, <1>4

(* How the later steps of a sync leave the window. *)
LEMMA MovesKnown ==
  ASSUME TInv, IdsInv, Finish \/ Proceed("pull") \/ Proceed("moved")
  PROVE  Known(win', site) /\ win'.pc \in {"idle", "pull", "moved"}
<1>1. /\ win'.list = win.list /\ win'.sel = win.sel /\ win'.eff \in {win.eff, None}
      /\ win'.next = win.next /\ win'.pc \in {"idle", "pull", "moved"}
  BY TInvFacts DEF Finish, Proceed, Window
<1> QED
  BY <1>1, IdsFacts DEF Known

LEMMA PushQuiet ==
  ASSUME TInv, IdsInv, Push
  PROVE  Quiet
<1>1. site' = site /\ (Finish \/ Proceed("pull"))
  BY DEF Push
<1>2. (\E Q : Commit([db EXCEPT !.queue = Q])) \/ UNCHANGED store
  BY DEF Push
<1>3. db'.row = db.row /\ db'.project = db.project /\ disk' \in {disk, db'}
  BY <1>2, TInvFacts DEF Commit, store, Database
<1> QED
  BY <1>1, <1>3, MovesKnown DEF Quiet

LEMMA PushNothingQuiet ==
  ASSUME TInv, IdsInv, PushNothing
  PROVE  Quiet
<1>1. Proceed("pull") /\ UNCHANGED <<db, disk, site>>
  BY DEF PushNothing, store, server
<1> QED
  BY <1>1, MovesKnown DEF Quiet

LEMMA PullQuiet ==
  ASSUME TInv, IdsInv, Pull \/ PullClash \/ PullLost
  PROVE  Quiet
<1>1. /\ win.eff \in Remote /\ win.eff \in Ids(site) /\ site' = site
      /\ Finish \/ Proceed("moved")
  <2>1. win.eff \in Remote
    BY TInvFacts DEF Pull, PullClash, PullLost, WinOK
  <2>2. site' = site /\ (Finish \/ Proceed("moved"))
    BY DEF Pull, PullClash, PullLost, server
  <2> QED
    BY <2>1, <2>2, IdsFacts
<1>2. ASSUME NEW T \in SUBSET News(win.eff)
      PROVE  /\ With(T).project = db.project /\ With(T) \in Database
             /\ \A r \in Row : With(T).row[r].proj \in {db.row[r].proj} \cup Ids(site)
  BY <1>1, WithFacts
<1>3. CASE Pull
  <2> DEFINE m == [r \in Row |-> IF srow[r].proj = win.eff THEN srow[r].ver
                                 ELSE db.since[r]]
  <2>1. PICK d : d = With(News(win.eff))
    OBVIOUS
  <2>2. Commit([d EXCEPT !.since = m])
    BY <1>3, <2>1 DEF Pull
  <2>3. /\ d.project = db.project /\ d \in Database
        /\ \A r \in Row : d.row[r].proj \in {db.row[r].proj} \cup Ids(site)
    BY <1>2, <2>1
  <2> HIDE DEF m
  <2>4. db'.row = d.row /\ db'.project = d.project /\ disk' = db'
    BY <2>2, <2>3 DEF Commit, Database
  <2> QED
    BY <1>1, <2>3, <2>4, MovesKnown DEF Quiet
<1>4. CASE PullClash
  <2>1. PICK T \in SUBSET News(win.eff), O \in SUBSET News(win.eff) :
          db' = With(T) /\ disk' \in {disk, With(O)}
    BY <1>4 DEF PullClash
  <2>2. /\ db'.project = db.project
        /\ \A r \in Row : db'.row[r].proj \in {db.row[r].proj} \cup Ids(site)
    BY <1>2, <2>1
  <2>3. \/ disk' = disk
        \/ /\ disk'.project = db.project
           /\ \A r \in Row : disk'.row[r].proj \in {db.row[r].proj} \cup Ids(site)
    BY <1>2, <2>1
  <2> QED
    BY <1>1, <2>2, <2>3, MovesKnown DEF Quiet
<1>5. CASE PullLost
  <2>1. UNCHANGED store \/ \E T \in SUBSET News(win.eff) : Commit(With(T))
    BY <1>5 DEF PullLost
  <2>2. /\ db'.project = db.project /\ disk' \in {disk, db'}
        /\ \A r \in Row : db'.row[r].proj \in {db.row[r].proj} \cup Ids(site)
    BY <1>2, <2>1 DEF Commit, store
  <2> QED
    BY <1>1, <2>2, MovesKnown DEF Quiet
<1> QED
  BY <1>3, <1>4, <1>5

(* The steps that change neither the device nor the list of the server.    *)
LEMMA ElsewhereQuiet ==
  ASSUME IdsInv, OneInv, UNCHANGED <<db, disk, win, site>>, faults' = 0 => faults = 0
  PROVE  Kept
<1>1. IdsInv'
  BY DEF IdsInv, Stocked, Known, Ids, There
<1>2. OneInv'
  BY DEF OneInv, Single, Promoted
<1> QED
  BY <1>1, <1>2 DEF Kept


(* The server only gets more projects, one at a time.                      *)
LEMMA MadeFacts ==
  ASSUME NEW st \in [Remote -> {"none", "auto", "mine", "theirs"}],
         NEW kind \in {"auto", "mine", "theirs"}
  PROVE  /\ There(st) \subseteq There(Made(st, kind))
         /\ \A p \in Remote : Made(st, kind)[p] # st[p] =>
              /\ Made(st, kind)[p] = kind
              /\ \A q \in Remote \ {p} : Made(st, kind)[q] = st[q]
         /\ (\E p \in Remote : st[p] = "none") =>
              \E p \in Remote : st[p] = "none" /\ Made(st, kind)[p] = kind
<1> DEFINE c == CHOOSE p \in Remote : st[p] = "none"
<1>1. Made(st, kind) = [st EXCEPT ![c] = kind]
  BY DEF Made
<1>2. (\E p \in Remote : st[p] = "none") => c \in Remote /\ st[c] = "none"
  OBVIOUS
<1> HIDE DEF c
<1>3. \A p \in Remote : Made(st, kind)[p] = IF p = c THEN kind ELSE st[p]
  BY <1>1
<1> QED
  BY <1>2, <1>3 DEF There

LEMMA IdsGrow ==
  ASSUME NEW st, NEW new, There(st) \subseteq There(new)
  PROVE  /\ \A d : Stocked(d, st) => Stocked(d, new)
         /\ \A w : Known(w, st) => Known(w, new)
<1>1. Ids(st) \subseteq Ids(new)
  BY DEF Ids
<1> QED
  BY <1>1 DEF Stocked, Known

LEMMA ReloadKept == ASSUME TInv, IdsInv, OneInv, Reload PROVE Kept
<1>1. PICK P \in {db.project \cup There(site), db.project} :
        /\ Idle \/ Fault
        /\ Commit([db EXCEPT !.project = P])
        /\ win' = [win EXCEPT !.pc = "idle", !.list = P, !.sel = win.eff,
                              !.cur = None, !.eff = None]
  BY DEF Reload
<1>2. P \in SUBSET ProjectId
  BY TInvFacts DEF Database, There, ProjectId
<1>3. /\ db'.row = db.row /\ db'.project = P /\ disk' = db' /\ site' = site
  BY <1>1, <1>2, TInvFacts, AddedFacts DEF Commit, Reload, server
<1>4. /\ win.eff \in There(site) /\ win.pc = "reload" /\ win.next = Stay
      /\ Stocked(db, site)
  <2>1. win.eff \in Remote /\ win.pc = "reload" /\ win.next = Stay
    BY TInvFacts DEF WinOK, Reload
  <2> QED
    BY <2>1, IdsFacts
<1>5. /\ win'.pc = "idle" /\ win'.list = P /\ win'.sel = win.eff /\ win'.eff = None
      /\ win'.next = Stay
  BY <1>1, <1>4, TInvFacts DEF Window
<1>6. P \subseteq Ids(site) /\ db.project \subseteq P
  BY <1>4 DEF Stocked, Ids
<1>7. Stocked(db', site) /\ Stocked(disk', site) /\ Known(win', site)
  BY <1>3, <1>4, <1>5, <1>6 DEF Stocked, Known, Ids, Stay
<1>8. IdsInv'
  BY <1>3, <1>7 DEF IdsInv, Stocked, Known, Ids, There
<1>9. OneInv'
  <2> SUFFICES ASSUME faults' = 0
               PROVE  /\ Single(site)
                      /\ (\E p \in Remote : site[p] = "mine") =>
                           Promoted(db') /\ Promoted(disk')
    BY <1>3, <1>5 DEF OneInv, Single, Promoted
  <2>1. faults = 0
    BY <1>1, FaultsStay, TInvFacts
  <2>2. /\ Single(site)
        /\ (\E p \in Remote : site[p] = "mine") => Promoted(db)
    BY <1>4, <2>1 DEF OneInv
  <2>3. Local \notin There(site)
    BY RemoteIds DEF There
  <2> QED
    BY <1>1, <1>3, <1>6, <2>2, <2>3 DEF Promoted
<1> QED
  BY <1>8, <1>9 DEF Kept

LEMMA ExitKept ==
  ASSUME TInv, IdsInv, OneInv, Exit, faults' = 0 => faults = 0 /\ win.pc = "idle"
  PROVE  Kept
<1>1. db' = disk /\ disk' = disk /\ win' = Closed /\ site' = site
  BY DEF Exit, server
<1>2. Stocked(disk, site) /\ Known(Closed, site)
  BY DEF IdsInv, Known, Closed, Stay
<1>3. IdsInv'
  BY <1>1, <1>2 DEF IdsInv, Stocked, Known, Ids, There
<1>4. OneInv'
  <2> SUFFICES ASSUME faults' = 0
               PROVE  /\ Single(site)
                      /\ (\E p \in Remote : site[p] = "mine") => Promoted(disk)
    BY <1>1 DEF OneInv, Single, Promoted, Closed
  <2> QED
    BY DEF OneInv
<1> QED
  BY <1>3, <1>4 DEF Kept

(* No row is in the way of a promotion that made its project.              *)
LEMMA Unblocked ==
  ASSUME NEW d \in Database, NEW new \in Remote, \A r \in Row : d.row[r].proj # new
  PROVE  ~Blocked(d, new)
<1>1. ASSUME NEW r \in Row PROVE [d.row[r] EXCEPT !.proj = new].proj = new
  BY DEF Database, Stored
<1>2. ASSUME NEW r \in Row, NEW x, x.proj = new PROVE ~Clash(d, r, x)
  BY <1>2 DEF Clash, Rows
<1>3. ASSUME NEW r \in Row PROVE ~Clash(d, r, [d.row[r] EXCEPT !.proj = new])
  BY <1>1, <1>2
<1> QED
  BY <1>3 DEF Blocked, Obstructed, Rows

LEMMA MigrateKept == ASSUME TInv, IdsInv, OneInv, MigrateProject PROVE Kept
<1>1. /\ win.pc = "migrate" /\ win \in Window /\ win.eff \in Remote /\ win.next = Stay
      /\ site' = site /\ faults' = faults /\ win.fk \in BOOLEAN
  BY TInvFacts, WindowFields DEF MigrateProject, WinOK, server, Idle
<1>2. PICK new \in Remote, b \in BOOLEAN : new = win.eff /\ b = (win.fk /\ open)
  BY <1>1, TInvFacts
<1> DEFINE w == [win EXCEPT !.fk = b]
<1>3. IF Blocked(db, new)
      THEN Leave(HalfMoved(db, new)) /\ win' = [w EXCEPT !.pc = "idle", !.eff = None]
      ELSE Commit(Migrated(db, new)) /\ win' = [w EXCEPT !.pc = "push"]
  BY <1>1, <1>2 DEF MigrateProject
<1>4. /\ w.list = win.list /\ w.sel = win.sel /\ w.eff = win.eff /\ w.next = win.next
      /\ w \in Window
  BY <1>1 DEF Window
<1> HIDE DEF w
<1>5. /\ win'.list = win.list /\ win'.sel = win.sel /\ win'.eff \in {win.eff, None}
      /\ win'.next = win.next /\ win'.pc \in {"idle", "push"}
  BY <1>3, <1>4 DEF Window
<1>6. Known(win', site)
  BY <1>5, IdsFacts DEF Known
<1>7. new \in Ids(site) /\ Stocked(db, site) /\ Stocked(disk, site)
  BY <1>2, IdsFacts
<1>8. Stocked(db', site) /\ disk' \in {disk, db'}
  <2>1. /\ HalfMoved(db, new).project = db.project \cup {new}
        /\ Migrated(db, new).project = (db.project \cup {new}) \ {Local}
        /\ \A r \in Row : /\ Follows(db.row[r], HalfMoved(db, new).row[r], new)
                          /\ Follows(db.row[r], Migrated(db, new).row[r], new)
    BY TInvFacts, HalfMovedFacts, MigratedFacts
  <2>2. db' \in {HalfMoved(db, new), Migrated(db, new)} /\ disk' \in {disk, db'}
    BY <1>3 DEF Leave, Commit
  <2>3. /\ db'.project \subseteq db.project \cup {new}
        /\ \A r \in Row : Follows(db.row[r], db'.row[r], new)
    BY <2>1, <2>2
  <2> QED
    BY <1>7, <2>2, <2>3 DEF Stocked, Follows
<1>9. IdsInv'
  BY <1>1, <1>6, <1>7, <1>8 DEF IdsInv, Stocked, Known, Ids, There
<1>10. OneInv'
  <2> SUFFICES ASSUME faults = 0
               PROVE  /\ Single(site)
                      /\ (\E p \in Remote : site[p] = "mine") =>
                           Promoted(db') /\ Promoted(disk')
    BY <1>1, <1>5 DEF OneInv, Single, Promoted
  <2>1. Single(site)
    BY DEF OneInv
  <2>2. ASSUME NEW p \in Remote, site[p] = "mine" PROVE Promoted(db') /\ Promoted(disk')
    <3>1. \A r \in Row : db.row[r].proj # new
      BY <1>1, <1>2, <2>2 DEF OneInv
    <3>2. ~Blocked(db, new)
      BY <3>1, TInvFacts, Unblocked
    <3>3. db' = Migrated(db, new) /\ disk' = db'
      BY <1>3, <3>2 DEF Commit
    <3>4. db'.project = (db.project \cup {new}) \ {Local} /\ new # Local
      BY <3>3, TInvFacts, MigratedFacts, RemoteIds
    <3> QED
      BY <3>3, <3>4 DEF Promoted
  <2> QED
    BY <2>1, <2>2
<1> QED
  BY <1>9, <1>10 DEF Kept


(* list_projects makes a project only when there is none.                  *)
LEMMA ListedFacts ==
  ASSUME TInv
  PROVE  /\ There(site) \subseteq There(Listed)
         /\ \A p \in Remote : Listed[p] = "mine" => site[p] = "mine"
         /\ Single(site) => Single(Listed)
<1>1. site \in [Remote -> {"none", "auto", "mine", "theirs"}]
  BY DEF TInv, TypeOK
<1>2. CASE There(site) # {}
  BY <1>2 DEF Listed
<1>3. CASE There(site) = {}
  <2>1. Listed = Made(site, "auto") /\ \A p \in Remote : site[p] = "none"
    BY <1>3 DEF Listed, There
  <2>2. \A p \in Remote : Listed[p] # "none" =>
          Listed[p] = "auto" /\ \A q \in Remote \ {p} : Listed[q] = "none"
    BY <1>1, <2>1, MadeFacts
  <2>3. Single(Listed)
    BY <2>2 DEF Single, Own
  <2> QED
    BY <1>3, <2>2, <2>3
<1> QED
  BY <1>2, <1>3

(* The window opens on the projects there are, or on a local one.          *)
LEMMA OpenFacts ==
  ASSUME TInv, NEW on \in BOOLEAN, NEW known \in SUBSET Remote, Open(on, known)
  PROVE  /\ db'.row = db.row /\ disk' = db' /\ win'.pc = "idle"
         /\ db'.project = IF db.project \cup known # {} THEN db.project \cup known
                          ELSE {Local}
         /\ win'.list = db'.project /\ win'.sel \in db'.project
         /\ win'.eff = None /\ win'.next = Stay
<1> DEFINE P == db.project \cup known
           w == [Closed EXCEPT !.pc = "idle", !.online = on, !.list = P]
<1>1. P \in SUBSET ProjectId /\ {Local} \in SUBSET ProjectId
  BY TInvFacts DEF Database, ProjectId
<1>2. CASE P # {}
  <2>1. Commit([db EXCEPT !.project = P]) /\ \E p \in P : win' = [w EXCEPT !.sel = p]
    BY <1>2 DEF Open
  <2>2. PICK p \in P : win' = [w EXCEPT !.sel = p]
    BY <2>1
  <2>3. /\ win'.pc = "idle" /\ win'.list = P /\ win'.sel = p /\ win'.eff = None
        /\ win'.next = Stay
    BY <2>2 DEF Closed
  <2> HIDE DEF P, w
  <2>4. db'.row = db.row /\ db'.project = P /\ disk' = db'
    BY <1>1, <2>1, TInvFacts, AddedFacts DEF Commit
  <2> QED
    BY <1>2, <2>3, <2>4 DEF P
<1>3. CASE P = {}
  <2>1. /\ Commit([db EXCEPT !.project = {Local}])
        /\ win' = [w EXCEPT !.sel = Local, !.list = {Local}]
    BY <1>3 DEF Open
  <2>2. /\ win'.pc = "idle" /\ win'.list = {Local} /\ win'.sel = Local
        /\ win'.eff = None /\ win'.next = Stay
    BY <2>1 DEF Closed
  <2> HIDE DEF P, w
  <2>3. db'.row = db.row /\ db'.project = {Local} /\ disk' = db'
    BY <1>1, <2>1, TInvFacts, AddedFacts DEF Commit
  <2> QED
    BY <1>3, <2>2, <2>3 DEF P
<1> QED
  BY <1>2, <1>3

LEMMA StartKept == ASSUME TInv, IdsInv, OneInv, Start PROVE Kept
<1>1. PICK on \in BOOLEAN, known \in SUBSET Remote :
        /\ Open(on, known) /\ site' \in {site, Listed}
        /\ known \subseteq There(site')
        /\ faults' = 0 => faults = 0
  <2>1. \/ Open(FALSE, {}) /\ Idle /\ site' = site
        \/ Open(TRUE, There(Listed)) /\ Idle /\ site' = Listed
        \/ Open(TRUE, {}) /\ Fault /\ site' \in {site, Listed}
    BY DEF Start
  <2>2. There(Listed) \in SUBSET Remote /\ {} \in SUBSET Remote
    BY DEF There
  <2>3. faults' = 0 => faults = 0
    BY <2>1, FaultsStay, TInvFacts
  <2> QED
    BY <2>1, <2>2, <2>3
<1>2. /\ db'.row = db.row /\ disk' = db' /\ win'.pc = "idle"
      /\ db'.project = IF db.project \cup known # {} THEN db.project \cup known
                       ELSE {Local}
      /\ win'.list = db'.project /\ win'.sel \in db'.project
      /\ win'.eff = None /\ win'.next = Stay
  BY <1>1, OpenFacts
<1>3. PICK new : new = site'
  OBVIOUS
<1>4. There(site) \subseteq There(new) /\ Stocked(db, new) /\ known \subseteq There(new)
  BY <1>1, <1>3, ListedFacts, IdsGrow DEF IdsInv, There
<1>5. Stocked(db', new) /\ Stocked(disk', new) /\ Known(win', new)
  BY <1>2, <1>4 DEF Stocked, Known, Ids, Stay
<1>6. IdsInv'
  BY <1>3, <1>5 DEF IdsInv, Stocked, Known, Ids, There
<1>7. OneInv'
  <2> SUFFICES ASSUME faults' = 0
               PROVE  /\ Single(new)
                      /\ (\E p \in Remote : new[p] = "mine") =>
                           Promoted(db') /\ Promoted(disk')
    BY <1>2, <1>3 DEF OneInv, Single, Promoted
  <2>1. /\ Single(site) /\ win.pc = "off"
        /\ (\E p \in Remote : site[p] = "mine") => Promoted(db)
    BY <1>1 DEF OneInv, Start
  <2>2. Single(new) /\ \A p \in Remote : new[p] = "mine" => site[p] = "mine"
    BY <1>1, <1>3, <2>1, ListedFacts
  <2>3. Local \notin known
    BY <1>1, RemoteIds
  <2> QED
    BY <1>2, <2>1, <2>2, <2>3 DEF Promoted
<1> QED
  BY <1>6, <1>7 DEF Kept

(* A promotion makes a project only when list_projects made none, and      *)
(* nothing on the device can be in it yet.                                 *)
LEMMA PromoteKept == ASSUME TInv, IdsInv, OneInv, Promote PROVE Kept
<1>0. /\ site \in [Remote -> {"none", "auto", "mine", "theirs"}]
      /\ Listed \in [Remote -> {"none", "auto", "mine", "theirs"}]
  BY TInvFacts, ListedType DEF TypeOK
<1>1. /\ UNCHANGED <<db, disk>> /\ win.pc = "promote" /\ win \in Window
      /\ Idle \/ Fault
  BY TInvFacts DEF Promote, store
<1>2. \/ Found(Listed) /\ Idle
      \/ /\ Fault
         /\ \E st \in {site, Listed} :
              \/ /\ site' = Made(st, "mine")
                 /\ \E p \in Remote : st[p] = "none" /\ site'[p] = "mine"
                      /\ win' = [win EXCEPT !.pc = "migrate", !.eff = p]
              \/ site' \in {st, Made(st, "mine")} /\ Finish
  BY DEF Promote
<1>3. PICK new : new = site'
  OBVIOUS
<1>4. There(site) \subseteq There(new)
  <2>1. new \in {site, Listed, Made(site, "mine"), Made(Listed, "mine")}
    BY <1>2, <1>3 DEF Found
  <2> QED
    BY <1>0, <2>1, ListedFacts, MadeFacts
<1>5. \/ Finish
      \/ \E p \in There(new) : win' = [win EXCEPT !.pc = "migrate", !.eff = p]
  BY <1>2, <1>3 DEF Found, Reusable, There
<1>6. /\ win'.list = win.list /\ win'.sel = win.sel /\ win'.next = win.next
      /\ win'.eff \in There(new) \cup {None}
  BY <1>1, <1>5 DEF Finish, Window
<1>7. Stocked(db, new) /\ Stocked(disk, new) /\ Known(win', new)
  <2>1. Stocked(db, new) /\ Stocked(disk, new) /\ Known(win, new)
    BY <1>4, IdsGrow DEF IdsInv
  <2> QED
    BY <1>6, <2>1 DEF Known
<1>8. IdsInv'
  BY <1>1, <1>3, <1>7 DEF IdsInv, Stocked, Known, Ids, There
<1>9. OneInv'
  <2> SUFFICES ASSUME faults' = 0
               PROVE  /\ Single(new) /\ win'.pc = "migrate"
                      /\ (\E p \in Remote : new[p] = "mine") =>
                           /\ new[win'.eff] = "mine"
                           /\ \A r \in Row : db.row[r].proj # win'.eff
    BY <1>1, <1>3 DEF OneInv, Single
  <2>1. faults = 0 /\ Found(Listed)
    BY <1>1, <1>2, FaultsStay, TInvFacts
  <2>2. Single(site) /\ \A p \in Remote : site[p] # "mine"
    BY <1>1, <2>1 DEF OneInv
  <2>3. Single(Listed) /\ \A p \in Remote : Listed[p] # "mine"
    BY <2>2, ListedFacts
  <2>4. PICK p \in Remote :
          /\ IF Reusable(Listed) # {} THEN p \in Reusable(Listed) /\ new = Listed
             ELSE Listed[p] = "none" /\ new = Made(Listed, "mine") /\ new[p] = "mine"
          /\ win' = [win EXCEPT !.pc = "migrate", !.eff = p]
    BY <1>3, <2>1 DEF Found
  <2>5. win'.pc = "migrate" /\ win'.eff = p
    BY <1>1, <2>4 DEF Window
  <2>6. CASE Reusable(Listed) # {}
    BY <2>3, <2>4, <2>5, <2>6
  <2>7. CASE Reusable(Listed) = {}
    <3>1. Listed[p] = "none" /\ new = Made(Listed, "mine") /\ new[p] = "mine"
      BY <2>4, <2>7
    <3>2. \A q \in Remote \ {p} : new[q] = Listed[q]
      BY <1>0, <3>1, MadeFacts
    <3>3. ASSUME NEW q \in Remote, Listed[q] = "auto" PROVE FALSE
      <4>1. There(Listed) = {q}
        BY <2>3, <3>3 DEF There, Single
      <4> QED
        BY <2>7, <3>3, <4>1 DEF Reusable
    <3>4. Single(new)
      BY <2>3, <3>1, <3>2, <3>3 DEF Single, Own
    <3>5. p \notin Ids(site) \cup {None}
      BY <3>1, ListedFacts, RemoteIds DEF Ids, There
    <3>6. \A r \in Row : db.row[r].proj # p
      BY <3>5 DEF IdsInv, Stocked
    <3> QED
      BY <2>5, <3>1, <3>4, <3>6
  <2> QED
    BY <2>6, <2>7
<1> QED
  BY <1>8, <1>9 DEF Kept


LEMMA InitKept == Init => IdsInv /\ OneInv
<1> SUFFICES ASSUME Init PROVE IdsInv /\ OneInv
  OBVIOUS
<1> DEFINE none == [p \in Remote |-> "none"]
<1>1. /\ site \in {none, Made(none, "theirs")} /\ win = Closed
      /\ db = [project |-> {}, row |-> [r \in Row |-> NoRow(r)], queue |-> {},
               since |-> [r \in Row |-> 0]]
      /\ disk = db
  BY DEF Init, StoreInit
<1>2. \A p \in Remote : site[p] \in {"none", "theirs"}
  <2>1. none \in [Remote -> {"none", "auto", "mine", "theirs"}]
    OBVIOUS
  <2>2. \A p \in Remote : Made(none, "theirs")[p] # none[p] =>
                            Made(none, "theirs")[p] = "theirs"
    <3> HIDE DEF none
    <3> QED
      BY <2>1, MadeFacts
  <2> QED
    BY <1>1, <2>2
<1>3. \A r \in Row : db.row[r].proj = None
  BY <1>1, NoRowType
<1>4. IdsInv
  BY <1>1, <1>3 DEF IdsInv, Stocked, Known, Closed, Stay
<1>5. OneInv
  BY <1>2 DEF OneInv, Single, Own
<1> QED
  BY <1>4, <1>5

LEMMA NextKept == ASSUME TInv, IdsInv, OneInv, [Next]_vars PROVE Kept
<1>0. TypeOK
  BY DEF TInv
<1>1. CASE \/ TypeIn \/ Enqueue \/ Press \/ SoftDelete \/ QueueDelete \/ StartNew
           \/ LeaveLocal \/ \E p \in ProjectId : Select(p)
  <2>1. Quiet
    BY <1>1, EditorQuiet
  <2>2. win.pc # "migrate"
    BY <1>1 DEF TypeIn, Enqueue, Press, SoftDelete, QueueDelete, StartNew, LeaveLocal,
                Select
  <2>3. faults' = 0 => faults = 0
    BY <1>0, <1>1, FaultsStay
       DEF TypeIn, Enqueue, Press, SoftDelete, QueueDelete, StartNew, LeaveLocal, Select
  <2> QED
    BY <2>1, <2>2, <2>3, QuietStep
<1>2. CASE PressDelete \/ PressSync
  <2>1. Quiet
    BY <1>2, ButtonQuiet
  <2>2. win.pc # "migrate"
    BY <1>2 DEF PressDelete, PressSync
  <2>3. faults' = 0 => faults = 0
    BY <1>0, <1>2, FaultsStay DEF PressDelete, PressSync
  <2> QED
    BY <2>1, <2>2, <2>3, QuietStep
<1>3. ASSUME NEW r \in Row, Create(r) PROVE Kept
  <2>1. Quiet
    BY <1>3, CreateQuiet
  <2>2. win.pc # "migrate" /\ (faults' = 0 => faults = 0)
    BY <1>0, <1>3, FaultsStay DEF Create
  <2> QED
    BY <2>1, <2>2, QuietStep
<1>4. ASSUME NEW r \in Row, Elsewhere(r) PROVE Kept
  <2>1. UNCHANGED <<db, disk, win, site>>
    BY <1>4 DEF Elsewhere, store
  <2>2. faults' = 0 => faults = 0
    BY <1>0, <1>4, FaultsStay DEF Elsewhere
  <2> QED
    BY <2>1, <2>2, ElsewhereQuiet
<1>5. CASE Push \/ PushNothing \/ Pull \/ PullClash \/ PullLost
  <2>1. Quiet
    BY <1>5, PushQuiet, PushNothingQuiet, PullQuiet
  <2>2. win.pc # "migrate"
    BY <1>5 DEF Push, PushNothing, Pull, PullClash, PullLost
  <2>3. Idle \/ Fault
    BY <1>5 DEF Push, PushNothing, Pull, PullClash, PullLost
  <2> QED
    BY <1>0, <2>1, <2>2, <2>3, FaultsStay, QuietStep
<1>6. CASE Start
  BY <1>6, StartKept
<1>7. CASE Quit \/ Crash
  <2>1. Exit
    BY <1>7 DEF Quit, Crash
  <2>2. faults' = 0 => faults = 0 /\ win.pc = "idle"
    BY <1>0, <1>7, FaultsStay DEF Quit, Crash, Idle
  <2> QED
    BY <2>1, <2>2, ExitKept
<1>8. CASE Promote \/ MigrateProject \/ Reload
  BY <1>8, PromoteKept, MigrateKept, ReloadKept
<1>9. CASE UNCHANGED vars
  <2>1. UNCHANGED <<db, disk, win, site, faults>>
    BY <1>9 DEF vars, store, server
  <2> QED
    BY <2>1, ElsewhereQuiet
<1> QED
  BY <1>1, <1>2, <1>3, <1>4, <1>5, <1>6, <1>7, <1>8, <1>9 DEF Next, Program

(* As long as no call fails and the program does not die, first runs,      *)
(* promotions, quitting and starting again in any order make one project   *)
(* on the server between them: a promotion takes over the project that     *)
(* list_projects made, or makes one when there is none to take over, and   *)
(* what it made is never promoted into a second time.                      *)
THEOREM OneProject == Spec => []OneProjectMade
<1>1. TInv /\ IdsInv /\ OneInv /\ [Next]_vars => (IdsInv /\ OneInv)'
  BY NextKept DEF Kept
<1>2. Spec => [](IdsInv /\ OneInv)
  BY <1>1, InvariantHolds, InitKept, PTL DEF Spec
<1>3. OneInv => OneProjectMade
  <2> SUFFICES ASSUME OneInv, faults = 0
               PROVE  Cardinality({p \in Remote : site[p] \in {"auto", "mine"}}) <= 1
    BY DEF OneProjectMade
  <2> DEFINE S == {p \in Remote : site[p] \in {"auto", "mine"}}
  <2>1. \A p, q \in S : p = q
    BY DEF OneInv, Single, Own
  <2>2. S = {} \/ \E p : S = {p}
    BY <2>1
  <2> HIDE DEF S
  <2>3. CASE S = {}
    BY <2>3, FS_EmptySet DEF S
  <2>4. CASE \E p : S = {p}
    <3>1. PICK p : S = {p}
      BY <2>4
    <3>2. Cardinality({p}) = 1
      BY FS_Singleton
    <3> QED
      BY <3>1, <3>2 DEF S
  <2> QED
    BY <2>2, <2>3, <2>4
<1> QED
  BY <1>2, <1>3, PTL

==============================================================================
