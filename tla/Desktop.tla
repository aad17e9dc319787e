------------------------------- MODULE Desktop --------------------------------
(***************************************************************************)
(* One desktop program at work: its window (ui_v2/mixins), the editor of   *)
(* the selected item, the projects of OfflineFirstBackend, and sync with   *)
(* the promotion of a project that was made offline.  One thread does all  *)
(* of it; a step ends where something is committed or sent, so that the    *)
(* program can die, and other devices can work, in between.  What a push   *)
(* and a pull do to one row over several devices is in RiskSync.           *)
(*                                                                         *)
(*   win     the window: pc, what is under way; next, what follows when    *)
(*           the editor has been saved; online; list, the projects on      *)
(*           display; sel, the selected one; cur, the row in the editor;   *)
(*           dirty: text (val), a code (None: as it was) and whether the   *)
(*           program will refuse them (bad) were typed; num, the number of *)
(*           a deletion; eff, the server project of this sync; fk, foreign *)
(*           keys are enforced on its connection                           *)
(*   site    the server's projects: none, auto (made by list_projects),    *)
(*           mine (made by a promotion), theirs                            *)
(*   srow    the server's rows;  receipts  ids of changes it has processed *)
(*   clashed a unique index has refused a change of the server, a change   *)
(*           pushed to it, or a migration                                  *)
(*   torn    rows whose last save was cut off before it was queued         *)
(*   ops, faults   bound the model; ops also numbers what is typed         *)
(***************************************************************************)
EXTENDS LocalStore

CONSTANTS
  Chosen,             \* codes people type
  MaxOps, MaxFaults   \* bounds of the model

ASSUME DesktopAssumption ==
  Chosen \subseteq Code /\ MaxOps \in Nat /\ MaxFaults \in Nat

VARIABLES win, site, srow, receipts, clashed, torn, ops, faults

server == <<site, srow, receipts>>
marks == <<clashed, torn>>
vars == <<store, win, server, marks, ops, faults>>

Follow == [do : {"stay", "select", "click", "new", "sync", "delete", "reload"},
           arg : ProjectId \cup Row \cup {None}]
Window ==
  [pc : {"off", "idle", "queue", "delete", "drop", "renew", "promote",
         "migrate", "push", "pull", "moved", "reload"},
   next : Follow, online : BOOLEAN, list : SUBSET ProjectId,
   sel : ProjectId \cup {None}, cur : Row \cup {None}, dirty : BOOLEAN,
   val : Nat, code : Code \cup {None}, bad : BOOLEAN, num : Nat,
   eff : ProjectId \cup {None}, fk : BOOLEAN]

Stay == [do |-> "stay", arg |-> None]
Closed == [pc |-> "off", next |-> Stay, online |-> FALSE, list |-> {},
           sel |-> None, cur |-> None, dirty |-> FALSE, val |-> 0,
           code |-> None, bad |-> FALSE, num |-> 0, eff |-> None, fk |-> TRUE]

TypeOK ==
  /\ db \in Database /\ disk \in Database /\ open \in BOOLEAN
  /\ win \in Window
  /\ site \in [Remote -> {"none", "auto", "mine", "theirs"}]
  /\ srow \in [Row -> Stored]
  /\ receipts \in SUBSET Nat
  /\ clashed \in BOOLEAN /\ torn \in SUBSET Row /\ ops \in Nat /\ faults \in Nat

Count == ops < MaxOps /\ ops' = ops + 1 /\ UNCHANGED faults
Fault == faults < MaxFaults /\ faults' = faults + 1 /\ UNCHANGED ops
Idle  == UNCHANGED <<ops, faults>>

-----------------------------------------------------------------------------
(* The editor. *)

(* The tables show the rows of the selected project, and go on showing     *)
(* them after a sync that promoted it and failed.                          *)
Shown ==
  {r \in Row : /\ ~db.row[r].del
               /\ \/ db.row[r].proj = win.sel
                  \/ /\ win.sel = Local /\ Local \notin db.project
                     /\ db.row[r].proj \in Remote}

(* Sync begins with the promotion of a local project; one that was         *)
(* promoted by a sync that failed later is not found any more.             *)
Begin(w) ==
  [w EXCEPT !.eff = IF w.sel = Local THEN None ELSE w.sel,
            !.pc = IF w.sel # Local THEN "push"
                   ELSE IF Local \in db.project THEN "promote" ELSE "idle"]

(* The editor has been left, for what the user has pressed. *)
After(w, n) ==
  LET v == [w EXCEPT !.dirty = FALSE, !.val = 0, !.code = None, !.bad = FALSE,
                     !.num = 0, !.next = Stay, !.pc = "idle"]
  IN CASE n.do = "stay"   -> v
       [] n.do = "select" -> [v EXCEPT !.sel = n.arg, !.cur = None]
       [] n.do = "click"  -> [v EXCEPT !.cur = n.arg]
       [] n.do = "new"    -> [v EXCEPT !.cur = None]
       [] n.do = "delete" -> [v EXCEPT !.pc = "delete", !.num = w.num]
       [] n.do = "reload" -> [v EXCEPT !.pc = "reload"]
       [] n.do = "sync"   -> Begin(v)

(* The same, and what was typed stays in the editor. *)
Unsaved(w, n) ==
  [After(w, n) EXCEPT !.dirty = w.dirty, !.val = w.val, !.code = w.code,
                      !.bad = w.bad]

(* The row with what was typed. *)
Typed(w) ==
  LET old == db.row[w.cur]
  IN [old EXCEPT !.val = w.val, !.del = FALSE,
                 !.code = IF w.code = None THEN old.code ELSE w.code]

(* No title, the status "deleted" of somebody who may not set it, or a     *)
(* code that another row has.                                              *)
Refused(w) == w.bad \/ Clash(db, w.cur, Typed(w))

(* _commit_entity_editor_changes: what was typed is written, and queued in *)
(* a commit of its own.  When it is refused, what was pressed happens all  *)
(* the same: the text is gone if that leaves the item.                     *)
Go(w, do, arg) ==
  LET n == [do |-> do, arg |-> arg]
      still == do \in {"stay", "sync", "delete"}
  IN CASE ~w.dirty \/ w.cur = None ->
            win' = After(w, n) /\ UNCHANGED store
       [] w.dirty /\ w.cur # None /\ Refused(w) ->
            /\ win' = IF still THEN Unsaved(w, n) ELSE After(w, n)
            /\ IF w.bad THEN UNCHANGED store ELSE Leave(db)
       [] w.dirty /\ w.cur # None /\ ~Refused(w) ->
            /\ Commit(Write(db, w.cur, Typed(w)))
            /\ win' = [w EXCEPT !.pc = "queue", !.next = n]

Enqueue ==
  /\ win.pc = "queue"
  /\ Commit(Queued(db, win.cur, win.val))
  /\ win' = After(win, win.next)
  /\ torn' = torn \ {win.cur}
  /\ Idle /\ UNCHANGED <<server, clashed>>

TypeIn ==
  /\ win.pc = "idle" /\ win.cur # None
  /\ Count
  /\ \E c \in Chosen \cup {None}, b \in BOOLEAN :
       win' = [win EXCEPT !.dirty = TRUE, !.val = ops + 1, !.code = c, !.bad = b]
  /\ UNCHANGED <<store, server, marks>>

(* Mutant of SelectProject: the editor is left without saving. *)
SelectUnsaved(p) ==
  win' = After(win, [do |-> "select", arg |-> p]) /\ UNCHANGED store

(* _on_project_selected *)
SelectProject(p) == Go(win, "select", p)

(* _on_entity_clicked: the row that is in the editor is loaded again, over *)
(* what was typed.                                                         *)
Click(r) ==
  IF r = win.cur THEN win' = After(win, Stay) /\ UNCHANGED store
  ELSE Go(win, "click", r)

Select(p) ==
  /\ win.pc = "idle" /\ p \in win.list \ {win.sel}
  /\ SelectProject(p)
  /\ Idle /\ UNCHANGED <<server, marks>>

Press ==
  /\ win.pc = "idle"
  /\ \/ \E r \in Shown : Click(r)
     \/ Go(win, "new", None) \/ Go(win, "stay", None)
  /\ Idle /\ UNCHANGED <<server, marks>>

(* A click on a button outside the editor, or in a dialog, saves first     *)
(* (eventFilter); a key does not.                                          *)
Mouse(w, do) == Go(w, do, None)
Key(w, do) ==
  win' = Unsaved(w, [do |-> do, arg |-> None]) /\ UNCHANGED store

PressDelete ==
  /\ win.pc = "idle" /\ win.cur # None
  /\ Count
  /\ LET w == [win EXCEPT !.num = ops + 1]
     IN Mouse(w, "delete") \/ Key(w, "delete")
  /\ UNCHANGED <<server, marks>>

PressSync ==
  /\ win.pc = "idle" /\ win.online
  /\ Mouse(win, "sync") \/ Key(win, "sync")
  /\ Idle /\ UNCHANGED <<server, marks>>

(* Ids are made at random: an item takes a row that nobody has used. *)
Free(r) == db.row[r].proj = None /\ srow[r].proj = None
Fresh(r) == Free(r) /\ r = CHOOSE q \in Row : Free(q) /\ Type[q] = Type[r]

(* _save_entity of a new item, with a code or without.  A code in use is   *)
(* refused, and a project that has gone unless foreign keys are off.       *)
Create(r) ==
  /\ win.pc = "idle" /\ win.cur = None
  /\ Fresh(r)
  /\ Count
  /\ \E c \in {NextCode(db, win.sel, Type[r])} \cup Chosen :
       LET x == [NoRow(r) EXCEPT !.proj = win.sel, !.code = c, !.val = ops + 1]
       IN IF Clash(db, r, x) \/ (win.sel \notin db.project /\ win.fk)
          THEN Leave(db) /\ UNCHANGED win
          ELSE /\ Commit(Write(db, r, x))
               /\ win' = [win EXCEPT !.pc = "queue", !.cur = r, !.val = ops + 1]
  /\ UNCHANGED <<server, marks>>

(* delete, in two commits; then the editor is left as for a new item. *)
SoftDelete ==
  /\ win.pc = "delete"
  /\ Commit(Write(db, win.cur, [db.row[win.cur] EXCEPT !.del = TRUE]))
  /\ win' = [win EXCEPT !.pc = "drop"]
  /\ Idle /\ UNCHANGED <<server, marks>>

QueueDelete ==
  /\ win.pc = "drop"
  /\ Commit(IF db.row[win.cur].ver < 1 THEN Discarded(db, win.cur)
            ELSE Queued(db, win.cur, win.num))
  /\ win' = [win EXCEPT !.pc = "renew", !.num = 0]
  /\ torn' = torn \ {win.cur}
  /\ Idle /\ UNCHANGED <<server, clashed>>

StartNew ==
  /\ win.pc = "renew"
  /\ Go(win, "new", None)
  /\ Idle /\ UNCHANGED <<server, marks>>

-----------------------------------------------------------------------------
(* Projects. *)

There(st) == {p \in Remote : st[p] # "none"}
Made(st, kind) ==
  [st EXCEPT ![CHOOSE p \in Remote : st[p] = "none"] = kind]

(* ApiBackend.list_projects: an empty list makes it create a project. *)
Listed == IF There(site) = {} THEN Made(site, "auto") ELSE site

(* build_main_window and OfflineFirstBackend.list_projects, which passes   *)
(* over a server that fails.                                               *)
Open(on, known) ==
  LET P == db.project \cup known
      w == [Closed EXCEPT !.pc = "idle", !.online = on, !.list = P]
  IN IF P # {}
     THEN /\ Commit([db EXCEPT !.project = P])
          /\ \E p \in P : win' = [w EXCEPT !.sel = p]
     ELSE /\ Commit([db EXCEPT !.project = {Local}])
          /\ win' = [w EXCEPT !.sel = Local, !.list = {Local}]

Start ==
  /\ win.pc = "off"
  /\ \/ Open(FALSE, {}) /\ Idle /\ UNCHANGED site
     \/ Open(TRUE, There(Listed)) /\ Idle /\ site' = Listed
     \/ Open(TRUE, {}) /\ Fault /\ site' \in {site, Listed}
  /\ UNCHANGED <<srow, receipts, marks>>

(* The program ends: what was not committed is rolled back. *)
Exit ==
  /\ db' = disk /\ open' = FALSE /\ win' = Closed
  /\ UNCHANGED <<disk, server, clashed>>

Quit == win.pc = "idle" /\ Exit /\ Idle /\ UNCHANGED torn

Crash ==
  /\ win.pc # "off"
  /\ Exit /\ Fault
  /\ torn' = IF win.pc \in {"queue", "drop"} THEN torn \cup {win.cur} ELSE torn

-----------------------------------------------------------------------------
(* Sync. *)

(* It is over, or raises: the window stays as it is. *)
Finish == win' = [win EXCEPT !.pc = "idle", !.eff = None]
Proceed(pc) == win' = [win EXCEPT !.pc = pc]

(* Mutant of Reusable: another project is always created. *)
ReusableNever(st) == {}

(* The only project there is, if it was created by list_projects. *)
Reusable(st) == {p \in There(st) : There(st) = {p} /\ st[p] = "auto"}

Found(st) ==
  \E p \in Remote :
    /\ IF Reusable(st) # {} THEN p \in Reusable(st) /\ site' = st
       ELSE st[p] = "none" /\ site' = Made(st, "mine") /\ site'[p] = "mine"
    /\ win' = [win EXCEPT !.pc = "migrate", !.eff = p]

(* _promote_local_project up to the server project; a list that fails,     *)
(* before or after it made a project, is passed over, a creation that      *)
(* fails, or whose answer is lost, is not.                                 *)
Promote ==
  /\ win.pc = "promote"
  /\ \/ Found(Listed) /\ Idle
     \/ /\ Fault
        /\ \E st \in {site, Listed} :
             \/ /\ site' = Made(st, "mine")
                /\ \E p \in Remote : st[p] = "none" /\ site'[p] = "mine"
                     /\ win' = [win EXCEPT !.pc = "migrate", !.eff = p]
             \/ site' \in {st, Made(st, "mine")} /\ Finish
  /\ UNCHANGED <<store, srow, receipts, marks>>

(* migrate_project_id.  Foreign keys are turned off before the transaction *)
(* it opens, and on again inside it, where SQLite ignores that; it ignores *)
(* both when a transaction is open already.                                *)
MigrateProject ==
  /\ win.pc = "migrate"
  /\ LET w == [win EXCEPT !.fk = @ /\ open]
     IN IF Blocked(db, win.eff)
        THEN /\ Leave(HalfMoved(db, win.eff)) /\ clashed' = TRUE
             /\ win' = [w EXCEPT !.pc = "idle", !.eff = None]
        ELSE /\ Commit(Migrated(db, win.eff)) /\ UNCHANGED clashed
             /\ win' = [w EXCEPT !.pc = "push"]
  /\ Idle /\ UNCHANGED <<server, torn>>

(* What the server does with the pending changes of the project, one after *)
(* the other: A is accepted, some were processed before, and the codes of  *)
(* the others are taken by then.                                           *)
Before(e, r, A) == {f \in A : f.row = r /\ f.id < e.id}

Taken(e, A) ==
  \E r \in Row \ {e.row} :
    \/ \E f \in Before(e, r, A) : f.code = e.code
    \/ /\ Before(e, r, A) = {}
       /\ srow[r].proj = e.proj /\ srow[r].code = e.code

Decided(P, A) ==
  \A e \in P : e \in A <=> e.id \notin receipts /\ ~Taken(e, A)

Process(P, A) ==
  /\ srow' = [r \in Row |->
       IF \E e \in A : e.row = r
       THEN LET e == CHOOSE e \in A : e.row = r
            IN [proj |-> e.proj, code |-> e.code, val |-> e.val,
                ver |-> srow[r].ver + 1, del |-> e.del]
       ELSE srow[r]]
  /\ receipts' = receipts \cup {e.id : e \in P}

(* _process_push: pushed and duplicate entries go, refused ones are kept.  *)
(* Nothing is sent, or committed, when nothing is pending.                 *)
Push ==
  /\ win.pc = "push"
  /\ LET P == Pending(db, win.eff)
     IN \E A \in SUBSET P :
          /\ P # {} /\ Decided(P, A)
          /\ \/ LET R == {e \in P \ A : e.id \notin receipts}
                    kept == {[e EXCEPT !.st = "blocked"] : e \in R}
                IN /\ Process(P, A)
                   /\ Commit([db EXCEPT !.queue = (@ \ P) \cup kept])
                   /\ clashed' = (clashed \/ R # {})
                   /\ Proceed("pull") /\ Idle
             \/ /\ Process(P, A) \/ UNCHANGED <<srow, receipts>>
                /\ Finish /\ Fault /\ UNCHANGED <<store, clashed>>
  /\ UNCHANGED <<site, torn>>

PushNothing ==
  /\ win.pc = "push" /\ Pending(db, win.eff) = {}
  /\ Proceed("pull")
  /\ Idle /\ UNCHANGED <<store, server, marks>>

(* What the server answers: rows that have changed since the last pull.    *)
News(p) == {r \in Row : srow[r].proj = p /\ srow[r].ver > db.since[r]}

(* The database with the rows in T as the server has them. *)
With(T) ==
  [db EXCEPT !.row = [r \in Row |-> IF r \in T THEN Applied(db, r, srow[r])
                                    ELSE db.row[r]]]

(* apply_pull_opportunities, apply_pull_risks and set_last_server_time.    *)
Pull ==
  /\ win.pc = "pull"
  /\ \A r \in News(win.eff) : ~Unapplicable(db, r, srow[r])
  /\ LET d == With(News(win.eff))
     IN Commit([d EXCEPT !.since = [r \in Row |->
          IF srow[r].proj = win.eff THEN srow[r].ver ELSE db.since[r]]])
  /\ IF win.eff = win.sel THEN Finish ELSE Proceed("moved")
  /\ Idle /\ UNCHANGED <<server, marks>>

(* A code that another local row has stops the one or the other: those     *)
(* that were finished are committed, those in T have been applied only.    *)
PullClash ==
  /\ win.pc = "pull"
  /\ LET S == News(win.eff)
         O == {r \in S : Type[r] = "opportunity"}
         bad == {r \in S : Unapplicable(db, r, srow[r])}
         first == bad \cap O # {}
     IN /\ bad # {}
        /\ \E T \in SUBSET ((IF first THEN O ELSE S) \ bad) :
             /\ first \/ O \subseteq T
             /\ db' = With(T)
             /\ disk' = IF first THEN disk ELSE With(O)
             /\ open' = TRUE
  /\ clashed' = TRUE
  /\ Finish /\ Idle /\ UNCHANGED <<server, torn>>

(* The answer is lost, or the pull fails after one of its commits. *)
PullLost ==
  /\ win.pc = "pull"
  /\ LET S == News(win.eff)
         O == {r \in S : Type[r] = "opportunity"}
     IN \/ UNCHANGED store
        \/ /\ \A r \in S : ~Unapplicable(db, r, srow[r])
           /\ Commit(With(O)) \/ Commit(With(S))
  /\ Finish /\ Fault /\ UNCHANGED <<server, marks>>

(* _sync_now of a project that was promoted: the list is loaded again and  *)
(* the new project selected.                                               *)
LeaveLocal ==
  /\ win.pc = "moved"
  /\ Go(win, "reload", None)
  /\ Idle /\ UNCHANGED <<server, marks>>

Reload ==
  /\ win.pc = "reload"
  /\ \E P \in {db.project \cup There(site), db.project} :
       /\ IF There(site) \subseteq P THEN Idle ELSE Fault
       /\ Commit([db EXCEPT !.project = P])
       /\ win' = [win EXCEPT !.pc = "idle", !.list = P, !.sel = win.eff,
                             !.cur = None, !.eff = None]
  /\ UNCHANGED <<server, marks>>

-----------------------------------------------------------------------------
(* Another device has pushed a new item; it is not told from others by its *)
(* text, which is 0.                                                       *)
Elsewhere(r) ==
  /\ Fresh(r)
  /\ Idle
  /\ \E p \in There(site), c \in Chosen \cup {<<Type[r], 1>>} :
       LET x == [NoRow(r) EXCEPT !.proj = p, !.code = c, !.ver = 1]
       IN /\ \A q \in Row : srow[q].proj = p => srow[q].code # c
          /\ srow' = [srow EXCEPT ![r] = x]
  /\ UNCHANGED <<store, win, site, receipts, marks>>

(* Somebody may have made the user a member of a project already. *)
Init ==
  /\ StoreInit
  /\ win = Closed
  /\ LET none == [p \in Remote |-> "none"]
     IN site \in {none, Made(none, "theirs")}
  /\ srow = [r \in Row |-> NoRow(r)] /\ receipts = {}
  /\ clashed = FALSE /\ torn = {} /\ ops = 0 /\ faults = 0

Program ==
  \/ Enqueue \/ SoftDelete \/ QueueDelete \/ StartNew
  \/ Promote \/ MigrateProject \/ Push \/ PushNothing
  \/ Pull \/ PullClash \/ PullLost \/ LeaveLocal \/ Reload

Next ==
  \/ Start \/ Quit \/ Crash
  \/ \E p \in ProjectId : Select(p)
  \/ Press \/ PressDelete \/ PressSync \/ TypeIn
  \/ \E r \in Row : Create(r) \/ Elsewhere(r)
  \/ Program

Spec == Init /\ [][Next]_vars

(* The device has changes of the project to send, or the server has news.  *)
Behind(p) ==
  p \in db.project /\ (p = Local \/ Pending(db, p) # {} \/ News(p) # {})

(* The program's thread goes on, and its user opens it online again and    *)
(* again, selects projects that are behind and presses Sync.               *)
Fairness ==
  /\ WF_vars(Program)
  /\ SF_vars(Start /\ win'.online) /\ SF_vars(Quit)
  /\ SF_vars(win.online /\ \E p \in ProjectId : Behind(p) /\ Select(p))
  /\ SF_vars(Behind(win.sel) /\ PressSync)

FairSpec == Spec /\ Fairness

-----------------------------------------------------------------------------
(* A queued change is found under the project its row is in, also after a  *)
(* crash anywhere in a promotion: nothing is left behind under the old id. *)
EntriesFollowRows ==
  ~clashed => \A e \in disk.queue : e.proj = disk.row[e.row].proj

(* "to avoid leaving behind an empty project": as long as no call fails,   *)
(* first runs and promotions make one server project between them.         *)
OneProjectMade ==
  faults = 0 => Cardinality({p \in Remote : site[p] \in {"auto", "mine"}}) <= 1

(* When the editor moves on to another item, project or sync, what was     *)
(* typed for the one it leaves is in the item's row and queued for the     *)
(* server, by two commits, or it was refused: for want of a title, of the  *)
(* right to delete, or of a free code.  Nothing else but a program that    *)
(* ends may lose it.                                                       *)
TypedIsKept ==
  [][win.dirty /\ win'.cur # win.cur /\ win.cur # None /\ win'.pc # "off" =>
       \/ Refused(win)
       \/ /\ db'.row[win.cur].val = win.val
          /\ \E e \in db'.queue :
               e.row = win.cur /\ e.val = win.val /\ e.st = "pending"]_vars

(* The device and the server come together although a pull asks only for   *)
(* what changed since the last one: every queued change of every project   *)
(* arrives, and every row of the server is shown, whatever call failed on  *)
(* the way, unless two items have one code or an item has no project.  A   *)
(* row whose save was cut off by a crash before it was queued may stay     *)
(* different until it is saved again.                                      *)
InStep ==
  /\ db.queue = {}
  /\ \A r \in Row \ torn :
       srow[r].proj \in db.project => db.row[r] = srow[r]

ComesTogether == <>[](clashed \/ Orphans(db) # {} \/ InStep)

(* The schema's foreign key of risks and opportunities: "FOREIGN           *)
(* KEY(project_id) REFERENCES projects(id)".                               *)
InAProject == Orphans(disk) = {}
=============================================================================
