# RiskApp in TLA+

RiskApp keeps the risk register of a project (risks, opportunities, actions,
assessments) on a FastAPI server (`src/server/riskapp_server`) and on desktop
clients that work offline (`src/client/riskapp_client`). A client edits its own
SQLite file, queues every edit in an outbox table and, when the user presses
Sync, pushes the outbox and pulls what changed. What is hard to get right here
is the replication: answers get lost, requests are repeated while the first is
still being served, two devices edit one row, and either side can die between
two commits. The specification starts there. Around it stand the accounts and
their tokens, the REST endpoints that change the same register under the roles
of a project, and the desktop program with the projects it makes offline.

## Inventory

| Component | State | Operations | Hard part |
|---|---|---|---|
| sync push (`sync/engine.py`) | items, `sync_receipts`, `audit_log`, the open transactions | `push_changes`: look up receipts, per change check role, read the row, check `base_version`, relationships, insert / update / soft-delete in a savepoint, receipt, one commit | handlers overlap; check and write are separate statements; a duplicate key fails the request |
| sync pull (`sync/engine.py`) | the same tables | `pull_since`: rows with `updated_at > since`, then `server_time`; cursor pages | rows are stamped before they commit |
| outbox (`sync_outbox_queue.py`) | entries, pending or blocked | queue (squash), `get_pending_changes`, `delete_outbox_ids`, `block_outbox_id`, `requeue_conflict_with_new_id`, `discard_entity_changes` | one entry per row; batch limit; two commits in a requeue |
| local store (`sqlite_data_store.py`) | rows with version and `is_deleted`, `sync_state`, codes | local upsert and delete, `apply_pull_*`, `set_last_server_time`, `migrate_project_id`, `_next_code` | a pull must not hide a pending edit nor skip a row |
| sync service (`synchronization_service.py`) | only locals of `sync_project` | push, process the answer, requeue conflicts, retry once, pull, save the cursor; promotion of local projects | raises anywhere; locals are lost |
| editing services (`scored_entity_management_service.py`, `action_*`, `assessment_*`) | none | create / update / delete: a row commit, then an outbox commit | "never synced" is inferred from version 0 |
| membership (`projects.py`, `permissions.py`) | `project_members` | add, change role, remove; last-admin rule | two admins acting on each other |
| REST editing (`items_crud.py`, `actions.py`, `crud_factory.py`) | the server tables | create, update with `base_version`, delete, list, report | shares rows with push; no receipts |
| authentication (`auth/service.py`, `users.py`) | users, refresh tokens, reset tokens | issue, rotate, revoke, change and reset password, deactivate | a token used twice at once |
| rate limiter (`core/rate_limit.py`) | hits per key | `hit` | window boundary |
| snapshots and reports (`snapshots.py`, `matrix.py`, `scoring.py`) | score snapshots | create per batch, compare, top history | batch identity, empty periods |
| log retention (`projects.py` prune, `ops/prune_job.py`) | receipts, audit log | delete by age | a retry older than its receipt |
| desktop window (`ui_v2/mixins`) | selected project, the item in the editor, unsaved text | select, click, new, type, save, delete, sync, start, exit | an editor that is left in six ways; a sync that changes the project under it |
| configuration, app assembly, SQL scripts, CSV export, client filters, widgets | none of interest | | not modelled: constants, I/O, layout, formatting |

Interactions: the services write the local store and the outbox; the sync
service reads and writes both and calls the server through `rest_api_client.py`
(one blocking call at a time, six seconds of timeout, in the user interface's
own thread, so nothing is edited during a sync); push and pull share the
server's tables with REST editing and read the roles that membership writes.

What makes each part correct:

* push: a change is applied at most once; it is applied only to the version it
  was based on; the history of a row is linear; a batch is committed as a whole.
* pull: what lies below a device's `last_server_time` the device has.
* outbox: one entry per row; nothing leaves it that the server has not decided;
  blocked means refused.
* local store: a pending edit stays visible; versions never run ahead.
* sync service: the outbox drains; devices converge when editing stops.
* editing services: "never synced" is true when it is acted on.
* membership: a project keeps an admin. Authentication: a refresh token is spent
  once; a deactivated user gets nothing. Limiter: at most `max_hits` per window.
* retention: pruning never makes a retry count twice.
* items and snapshots: scores are true, a row changes in turn and by permission,
  a deleted row stays out of every list, a snapshot is what is shown afterwards.
* desktop: what was typed is kept or was refused; a project made offline is promoted once and
  takes its queue along.

PROJECT.json lists the hazards of this code at their lines, each with the
properties that watch it, or why none does.

## Modules

| Module | Models |
|---|---|
| `SyncTypes` | vocabulary: accounts, rows, roles, changes, receipts, audit rows |
| `SyncEngine` | the push handler, one action per outcome of a change |
| `OfflineClient` | local rows, outbox, editing, `sync_project`, interruptions |
| `RiskSync` | both joined by requests and answers; failures; their properties |
| `ProjectStore` | the abstract promise: every row has one linear history |
| `LoginLimiter` | the sliding window that `/login` asks first |
| `Accounts` | accounts, refresh and reset tokens, and `ApiBackend._req` |
| `Membership` | members, roles, the last-admin rule |
| `Retention` | receipts, their removal by age, changes that come again |
| `Scores` | pure: scores and filters |
| `Register` | REST editing of items, actions, assessments, snapshots, composed of the three above |
| `LocalStore` | the device's database: projects, rows, queue, transaction and commit |
| `Desktop` | the window, first start, promotion, sync, over `LocalStore` |
| `MCRiskSync`, `MCAccounts`, `MCRegister`, `MCDesktop` | instances for TLC |
| `RiskSyncProofs`, `StoreProofs`, `CursorProofs`, `CalmProofs`, `AccountsProofs`, `CallProofs`, `RegisterProofs`, `DesktopProofs` | theorems |

**SyncEngine.** `tx[s]` is the handler run by database session `s`: its user,
the changes still to process, the row it has read (`seen`), its uncommitted
rows, receipts and audit rows. `BeginPush` is the lookup of known receipts;
`Fetch` is the SELECT of a row and every other disjunct of `ProcessChange` one
way the change can end (`Refuse`, `Conflict`, `RejectTarget`, `Insert`,
`InsertClash`, `Update`, `SoftDelete`, `DeleteMissing`, `LockFailure`), so that
another handler may commit between reading a row and writing it. `CommitPush`
is the one commit of the batch. The database is PostgreSQL at READ COMMITTED,
which `core/config.py` requires in production: a handler sees committed rows and
its own, a second writer of a row waits, a primary key is unique across open
transactions. A statement that would wait is a disabled action; `LockFailure`
is the wait that the database ends. With SQLite writers exclude each other,
which is a special case of this. `ReceiptClash` is the change whose receipt an
overlapping request has committed meanwhile: neither its receipt nor an error
receipt in its place can be inserted and the request fails.

**OfflineClient.** An edit is two commits, so two actions: the row
(`CreateRow`, `EditRow`, `RetireRow`, `RemoveRow`) and the outbox entry
(`Enqueue`, `Discard`), and the program may end between them (`Interrupt`). A
sync goes `idle -> wait -> requeue -> rewait -> pull -> stamp -> idle`;
`ProcessPush`, `RequeueConflict`, `RetryPush`, `HandlePull`, `SaveServerTime`
are the statements of `sync_project`. Tables survive an interruption; `sent`,
`conf`, `again` and `mark`, its local variables, do not. `ProcessPush` clears the
entries that were decided and blocks those that were refused (`Clear`,
`ToBlock`). `CrashInAnswer`, `CrashInRequeue` and `CrashInPull` end the program
between two commits of one call.

**RiskSync.** A request is on the wire, in a handler or answered. `HangUp` is a
client that stops listening: its request may still arrive later (`late`), its
handler goes on without it (`live`), its answer is lost. `Abort` is a handler
that rolls back, which `sync_push` reports by raising.

**Accounts.** `srv[s]` is the handler of worker thread `s`: its request, how far
it is (`st`) and what it remembers. Each handler of `auth_routes.py`, `users.py`
and `auth/service.py` is cut at its reads and its commits, because the session
factory has autoflush off: `register` is `CheckEmail`, `CreateUser`,
`IssueToken`; `login` is `Throttle`, `CheckPassword`, `IssueToken`; `refresh` is
`ReadToken`, `Rotate`; the three ways to set a password share `Gather` and
`ApplyPassword`, after which a confirmed reset commits again (`MarkUsed`);
deactivation is `SetActive`, `Gather`, `RevokeAll`. A password is the number of
times it was changed, so a token remembers `under` which it was given, and
`chain` which sign-in it descends from. The device follows `_req`: `React` keeps
tokens, answers a 401 with one refresh and one retry, and treats every other
failure as final. `LoginLimiter` keeps all stamps and the number `cut` of those
that were pruned; the deque is the difference. The stamp is read before the lock
is taken, as `time.monotonic()` is. Two history variables name the gaps the code
leaves: `crossed`, users whose deactivation was cut between its two commits or
listed their tokens while another handler was granting one, and `torn`, reset
tokens whose two commits were cut apart or that two handlers found unused. A
user or token gets such a mark only in that situation, not because of any failure
or overlap elsewhere.

**Register.** Requests are records; `Check...` is what a handler reads and
refuses (`require_min_role`, the row, `base_version`, codes), the action of the
plain name its writes and its one commit. `Rescored` is both
`recalculate_item_scores` and the `before_update` listener, `Passes` is
`apply_item_filters`. A snapshot reads its types one after the other
(`ReadRisks`, `SaveBatch`). An UPDATE names only the columns that differ from the
row that was read (`Stored`), so two overlapping edits mix. Two history variables
name what an overlap may break: `stale`, the handlers that have read and another
wrote since, and `crossed`, the items that were written over a change the handler
did not know, or `"members"` when an admin was taken away by such a handler.
`Elsewhere` is the sync engine recording a change, of which only the receipt
matters here (`SyncEngine` has its rows), and the calendar moving on. Roles are
ranks 1 to 4, rank 0 is no member.

**Desktop.** `db` is what the program's only SQLite connection sees and `disk`
what it has committed, so a migration that fails leaves a transaction that the
next commit completes (`HalfMoved`, `Leave`). `Go` is
`_commit_entity_editor_changes` followed by what the user pressed. The save may be
refused (`Refused`: no title, the status "deleted" of somebody who may not set it,
a code of another row), and what was pressed happens all the same: the text is
gone when that leaves the item. `Mouse` goes through the event filter that saves
first, `Key` does not. A pull asks for the rows that changed since the last one
that finished (`since`, `News`), may stop at a code another local row has
(`PullClash`), and may be lost before or after any of its commits (`PullLost`).
Marks: `clashed`, a unique index has refused something; `torn`, rows whose last
save was cut off before it was queued. `Promote`,
`MigrateProject`, `Push`, `Pull`, `LeaveLocal`, `Reload` are the statements of
`_sync_now` and `_promote_local_project`. `fk` records that
`PRAGMA foreign_keys=ON` is ignored inside a transaction.

What is abstracted: the fields of a row are one number that identifies the edit
that wrote them (in `Register`: code, status, probability, impact, and two
dimensions); change ids are numbers in the order they are made, which is also
the order of `created_at`; the clock counts stamps, ticks or days; a pull reads
the committed rows in one step. Requests the client never makes (unknown entity
or operation, malformed record, a risk pushed under an opportunity's id) are left
out. A conflict always comes with the server's version, so the branch of
`_requeue_conflicts` that blocks one without a version is unreachable. Roles are
constant in `RiskSync` and change in `Register`.

## Runs

| Run | Instance | Shows |
|---|---|---|
| `overlap` | 2 devices, 1 row, 2 handlers at once, 3 edits, 1 failure | `TypeOK`, `OneEntryPerEntity`, `AtMostOnce`, `BlockedWasRefused`, `AppliedOnBase`, `SyncDropsOnlyDecided` |
| `serial` | 2 devices, an item and its action, 1 handler, batches of one, 3 edits, 1 failure | `VersionsLinear`, `CursorComplete`, `NeverAhead`, refinement `ImplementsStore` |
| `drains` | 2 devices, an item and its action, 2 handlers at once, 2 edits, 1 failure, fair | `NoReceiptDeadlock`, `EventuallySettled` |
| `calm` | an item and its action, batches of one, 4 edits, no failure | `PendingShown`, `SeenIsShown`, `DiscardIsNoOp`, `NoSilentDrop` |
| `accounts` | 1 account, 1 device, 2 handlers at once, 3 operations, 2 ticks, 1 failure, fair | `TypeOK`, `WindowBound`, `OneLiveHeir`, `LiveUnderPassword`, `DeactivatedHoldsNone`, `ResetOnce`, `HoldsNewest`, `ExecutedOnce`, `CallsReturn` |
| `register` | 2 accounts, a risk, an opportunity, an action, 2 handlers at once, 2 requests or days | `TypeOK`, `KeepsAdmin`, `RetryCounted`, `ListsHideDeleted`, `ScoreTrue`, `OnlyPermitted`, `EditsInTurn`, `LatestShown` |
| `desktop` | 2 rows, 3 ids for server projects, one code people type, 2 edits, 1 failure, fair | `TypeOK`, `EntriesFollowRows`, `OneProjectMade`, `TypedIsKept`, `ComesTogether` |
| `lost_answer` | 1 row, 3 edits, 1 failure | `NoSilentDrop` fails |
| `lost_create` | 1 row, 2 edits, 1 failure | `DiscardIsNoOp` fails |
| `pull_race` | 1 row, 1 edit, no failure, pull beside an open push | `CursorComplete` fails |
| `two_writers` | 1 row, 3 edits, no failure, 2 handlers at once | `VersionsLinear` fails |
| `orphans` | 2 rows, 1 edit, 1 failure | `InAProject` fails |

Deadlock is checked except in `accounts` and `register`, whose clocks and
requests run out: a system nobody asks anything stops. In the others a device
can always press Sync or be started. Handlers that wait for each other would not
show as a deadlock of the whole system; `NoReceiptDeadlock`, `EventuallySettled`
and `CallsReturn` are about that.

All runs but `serial`, `calm` and the smaller counterexamples let handlers overlap.
The code reads before it writes and does nothing else about overlaps, so most
statements have an order in which they fail, and each names that order and no more:

| Property | Holds with any overlap and failure, except |
|---|---|
| `KeepsAdmin` | an admin was taken away by a handler that had counted before another one wrote |
| `ScoreTrue` | the item was written by a handler that did not know its latest change |
| `EditsInTurn` | the row changed between this handler's read and its write |
| `OnlyPermitted` | a handler wrote since this one checked: then the role was right when it was checked |
| `LatestShown` | the risks of a snapshot, when a handler wrote between its two queries |
| `DeactivatedHoldsNone` | this deactivation was cut between its commits, or listed tokens while one was being granted |
| `ResetOnce` | the handler of this token died between its commits, or two handlers found it unused |
| `TypedIsKept` | the save was refused |
| `ComesTogether` | a code was refused, an item lost its project, or a row's save was cut off before it was queued |

Three account properties still assume more, that no two handlers have been open at
once so far (`~overlapped`): `WindowBound`, whose stamps are taken before the lock;
`OneLiveHeir`, because two overlapping refreshes of one token leave two valid heirs;
`LiveUnderPassword`, because a token granted while a password is changed is not in
the list that is revoked. They hold with every failure. Two properties assume that
no call has failed: a lost rotation answer leaves a device with a spent token
(`HoldsNewest`), and a lost answer to the creation of a project makes a second,
empty one (`OneProjectMade`).

**Bounds.** `MaxEdits` and `MaxFaults` appear only in the guards of `UserEdit`
and `Fault`. A conflict needs three edits (a creation and one edit on each
device); a requeued change that conflicts again needs a fourth. One failure is
enough for every "the answer was lost and then ..." scenario. One device is a
manager and the other a member, so one delete or retirement is allowed and the
other refused (in `overlap` both are members and every one is refused); an item with an action exercises "Target not found".
`BatchLimit = 1` with two rows makes entries wait for the next sync, requeued
ones fall outside the retry's batch, and a pull meet pending entries; 100 means
no limit for these instances. In `overlap` the two devices, and the two
sessions, are interchangeable, hence the symmetry; liveness runs use none.

In `accounts` a sign-in, a call and one request of somebody else make three
operations; the lifetimes (access 0, refresh 3, reset 2 ticks) let an access
token expire between two steps of one call and nothing else by surprise; limit
and window are 1, so the second attempt already meets both edges of the window.
Before the first request an account may exist or not, so every operation is
reached within the bound. In `register` two requests suffice because the initial
states include a project with a founder, another user of any rank and an item
whose snapshot is older than its score: the first request can make the state the
second one trips over. `SomeDrafts` and `SomePatches` set and leave out each field a score is
computed from, and clear the dimension. In `desktop` two edits are a creation and
one more edit or deletion, while rows of another device are not counted: there are
two rows in all. Three ids for server projects are two more than `OneProjectMade`
allows. `MaxOps`, `MaxFaults`, `MaxTime` appear only
in the guards `Operate`, `Count`, `Fault` and `Tick`.

**Fairness.** In `RiskSync`, weak fairness of everything but edits and failures.
Handlers and the client's single thread run to their end; a request the network
delivered is served; `SendPush` is fair because the claim is about users who
keep pressing Sync. `Timeout` and both crashes are not fair: failures may stop.
In `Accounts` the same three: an answer is read, a request is taken by a worker,
a handler goes on; nobody has to sign in, call or fail. In `Desktop` the
program's own steps are weakly fair, one thread doing one thing after the other.
`ComesTogether` is about users who come back, and assumes that they do by strong
fairness of opening the program online, closing it, selecting a project that has
something to exchange (`Behind`), and pressing Sync in one: each of these is enabled
again and again while the program is used, though not all the time.

**Findings.** Five statements of the code, its comments and its schema do not
hold, and each has its run:

* a change answered `conflict` or `error` whose answer is lost is dropped by
  the retry, since any receipt counts as a duplicate (`lost_answer`);
* version 0 does not mean "never synced": after a lost answer, deleting the row
  discards the entry and the row comes back (`lost_create`);
* a row stamped before, and committed after, a pull read the table stays below
  that pull's `server_time` and is not pulled again until it changes
  (`pull_race`);
* the version check is not tied to the UPDATE, so two overlapping pushes based
  on one version both write (`two_writers`);
* after a promotion whose push or pull raises, the window still offers the
  project that is gone, foreign keys are off since the migration, and an item
  created there belongs to no project (`orphans`).

The first four hold where their cause is absent, which `calm` (no failure) and
`serial` (one handler at a time) check.

Behaviour the models show and no text of the repository promises otherwise, so
that no run is about it: a save that is refused (an empty title, without a message)
does not keep the user on the item, whose text is dropped; a crash between the
commit of a row and that of its outbox entry leaves a synced row different from the
server's until one of the two changes again, since a pull asks only for what is new
(`torn`); deleting by keyboard an item with unsaved text saves it again and revives
it; the editor is not loaded again after a pull; a migration
that a unique index stops leaves its transaction open, and the next commit makes
a part of it durable; two devices that both number an item R-001 offline meet
when they sync, the server refuses the second and `apply_pull` raises on that
device from then on (`clashed` in `Desktop` excuses it).

## Proofs

The theorems hold for any sets of devices, users, rows, bodies and sessions and
any bounds, limits and lifetimes. The assumptions are those of the modules:
`None` is nobody, no row and no project, `Parent`, `Role`, `Owner` and `Type` are
functions of the right sets, limits and lifetimes are numbers (`Limit` and
`RetentionDays` positive), there is a user, a draft has a probability and an
impact as its schema demands, and a device has finitely many rows (`_next_code`
takes a maximum). What a theorem assumes beyond that it says in its statement.

`RiskSyncProofs`, with or without overlapping handlers:

| Theorem | States |
|---|---|
| `TypeCorrect` | `Spec => []TypeOK` |
| `OneEntryAlways` | `Spec => []OneEntryPerEntity` |
| `AppliedAtMostOnce` | `Spec => []AtMostOnce` |
| `DropsOnlyDecided` | `Spec => SyncDropsOnlyDecided` |
| `BlockedRefused` | `Spec => []BlockedWasRefused` |
| `NoCircularWait` | `Spec => []NoReceiptDeadlock` |

* `TypeInv` adds to the types that a running handler has a user.
* `OneEntryPerEntity` is inductive: `OutboxSteps` shows that a step only takes
  entries out of an outbox or replaces every entry of one row by a new one.
* `AtMostOnce` is not: an open handler could record what another has just
  committed. `ReceiptInv` adds that receipts are unique across the committed
  ones *and* those of every open handler, and that each audit row has an
  accepted receipt on its side of the commit.
* `SyncDropsOnlyDecided` needs to know where a batch is. `ExchangeInv` says that
  a waiting client's batch is on the wire, in exactly one live handler whose
  duplicates, work list and receipts together cover it, or in the reply; when
  the handler commits, its list is empty and its receipts are committed.
  `ClientMoves`, `HandlerLeaves` and `HandlerWorks` are the three ways a step
  can touch that; every action is one of them, or a send, or a serve.
* `BlockedWasRefused` combines the two: the answer blocks only what a committed
  receipt refuses, receipts are unique and never taken back, and audit rows
  have accepted ones.
* `NoReceiptDeadlock` follows from `OrderInv`, what a handler has recorded is
  older than what it still has to process, and from `ReceiptInv`: two handlers
  in a circle would hold a receipt of the same change.

`StoreProofs` and `CursorProofs`, for one handler at a time (`~Overlap`) except the
last; the runs `two_writers` and `pull_race` show what happens without that assumption:

| Theorem | States |
|---|---|
| `HistoryIsLinear` | `Spec => []VersionsLinear` |
| `TablesImplementStore` | `Spec => ImplementsStore` |
| `CursorIsComplete` | `Spec => []CursorComplete` |
| `DevicesNeverAhead` | `Spec => []NeverAhead` |
| `AppliedToItsBase` (with any overlap and failure) | `Spec => []AppliedOnBase` |

* `Alone` says that at most one handler is open. `OutboxInv` and `BatchInv` say
  that no outbox, and so no request, names a change or a row twice.
* `WorkOK` is what a lone handler knows: the row it has read is the committed
  one, a row it has written is one it will not meet again in its batch, goes to a
  higher version than the committed one and stays deleted if that is. `HistoryInv`
  adds that the audit log only names versions the rows have left behind; together
  they make `VersionsLinear` inductive.
* In the refinement `CommitPush` is `Store!Commit` (`CommitRefines`) and every
  other step leaves rows and audit log alone (`OnlyCommitsWrite`).
* `CursorComplete` is not inductive: a handler could commit a row that some
  cursor has passed. `TablesInv` says that what an open handler has written is
  stamped later than every cursor, and than every cursor about to be saved; a pull
  meets no open handler, so it cannot move one past it. `CursorInv` adds what a
  device that has applied a pull and not yet saved its cursor already has.
* `NeverAhead` has to follow a version from the server through an answer into a
  requeued change. `ChangesInv` says that every change under way, in an outbox, a
  request or a handler, is the only one of its id and is based on a version the
  row has; `AnswersInv` says the same of the version a conflict reports;
  `DeviceInv` that what is queued or being edited has a row on that device.
* `DeviceSteps`, `HandlerSteps`, `ItemSteps`, `MovingSteps` and `AnswersPass`
  reduce the actions to what they do to rows, cursors, tables and changes; the
  five `...Kept` lemmas below them only argue about those.
* `AppliedOnBase` needs to know who may send a change without a base version, which
  the conflict check lets pass. `OwnerInv` says that only the device that made the
  row does: a row of local version 0, or such a change of it in an outbox, on the
  wire, late, in a handler or in the audit log (`Claims`), belongs to one device.
  `ClaimSteps` gives the ways a claim can arise; a pull and a requeue give a version
  because rows and conflicts carry one (`ContentInv`, `ConflictInv`).

`CalmProofs`, for one handler at a time and no failure (`~Overlap`,
`MaxFaults = 0`), the assumptions of the run `calm`; `lost_answer` and `lost_create`
show what one lost answer does to the last two:

| Theorem | States |
|---|---|
| `EditsStayVisible` | `Spec => []PendingShown` |
| `SeenRowsAreShown` | `Spec => []SeenIsShown` |
| `NothingDroppedSilently` | `Spec => NoSilentDrop` |
| `DiscardsLoseNothing` | `Spec => []DiscardIsNoOp` |

* `CalmInv` is eight statements that need each other. `SentInv`: no request is
  late, every handler belongs to a client that waits for it, works on changes of
  that client's batch that have no receipt, and meets no duplicate. `DecidedInv`:
  a pending change has a receipt only while its answer is on the way or while it
  is a conflict to be requeued, so a batch never contains an answered change.
* `FreshInv` says what version 0 means: a row the server has not heard of, which
  only one device has, or one whose creation a running sync has pushed and not yet
  pulled. So a change without a base version creates its row, and outside a sync a
  row of version 0 may be discarded.
* `AcceptedInv` follows an accepted change through handler and answer: the
  server's row is above the device's from the commit on. So the device cannot
  take its own old text for the server's in the gap between the answer and the
  pull (`SeenInv`).
* `CalmDoes` reduces a step to one of eight kinds of move of one device, the work
  of one handler, or its commit (`Moves`, `Works`, `Answers`); the eight `...Kept`
  lemmas argue about those.

`RegisterProofs`:

| Theorem | States |
|---|---|
| `RegisterTyped` | `Spec => []TypeOK` |
| `DeletedHidden` | `Spec => []ListsHideDeleted` |
| `AdminRemains` | `Spec => []KeepsAdmin` |
| `EditsTakeTurns` | `Spec => EditsInTurn` |
| `RolesRespected` | `Spec => OnlyPermitted` |
| `RetriesCounted` | `Spec => []RetryCounted` |
| `ScoresTrue` | `Spec => []ScoreTrue` |
| `SnapshotShown` | `Spec => LatestShown` |

* `IInv` types the requests and the rows handlers remember. `ListsHideDeleted`
  is not inductive: a handler that remembers an undeleted row could write over a
  deletion. `Marked` (a row that says it is deleted is marked so) and
  `KeepsMark` (a row that a patching handler remembers as marked still is) close
  that gap, since no handler ever takes the mark off.
* `CInv` says that what a handler has checked still holds as long as nobody else
  has written since (`Checked`, `Good`): its rank, another admin, the risks a
  snapshot has read. Every writing handler makes the others stale, so a step has to
  keep `Good` only for itself. `KeepsAdmin` is part of it, with `Ruled` for the
  time between the check and the write.
* `EditsInTurn` and `OnlyPermitted` are action properties. `OneWriter` says that the
  rows change by the write of one handler; `EditStep`, `CreateStep` and `OtherStep`
  say what the writes of each kind do to the items.
* `RInv` says where the receipts are: a change without one was applied more than
  a day ago, and a receipt tells its latest application. It needs the lower
  limit of `Days`, with which a receipt of yesterday is never pruned.
* `ScoreTrue` is inductive for the items that are not crossed: either a handler
  writes over a change it does not know, which crosses the item for good
  (`CrossedGrows`), or the row it remembers is the stored one, so the columns it
  writes back make a whole row again (`StoredWhole`), and that row was rescored from
  its own fields (`RescoredScored`, `PatchedScored`). A deletion keeps the score and
  hides the item.
* `LatestShown`: a batch has the opportunities of the moment it is saved and, by
  `Good`, the risks of that moment unless its handler is stale (`BatchSaved`); a
  batch asked for after all others is the latest of each type it has rows of
  (`LatestIsLast`).

`AccountsProofs`:

| Theorem | States |
|---|---|
| `AccountsTyped` | `Spec => []TypeOK` |
| `LoginsPaced` | `Spec => []WindowBound` |
| `OneHeir` | `Spec => []OneLiveHeir` |
| `ValidUnderPassword` | `Spec => []LiveUnderPassword` |
| `NoneWhileDeactivated` | `Spec => []DeactivatedHoldsNone` |
| `ResetsOnce` | `Spec => []ResetOnce` |

* `TInv` adds to the types that a message names rows that exist, that a chain
  points back, and that no token was given for a missing password; tables only
  grow, so a message stays proper however long it is under way.
* `AInv` says that at most one handler is open until two overlap, so a step of
  one finds the others closed.
* `WInv` is the window seen from the handler that is about to ask: it has read
  the clock after every hit, and what was pruned is out of its window. Then an
  attempt is admitted only if the one `Limit` places back has been pruned.
* `KInv` joins the two token properties with `Ready`: what a lone handler has
  read (the token is valid, the password right, the list of valid tokens
  complete) is still so. Neither is inductive without it.
* `FInv` holds with every failure and any overlap. `Deactivated` says of a
  deactivated user who is not crossed that a handler is about to list the valid
  tokens, or has listed them all, or that there is none and none is being granted.
  `Whole` says of a reset token that is not torn that one handler at a time holds
  it, and that it has set no password unless it is spent or that handler is between
  its two commits.

`CallProofs`, with or without overlapping handlers:

| Theorem | States |
|---|---|
| `NoCallTwice` | `Spec => []ExecutedOnce` |
| `NeverStranded` | `Spec => []HoldsNewest` |

* `EInv` says where the answer of a device is: what it waits for is one request on
  its way, in one handler, or an answer, never in two places. A request whose
  device has given up stays under way, but nobody takes its answer for another.
* `OnceInv` counts what can still execute call `i`: at most one request, and none
  once it is executed. A device repeats a call only when the server has rejected
  it, and then that request is gone.
* `NewInv` says that every chain of tokens has one holder, and that nobody renews
  a chain without waiting for the answer; so, when no answer is lost, the device
  that rotated a token is told the new one. With one lost answer the device keeps
  a spent token and has to sign in again, hence `faults = 0` in the property.

`DesktopProofs`:

| Theorem | States |
|---|---|
| `DesktopTyped` | `Spec => []TypeOK` |
| `EntriesStayWithRows` | `Spec => []EntriesFollowRows` |
| `TypedTextIsKept` | `Spec => TypedIsKept` |
| `OneProject` | `Spec => []OneProjectMade` |

* `TInv` adds to the types that the editor holds a row that exists, that a sync
  works on a project of the server, and that what is about to be queued has been
  written.
* `EntryInv` is what makes a promotion safe to interrupt: unless an index has
  refused a code, nothing is left uncommitted (`db = disk`), every queued change is
  under the project of its row, and device and server agree on the project of a
  row. Without the second half a pull could move a row away from its change.
* `TypedIsKept` follows action by action (`KeepsTyped`): each way of leaving the
  editor saves first, stays on the item, or was refused. One lemma per action
  (`...Works`) gives all three.
* `OneProjectMade` rests on two invariants. `IdsInv`: the program, its
  transaction and its disk know no project but the local one and those of the
  server. `OneInv`: the device's user owns one project at most, and when no call
  has failed, a project made by a promotion either waits for the migration with
  no row in its way or has replaced the local one for good, in the transaction
  and on disk. So a promotion that meets a local project has made none yet.

Every safety property, action property and refinement of the passing runs is a
theorem. Only model-checked: liveness (`EventuallySettled`, `CallsReturn`,
`ComesTogether`), which is out of this prover's reach.

## Not modelled

* The pages of a pull and its 413 cap: the client's last page asks for all four
  tables again, so a pull is what one read of the tables gives.
* Reports, the matrix and `top_history` of snapshots: reads that store nothing. A
  report is several queries, between which another handler may commit, so its
  numbers need not belong together. The audit log, which is pruned like the receipts.
* The rows a push writes beside a REST edit: `Register` takes only the receipts of a
  push, `RiskSync` has no REST edits. That deactivation asks for a superuser.
* Assessments on the device (edited online only), the local table of them, the
  tabs of the window that keep no unsaved text, widgets and layout.
* ALTER TABLE migrations of old local databases and `apply_sql.py`: statements
  that run once over a database, without state of their own.
* `bootstrap_project_id`: only read when there is no project, and then finds
  none. `override_base_version`: never called with a value.
* Hashing, signatures, the maximum length of a password, dates, free text,
  owners: the properties do not tell their values apart.
* CSV export, client-side filters, mappers, domain records, configuration:
  stateless formatting, constants.
