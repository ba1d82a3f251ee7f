# A TLA+ model of Setuora Lite

Setuora Lite is the inventory system of one franchise: serialised stock (one QR
code per unit) in one SQLite database, served by a FastAPI process with request
threads and background workers, and linked over HTTP to Setuora Master, which
all franchises share. This directory models the parts in which stock can be
lost, duplicated or reported wrongly, checks them with TLC on small instances,
and proves the central properties with TLAPS for every size of the system.

## 1. Inventory of the system

| Component | State | Operations | Interacts with | What is hard | What makes it correct |
|---|---|---|---|---|---|
| Master outbox (`services/master_sync.py`, `master_sync_worker.py`) | `master_outbox_events`: status, retry time, claim time, frozen payload; status of the batch or receipt an event reports | enqueue, push, fail, recover, retry, pause | every stock operation enqueues in its own transaction; Master records | several pushers without a lock, crashes, lost and late answers, claim timeouts | strict sequence, nothing reported that Master does not have, every event gets there |
| Master inbox (same files) | `master_inbox_commands`: status, payload hash | fetch, apply, persist failure, acknowledge | handlers of transfers, receipts, QR serials, products | racing pollers, replays, failure between effect and acknowledgement | exactly once, in order, proof kept |
| Enrollment (`routers/lite_sync.py`, `config.py`) | settings file (code, address, credential); outbox; saved node and address; Master's cursor | `/connect`, `/initialize`, `/settings` | outbox, Master | file and database are written one after the other; only `/connect` takes the lock, and `/settings` does not ask Master | one baseline, one franchise code, one history, repairable |
| Transfers (`services/transfer.py`) | transfer and item rows at source and destination, serial status and `active`, descriptions of products | create, add, remove, dispatch, arrive, scan, receive, settle | outbox and inbox of two franchises; edits of products | stale reads before the write lock, partial receipts, returns, manifests that are refused | a serial is in one place; both sides agree |
| Stock batches (`services/inventory.py`, `shelf_verification.py`, `sale_returns.py`, `expiry.py`, `routers/batches.py`) | batches, items, serial status, `inventory_transactions` | create, scan, FEFO pick, remove, return in a sale, shelf scan, submit | outbox; transfers (same serials) | stale reads before the write lock, several documents for one serial | ledger is a chain, events add up to stock, a batch is submitted once |
| Local Tally sync, Tally jobs, Tally data (`services/sync_worker.py`, `tally_jobs.py`, `tally.py`, `tally_cache.py`; outside Lite mode) | batch status, frozen voucher, lease; job rows; gateway check; wake-up event, request lock | submit, retry, queue a job or check, one pass of the loop, post, finish, stop and start | Tally's gateway; settings; restore and reset stop the worker | lost wake-ups, lost and unreadable answers, leases, threads that outlive their task | one voucher per batch, nothing synced that Tally lacks, all work is done in turn |
| Serials in the warehouse (`services/relocation.py`, `master_qr.py`, `replacement.py`, `assignment.py`, `routers/warehouse.py`, `products.py`) | serial status, `active`, location, successor; locations; relocation rows; product | allocate, generate, move, shelve, replace, deactivate a location, edit or delete a product | inbox (commands), outbox (snapshots), batches | claims on stale rows, repeated commands that read before the lock | the unit is where its label says, the history is a path, Master knows |
| Backup, restore, reset (`services/backup.py`, `backup_worker.py`, `database_reset.py`, `routers/maintenance.py`) | database file and write-ahead log, backup folders, settings, worker | copy, verify, publish, prune, restore in steps, reset | every request (connections to the file), the other workers | requests and pooled connections beside a replaced file, kills between two file operations, changes of folder | no mixture of two databases, nothing saved is lost, backups go on |
| SFTP exchange | - | - | - | unreachable code | not modelled (section 8) |
| Audit assignments (`services/audit.py`, `routers/audit_assignments.py`) | windows, expected serials, scans with their time, findings | assign, scan, remove, submit, extend, refresh by a report | batches; reports | findings are computed when somebody looks; deadlines move | missing means not scanned in the window, and the window is over |
| Access control, reports, exports, voucher arithmetic, Tally parsing | - | - | - | no protocol | not modelled (section 8) |

`PROJECT.json` lists every component with its files, every hazard with its line,
and for every definition of the models the source lines it stands for.

## 2. Plan

1. Delivery to Master (`MasterOutbox`, abstract `EventLog`), because every other
   component relies on it. Done, proved.
2. Commands from Master (`MasterInbox`). Done, proved.
3. Transfers between franchises (`Transfers`), composed of two franchises and
   Master, on top of what 1 and 2 guarantee (abstract `Custody`). Done, safety
   and refinement proved.
4. Enrollment (`Enrollment`), which starts the history that 1 delivers. Done,
   safety proved.
5. Stock documents (`Batches`). Core done, safety proved.
6. Timed audits (`Audits`). Done, safety proved.
7. The local Tally worker (`TallyWorker`): loop, jobs, vouchers. Done, safety
   proved.
8. Serials in the warehouse (`Warehouse`): labels, locations, replacement. Done,
   safety proved.
9. Backup, restore and reset (`Maintenance`). Done, safety proved.
10. Left to model: the `AUTOINCREMENT` counter a reset keeps, as an extension of
    `Enrollment`; overlapping submissions in `Warehouse`; the arithmetic of the
    voucher summary against a reference definition.
11. Left to prove: `Conserved`, `CompleteAgrees` and `SubmittedOnce` for two
    overtaking commits; an abstract inbox that `MasterInbox` implements; action
    properties for `Enrollment` (what a step of `/connect` may never do).

## 3. Modules

| Module | Models |
|---|---|
| `EventLog` | what the outbox promises: one log, appended, recorded in order, confirmed |
| `MasterOutbox` | `push_pending_events` for a set of pushers, `enqueue_outbox_event`, `retry_failed_event`, Master's answers |
| `MasterInbox` | `poll_master_commands`, `apply_master_command`, `_persist_failed_command` for a set of pollers |
| `Custody` | what transfers promise: each serial has one custodian, a franchise or a transfer, and is handed over once per dispatch and receipt |
| `Transfers` | `transfer.py` at every franchise, with Master as two queues, and edits of products that a manifest then contradicts |
| `Enrollment` | the three handlers that change the link to Master |
| `Batches` | the life of a batch from draft to `PENDING_SYNC` |
| `Audits` | audit assignments, their batches and findings, against a clock |
| `TallyWorker` | `retry_worker_loop` and what a pass does, with the requests that feed it |
| `Warehouse` | labels of units, their locations and their replacement, products |
| `Maintenance` | the database file, its log, the connections to it, its backups and the jobs that work on them |
| `MC*` | values for TLC: routes, statuses, symmetry |
| `MasterOutboxProofs`, `MasterInboxProofs`, `BatchesProofs`, `MaintenanceProofs`, `WarehouseProofs`, `TallyWorkerProofs`, `EnrollmentProofs`, `TransfersProofs` | theorems about the module they are named after; `MaintenanceProofs` also about `Audits`, the other component whose work a clock starts |

**Granularity.** SQLite runs in WAL mode with `busy_timeout` 5000: a `SELECT`
sees the last commit, the first write takes the only write lock, and what follows
up to the commit is atomic. Sessions do not keep a read snapshot between the
load of a request and its first write. So `MasterOutbox`, `MasterInbox` and
`Enrollment` take one step per read, per commit and per network or file access.
`TallyWorker` and `Maintenance` do the same for the steps of a pass and of a job.
`Transfers`, `Batches`, `Audits` and `Warehouse` split each request in two:
`...Looks` reads and decides, the second action writes and commits. `MaxOvertaken` bounds how many
other requests may commit in between; 0 means that requests do not overlap, and
every run has 1.

**Unit of work.** SQLAlchemy writes only the columns that differ from the loaded
ones and does not check the others; `Flush` in `MasterOutbox` models that. It
is why a pusher can overwrite `SENT`, and why that heals: the event is sent
again and Master acknowledges what it has.

**Variants.** Beside some definitions stands a variant with a plausible mistake
(a missing claim, an off-by-one, a dropped check). `PROJECT.json` pairs each
property with a variant under which TLC refutes it. Nothing else uses them.

## 4. Correspondence

*MasterOutbox.* `outbox[e]` is the row with id `e`; `next_attempt_at` is null,
due or later, `sending_at` null, fresh or stale; `document[e]` the batch status
or `synced_at` it reports; `phase[p]` the place of pusher `p` in the loop;
`loaded[p]` what its session has loaded; `post[p]` its HTTP exchange; `late` the
requests whose client has given up. `StartPush` to `DeliverySucceeds` follow
`push_pending_events` in order. `Crash`, `Pause`, `CorruptPayload`,
`RequestTimesOut` and the like count as faults.

*MasterInbox.* `row[c]` is the inbox row, `hash[c]` its payload hash, `effects[c]`
how often the handler has changed inventory, `todo[p]` the commands a poller has
fetched and not finished. Handlers are abstract: they change inventory if their
effect is not there, and two kinds (`QR_ALLOCATED`, `QR_REPLACE`) refuse a
repetition. A new row is committed with its effect, so `RECEIVED` is never seen.

*Transfers.* `status` and `active` are the serials of each franchise; `out*` the
transfer row at its source, `in*` and `scanned` at its destination; `sent` and
`queue` the events and commands under way, delivered in order and once
(sections 5 and 6 justify it). `conflicts[f]` are the products that franchise `f`
describes otherwise than the manifests it receives: `EditProduct` changes that for the
products in `Edited`, and a command about such a product is refused and blocks the
queue until the description is changed back. `raced` records transfers that were
edited after their dispatch or dispatched with other items than they had by then.
`SellSerial` stands for any workflow that takes stock. The journal rows
`log_inventory_transaction` writes are not kept here.

*Enrollment.* `env` is the settings file with three independent fields: code,
address, and the credential, named by the record of Master it was issued for. Master
knows whose credential it is (`Authentic`); Lite knows its format only. `savedNode`
is the node and address in the database,
`cursor` Master's `last_sequence`, `bounds` the range a `/connect` has measured,
`named` the code a snapshot has read. `entered` records whose credential `/settings`
was given, with events in the outbox, under another code or address; an event
delivered to such a record has `Strayed`. `Overlapping` bounds which requests run
beside others; the rest run while no request does. A `/settings` that also pauses
synchronisation is `Pause` in `MasterOutbox`.

*Batches.* `ledger[s]` holds the movements of a serial (the `AUDIT` rows, which
move nothing, are left out), `events` the queued events, `returned` the pending
returns of a sale, `shelved` the items verified on a shelf. `RECEIVE` behaves as
`PURCHASE` and is not a type of its own; `RETURNED`, which nothing stores any
more, is left out; all serials are of one product.

*Audits.* `now` is the clock; an assignment exists once `ends` is not 0;
`scans[b][s]` is `created_at` of the item, and `stored[b][s]` records when it was
committed, which may be after the deadline; `outdated` records assignments whose
findings were computed with a deadline that an overlapping request had replaced; `findings` holds what the last reconciliation of an assignment
found; `order` lists the assignments by `created_at` of their findings, which is
all the report of missing stock looks at. `StockMoves` stands for the batches
that sell stock and take it back. An expired assignment is reconciled only when
somebody opens a report (`RefreshLooks`, `RefreshExpired`).

*TallyWorker.* `batch[b]` holds status, frozen payload (`sync_request_xml`, named
by the version of the settings it was built from), `last_retry_at` (null, recent
or due) and whether its lease has ended; `line` orders the batches by
`last_retry_at`; `jobs`, `queue` and `asked` are the newest row of each request
key, the active rows and Tally's data when the row was made; `thread["pass"]` is
the thread of the current pass, `thread["orphan"]` one whose task was cancelled;
`ring` is the gap between commit and `notify_retry_worker`, `wake` the
`asyncio.Event`; `accepted` is what Tally holds. `disowned` and `mixed` only
record which exceptions of a property have happened.

*Warehouse.* `serial[s]` is the row; `unitOf` and `place` are the physical unit a
label is on and where it is; `trail[s]` summarises relocations and shelf scans by
the end of the last one and by whether each starts where the one before ended;
`told[s]` is the location in the newest event about the serial, forgotten when a
shelf scan, which tells nobody, places it. `failed` holds commands whose inbox
row is `FAILED`: their repetition reads before it has the write lock. `raced`
records units whose label was replaced or shelved from a row that had changed.
A submission is one step here; `Batches` splits it.

*Maintenance.* A state of the database is the number of its last commit; `file`
and `wal` are the file and its log, `wal.of` the file the log belongs to, `inode`
how often the file was replaced; `job` is the maintenance job under
`_SQLITE_FILE_MAINTENANCE_LOCK` with the step it is at. A log of another file that
is opened makes the state `Mixed`, and the verification of a copy may accept or
reject a mixture. `held` is the connection of a request, `idle` the kinds of
connection SQLAlchemy's pool keeps for the next one, `disposed` whether the pool of
`held` was disposed of: `engine.dispose` closes what is idle, and whatever is open
when the file or its log is removed is an orphan from then on. `backups[f]` are the
files of a folder, and `settings` name the folder, the offsite folder and the
retention, which may change at any time. `safety` (the state and the folder of the
newest safety backup) and `exposed` only record what properties speak of.

## 5. Runs

| Run | Checks | Instance |
|---|---|---|
| `outbox` | `NoSequenceGap`, `ReportedIsRecorded`, `ImplementsEventLog`, `EventuallyConfirmed` | 2 pushers, 2 events (a batch and a receipt), 2 faults, 1 event per call |
| `inbox` | `ExactlyOnce`, `AppliedInOrder`, `ProofKept`, `EventuallyAcked` | 2 pollers, 3 commands, 2 faults, 1 conflicting replay |
| `transfers_overlap` | `Conserved`, `SourceAgrees`, `ImplementsCustody` | 2 franchises, 2 transfers (there and back), 2 serials, 3 clerks, `MaxOvertaken` 1 |
| `transfers_return` | `CompleteAgrees`, `NeverBlocked`, `SourceLearns` | the same transfers, 2 serials of a product that may be edited, 2 clerks, `MaxOvertaken` 1 |
| `enrollment` | `OneBaseline`, `CodeLocked`, `OneHistory`, `Reconnectable` | 3 admins, 3 records with their credentials, 3 events, 2 crashes, overlapping `/connect`, the others in between |
| `batches` | `SubmittedOnce`, `LedgerChains`, `EventsTellStatus` | purchase, sale, sales return, audit, 2 serials, 2 clerks, `MaxOvertaken` 1 |
| `batches_edited` | refutes `SubmittedIsFrozen` | purchase, sale, 2 serials, 2 clerks, `MaxOvertaken` 1 |
| `audits` | `MissingOnlyAfterDeadline`, `MissingIsUnscanned` | 1 assignment, 3 batches, 1 serial, 2 clerks, 4 instants, `MaxOvertaken` 1 |
| `tally_jobs` | `TypeOK`, `NoLostWakeup`, `FreshAnswer`, `BatchIsTried`, `RequestsAreAnswered` | a batch, a job key, a gateway check, a change of Tally's data, 1 crash |
| `tally_vouchers` | `OneVoucher`, `SyncedIsInTally`, `SyncingIsTakenOver` | a batch, 3 versions of the settings of which the first is unusable, every kind of answer, 1 crash, 1 stop |
| `warehouse` | `TrailChains`, `StockIsWhereItSays`, `MasterKnowsPlace`, `LabelsHaveProduct` | 2 labels, 2 locations, 2 clerks and the worker, 1 failed command, both modes, `MaxOvertaken` 1 |
| `maintenance` | `BackupsAreWhole`, `SafetyIsKept`, `DatabaseIsWhole`, `CommitsAreBackedUp` | 2 folders, 3 commits, 1 restore, retention 1 or 2, 1 change of settings, 1 failure or kill |

**Known disagreements.** Five statements of the code are not kept by the code.
The run `batches_edited` refutes one of them; no passing run can state the others,
and TLC refutes the property named, written out in its module, when the run's
instance is changed as said.

| The code says | What happens | Instance |
|---|---|---|
| "Only a draft transfer can be dispatched." (`services/transfer.py:202`) | a dispatch is overtaken by an exchange of items and another dispatch; the second manifest is ignored at the destination and its serial stays in transit | `DispatchedOnce` in `transfers_overlap` with 2 clerks and `MaxOvertaken` 2 |
| "Repeated clicks must never create a second baseline" (`routers/lite_sync.py:234`) | `/initialize` does not take the lock of `/connect`; beside it both queue a baseline (`/initialize` otherwise runs alone here, and `/settings`, too: beside a `/connect` it saves another code than the baseline carries, which refutes `CodeLocked`) | `OneBaseline` in `enrollment` with 2 admins and `Overlapping = {"connect", "initialize"}` |
| "Submitted batches cannot be edited" (`services/inventory.py:362`) | a removal that has found a draft waits for the write lock while the batch is submitted, and then deletes an item of it; a scan is added to it in the same way | `SubmittedIsFrozen` in `batches_edited` |
| "This batch is already submitted" (`services/inventory.py:281`) | two submissions of an audit, which claims nothing, queue two events | `SubmittedOnce` without `MovesStock` in `batches` |
| "missing findings that have not been resolved by a newer audit scan" (`services/audit.py:452`) | an assignment expires; a later one finds the serial and is submitted; then a report reconciles the first, whose findings are now the newest | `MissingIsUnresolved` in `audits` with `Assignments = {1, 2}`, 2 batches, 3 instants |

**Exceptions written into properties.** Each is a case in which the code does not
keep the property, recorded in a variable that TLC drives into it and described at
its line under the hazards. All but the conflicting product, which is refused on
purpose, are weaknesses.

| Excepted | From | What the code does |
|---|---|---|
| `disowned` | `OneVoucher` | stores a rejection of a voucher Tally has taken (an unreadable answer, or the rejection of a payload that had been taken before) |
| `mixed` | `OneVoucher`, `NoLostWakeup`, `FreshAnswer` | lets an orphaned pass run beside a new loop |
| `raced` (`Transfers`) | `CompleteAgrees`, `NeverBlocked`, `SourceLearns` | edits a transfer after its dispatch, or dispatches other items than it has |
| a conflicting product | `NeverBlocked`, `SourceLearns` | refuses a command that describes a product otherwise, as `tests/test_interfranchise_transfer.py` asserts; the queue waits until the product is edited |
| `raced` (`Warehouse`) | `StockIsWhereItSays`, `TrailChains` | replaces a label or shelves a unit from a row that had changed |
| `outdated` | `MissingOnlyAfterDeadline`, `MissingIsUnscanned` | reconciles with a deadline that an overlapping extension has replaced; nothing is pending afterwards, so no report corrects it |
| `stored` | `MissingIsUnscanned` | stores a scan after the deadline under its earlier `created_at` |
| `entered`, `Strayed` | `OneHistory`, `Reconnectable` | saves the credential of another record (`/settings` does not ask Master), to which events then go |
| `exposed` | `DatabaseIsWhole`, `BackupsAreWhole` | opens a database between its replacement and the second removal of the log |

**Bounds.** Two pushers with two events, or two pollers with three commands, are
enough for one to be overtaken while another has gone on to the next; two faults allow a fault
during the recovery from another. Two serials in a transfer give partial
receipts that overlap and edits of a dispatched transfer; two opposite transfers
give returns. A purchase, a sale and its return give a serial three movements in any
order that the statuses allow, and the audit is the document without a claim.
One batch, one job key and one gateway check are three kinds of work for a loop
with two turns, and a crash or stop can hit any step of any of them; three
versions of the settings let a voucher be built, lost and built differently. Two
labels are one unit with its replacement, or two units that compete for one
move; two locations are the least with a stale source. Three records of Master
are the configured one, one with its code elsewhere and one with another code at its
address. Three commits are one before, one during and one after a restore; two
folders are the one in the settings and the one before.
Four instants let an assignment start, expire, be reconciled and be extended
again; three batches let one be submitted while another is open.
`MaxOvertaken` 1 is the common case of two colliding requests. Larger values
break more: from 2 on a transfer can be dispatched twice; with 3 a receipt that waits
while its serial is received and dispatched back stocks a serial that has left, which
`Conserved` and `CompleteAgrees` show, and a sale whose second submission waits while
the first one, a scan of the returned unit and the submission of the return commit is
submitted twice (`SubmittedOnce` in `batches` with `MaxOvertaken` 3; it holds there with
2, and `CompleteAgrees` does in `transfers_return`). The
claims compare a status, and a status can come back. What holds for every value
is in section 6. Deadlock is not checked because a bounded instance ends (all
documents used up, all commands acknowledged, all faults spent); the two Tally
runs, whose loop never ends, check it.

**Fairness.** The worker loop calls push and poll every interval for ever
(`master_sync_worker_loop`), so its `StartPush` and `Fetch` are weakly fair, and
so are the steps of a call that has started: a request is answered or times out.
Clocks advance, and a paused node is resumed. Request threads and administrators
need not start anything. Faults are finitely many: with infinitely many stalls
or manual retries an event need not ever be confirmed. In `Transfers` only
delivery and application of messages are fair, which `EventuallyConfirmed` and
`EventuallyAcked` justify; users may abandon any document. In `TallyWorker` the
loop, its thread and a started notification are weakly fair (an exception is
caught and the loop goes on; requests to Tally have a timeout), and leases and
waits end; requests, settings, stops and crashes are not. In `Maintenance` a job
that has the lock goes on or fails, and the timer of the backup worker fires.

## 6. Proofs

The theorems hold for any finite or infinite sets of actors, documents and
serials and for any bounds, except where a condition is named. Every safety
property that a run checks is proved, and so are both refinements. Each
proof module states the inductive invariant of its component as a theorem
(`Inductive` and the like; in the delivery and maintenance modules the lemmas
`InitIInv` and `NextIInv` take its place) and derives the properties from it. The
invariants are written at the end of the component's module.

*MasterOutbox.* `NoSequenceGap` is not inductive: it speaks of posted requests
only. `IInv` adds that every pusher past its `SELECT` works on an event at most
one ahead of Master's cursor (its predecessors were `SENT`, hence recorded, when
it was selected, and the cursor never goes back, so this survives that another
pusher overwrites a `SENT` row), that an acknowledgement is of a recorded event,
and that late requests obey the same bound. From it follow `TypeCorrect`,
`NeverSendsGap`, `ReportsAreTrue` and `OutboxImplementsEventLog`: each step of
the code appends, records, confirms, reopens, or is a stutter of `EventLog`.

*MasterInbox.* `IInv` adds to `ExactlyOnce` and `AppliedInOrder` that an
acknowledged command was applied (`AckedIsApplied`), that a poller's list is a suffix of what is not applied
(`TodoIsSuffix`) and that a poller about to acknowledge holds an applied command
(`ReadyToAck`). From it `CommandsApplyOnce`, `CommandsApplyInOrder`,
`AppliedProofKept`.

*Transfers.* Three invariants, each on the one before. `BaseInv` holds however
requests overlap: a request knows what it will store, a message is between its
sender and its receiver, a receipt names only what the destination has recorded.
It gives `TypeCorrect` and `SourceBelievesTheReceipts`. `JourneyInv` needs
`OneOvertakes` (`MaxOvertaken` 0 or 1). `Conserved` compares snapshots, so it
does not say why a step keeps it; `JourneyInv` says where in its journey
each serial is: reserved by one draft, in a manifest under way, at the
destination, received and reported by one receipt under way, settled. No message is on its way
twice, nothing else claims a serial during its journey, and a request that was
overtaken once still fits: what it read is true, or its claim must fail. From it
`SerialsAreConserved`, `DraftsAreDispatched` (`DispatchedOnce`, which needs
the bound: two overtaking commits refute it) and `TransfersImplementCustody`. There
the custodian of a serial is the one place where it is (`Mapped`), the
manifest of a transfer what is on its way or has arrived; a dispatch and a receipt whose claims succeed hand
over, a sale sells, and every other step, the arrival of a manifest and the
settlement of a receipt among them, is a stutter of `Custody`. `AgreementInv`, under
the same condition: a manifest and the items at both sides agree unless the transfer
is raced (`ManifestIsKept`), the
items the source has not settled are those the destination has not received or whose receipt is
under way, receipts are not empty and the last one completes. Overlapping partial
receipts take an argument of their own (`ReceiptsKnow`): scanned items stay scanned, so
of two receipts that have read the same one is part of the other, and once one of them
is stored an item of the other is received already; that item is no longer in
transit, so its claim fails, and it never writes the status it has computed. From it
`CompletenessAgrees` and `QueuesAreNeverBlocked`. The last is the longest
argument: a serial that comes back with a second transfer is accepted because the
receipt of its departure was sent, hence is applied, before the manifest of its return
(`ReceiptsComeFirst`), and a franchise knows a serial only while it has it or it may
come back (`SerialsAreKnown`).

*Enrollment.* The theorems assume `OnlyConnect`: only `/connect` requests overlap
others. `/initialize` and `/settings` do not take the lock, and beside
another request both break what is proved (section 5). `IInv` says that the lock
keeps one request at work (`OneRequest`), that the node noted in the database is the one
the configured code and address name, and that the credential is its own or one
`/settings` was given (`Linked`), that other records have received nothing unless
their credential was given (`Received`), and what a request in each phase may rely on
(`RequestFits`). The last makes the crash between file and database harmless: with
events in the outbox no other code or address than the configured one is ever written.
From it
`BaselineIsFirstAndOnly`, `FranchiseIsLocked`, `HistoryHasOneOwner`,
`LinkIsRepairable` and `TypeCorrect`.

*Batches.* `LedgerIsSound` and `EventsAddUp`, for any overlap: a submission
appends a movement from the status it claimed, which is the present one, so the
chain is unbroken, and its event states the status it wrote. `ChainGrows` is the
lemma about sequences. `BatchesAreSubmittedOnce` needs `FewOvertake`: at most
one commit overtakes a request. `OnceInv` adds that a request nobody has
overtaken writes into a draft it knows as it is (`RequestsAreFresh`), and that a
submission that came too late finds a serial in another status than it read, so
that its claim fails (`LateCannotClaim`; an audit claims nothing, so the property is
about batches that move stock).

*TallyWorker.* No condition but the exceptions of section 5: stops, crashes, orphaned passes and any number of
batches and jobs. `IInv` says that a pass knows its plan, its job and its batch
where it needs them (`PassesAreWhole`) and that the loop starts none while it
waits (`OneAtATime`). `VoucherInv`: whoever posts holds the lock and has claimed a
batch with a frozen payload (`PostsUnderLock`), and what Tally has taken of a
batch is that payload and nothing else (`PayloadIsFrozen`), which needs that a
pass that is alone still knows the batch as it loaded it (`LoadedIsCurrent`).
`JobInv`: a pass that is alone has its job to itself and its answer is no older
than the request (`JobsInHand`). `WakeInv`: what the scan after the event was
cleared has looked at is not queued, unless a request has come since
(`NothingMissed`). From them `OneVoucherPerBatch`,
`SyncedBatchesAreInTally`, `WakeupsAreKept`, `AnswersAreFresh`, `TypeCorrect`.

*Warehouse.* No condition but those exceptions. `StockInv` adds to the properties that an unused
serial is blank (`UnusedIsBlank`), that a unit with a label exists and has one
active label (`UnitsExist`, `OneActiveLabel`), and that legacy mode writes no
events; `RequestsFit` says that a waiting request has read a row that is as it was
read or is marked as changed. That a replacement retires the old label in the
step that adds the new one carries the proof of `LabelsTellPlaces`; the claim of
a move at its recorded source carries `MovesArePaths`. Further `EventsTellPlaces`,
`ProductsOutliveLabels`, `UnitsHaveOneLabel` and `TypeCorrect`.

*Maintenance.* No condition but the exception. None of the three invariants is
inductive. `IInv` adds that a restore works on a whole source (`SourceIsKnown`) and
that a job past its verification holds a whole copy (`CopyIsKnown`), in both cases
unless a file was exposed: the verification is not trusted with it. Further, that the
safety backup is the newest file of its folder while its restore runs, so that pruning
with any retention keeps it (`SafetyIsNewest`), that a log of another file lies beside
the database only in the window after the replacement or when that window has been
exposed (`StaleIsKnown`), that the file or its log is a mixture only then
(`MixedIsKnown`), and that a connection which is not an orphan never sees such a log
(`CurrentIsFresh`). From it `TypeCorrect`, `ListedBackupsAreWhole`,
`SafetyBackupSurvives` and `RestoredIsWhole`. The lemmas on `Kept` say what
pruning leaves of a sequence.

*Audits.* No condition but the exceptions. `AuditInv` adds that what does not
exist yet has no batch, scan or finding (`NothingYet`) and what a request that
waits knows (`AuditRequestsFit`): it works on rows that exist, it has read them in the
past, and a deadline it sets was ahead then. A reconciliation or an extension that was
overtaken writes from the deadlines it has loaded; either they are still the present
ones, so that what it calls missing was not scanned and is over, or the assignment is
outdated. A scan that is committed after a report has called its serial missing is
stored after the deadline. From it `AuditsInductive`,
`MissingComesLate` and `MissingWasNotScanned`. `AuditInv` says nothing of `order`, the result of a
sort, on which neither property depends.

The assumptions on constants are those named in the modules: bounds are natural
numbers, batches have types, `Workers` are pushers, retentions are at least 1,
names of different kinds differ (`NamesAssumption`, `NodesAssumption`), and a
franchise code is unique at its Master (`IdentityAssumption` of `Enrollment`).

Only model-checked: liveness (`EventuallyConfirmed`, `EventuallyAcked`,
`SourceLearns`, `BatchIsTried`, `RequestsAreAnswered`, `SyncingIsTakenOver`,
`CommitsAreBackedUp`), which needs fairness and `ENABLED`. The conditions are needed: TLC refutes `DispatchedOnce` with two
overtaking commits, `Conserved`, `CompleteAgrees` and `SubmittedOnce` with three, and
`OneBaseline` and `CodeLocked` with `/initialize` or `/settings` in `Overlapping`
(section 5). Between the bounds lie `Conserved`, `CompleteAgrees` and `SubmittedOnce`
with two overtaking commits: proved for one, refuted with three.

## 7. External parts

Master and the network are modelled as the code uses them: it records the next
sequence, acknowledges again what it has, refuses a gap, lists unacknowledged
commands in order, and routes a manifest or receipt to the other franchise.
The ORM's flush and the death of the process are external too. Tally takes a
voucher or refuses it, and its answer arrives, is lost, is cut off or cannot be
read. SQLite recovers whatever log it finds beside a file it opens, and a
connection to an unlinked file or log goes on without error: what it commits goes
nowhere, and it brings nothing into the new file. `PRAGMA integrity_check` and
`foreign_key_check` may accept a mixture of two databases or reject it. The pool of
connections is the set of their kinds, and one request at a time is modelled: more
would hold connections of the same kinds. An uploaded file is a state of this
database. A credential that `/settings` or `/connect` is given is one that Master has
issued to some record.

## 8. Not modelled

- The SFTP exchange (`sftp_tally_sync.py`): nothing reaches it. Its functions in
  `routers/lite_sync.py` have no route, and `main.py` does not start its worker.
- Access control, login and sessions: checks local to a request. Every action
  assumes an authorised user.
- Reports, movement analysis, exports, charts, label layout: read-only.
- Voucher arithmetic, documents, XML, the parsing of Tally's answers and of
  spreadsheets, and the import of a Tally sheet into a batch, which exists only
  outside Lite.
- Migrations, seed data and deployment.
- The outbox inside a reset: a reset empties it but keeps SQLite's
  `AUTOINCREMENT` counter, so the next baseline has a sequence a fresh Master
  record does not expect.
- Transfers reset the location of a serial; `Warehouse` has no transfers.

Hazards no property covers have a note in `PROJECT.json` saying why. Smaller ones
are not listed there: the `AUDIT` row of the ledger records a status loaded
before the lock (`services/inventory.py:429`), two extensions of a deadline
compare with the one they loaded (`services/audit.py:161`), a `VERIFIED` finding
stays when its scan is removed (`services/audit.py:336`), a move checks its
destination before the lock (`services/relocation.py:252`), and enabling Tally
sync does not wake the worker, which finds the work at its next interval.
