# Verification of OCA server-tools

This directory holds TLA+ models of the addons of this repository (67 addons for
Odoo 16, about 18 000 lines of Python without tests), TLC configurations that check
them, and proofs checked by TLAPS. The addons have little in common but their host:
each of them changes one mechanism of Odoo. The ones that keep state across
transactions, processes or servers are the ones worth a model; many of the others
are one override of one method.

Contents: [inventory](#inventory) · [plan](#plan) · [what is modelled](#what-is-modelled) ·
[runs, bounds, results](#runs-bounds-and-results) · [fairness](#fairness) ·
[proofs](#proofs) · [divergences](#divergences-between-code-and-documentation) ·
[what is not modelled](#what-is-not-modelled) · [how to run](#how-to-run)

## Inventory

Common ground of all addons: a request, a cron job or a queue job is one PostgreSQL
transaction in isolation level REPEATABLE READ, so it reads from a snapshot taken by
its first query; a row that was rewritten since cannot be locked or written (a
serialization error). A process may die anywhere; PostgreSQL rolls back and frees its
locks. Several worker processes run at the same time. What an addon does outside of
the database (a remote file, an IMAP flag, a second cursor, process memory) is not
rolled back.

### Addons with state and interactions of their own

| addon | state | operations | interacts with | hard behaviour | correct if |
|---|---|---|---|---|---|
| `attachment_queue` | rows with `state` pending / failed / done, one job per schedule | create, reschedule (button, wizard), `set_done`, `run_as_job`, `button_manual_run`, failure mail | queue_job runner; PostgreSQL row lock (`FOR UPDATE NOWAIT`) | job and user on one row, state read before the lock, refused locks and retries, failure inside the failure handler, worker death | no two run a row at once, each schedule is processed once at most, a pending row has a job and is handled |
| `attachment_synchronize` | tasks; files on a remote server; `attachment.queue` rows | import scheduler (cron), run (button), duplicate filter, rename / move / delete after import, export | fs_storage, `attachment_queue` | server and database without a common transaction, overlapping passes, snapshot of the main cursor against commits of the per-file cursors, one server down | no file lost, none imported twice, every reachable file imported |
| `base_cron_exclusion` | symmetric relation of exclusive actions | lock of the exclusive rows by a second cursor around `_process_job` | Odoo's cron loop | two locks in two transactions, relation edited in between, `LockNotAvailable` ends a pass | exclusive actions never run together, locks are given back |
| `cron_daylight_saving_time_resistant` | `nextcall` in UTC | adjustment after each run | Odoo's cron loop, time zones | three different moments used in one computation, boundaries of a change | same local hour on both sides of a change, adjusted twice a year |
| `base_changeset` | changesets and changes (draft, done, cancel), old values | create / write of a record, apply, reject, validation rights | any tracked model | several pending changes of one field, whole changesets against single changes, dates of one second | only approved values are written, unbroken chain of old values, four eyes, order |
| `base_exception` | rules, stored exceptions, `ignore_exception`; ormcache per worker | rule edits, detection, check in a constraint, ignore, confirm | registry signalling; the models that inherit it | stale caches, stored exceptions older than the data | current rules are evaluated, stored exceptions are the present ones |
| `session_db` | table `http_sessions`; one cursor and lock per process | save, delete, get, vacuum | PostgreSQL on an autocommit connection | shared cursor, re-entrant lock, retry of a statement that may have been executed | one user per cursor, calls end, atomic table |
| `module_auto_update` | saved checksums, module states, the disk | `upgrade_changed_checksum` with commits between its steps | Odoo's upgrade, deployments | crash between commits, upgrade failing half way, missing directories | no change missed, success reported truly |
| `auditlog` | rules, log lines; patched methods of model classes | subscribe / unsubscribe, full and fast logs of create, read, write, unlink | ORM, registry | patches live in memory and outlive a rolled back transaction; other workers | a subscribed model logs every change exactly once |
| `fetchmail_attach_from_folder` | folders, flags and messages on an IMAP server | fetch, match, attach, move or flag | IMAP | savepoint per mail against a server without transactions | no mail lost or attached twice |
| `mail_cleanup` | flags of IMAP messages | cleanup and expunge before each fetch | fetchmail of Odoo | several message selections in one session | only read and old messages are purged |
| `letsencrypt` | key and certificate files, account | renewal, challenges (HTTP, DNS), reload | ACME server, file system | any step may fail, a certificate near its expiry | never an unusable pair of key and certificate |
| `auto_backup` | files on disk or SFTP | backup, cleanup of old ones | file system, SFTP | several databases in one action | old backups are removed only after a successful new one |
| `autovacuum_message_attachment` | messages, attachments | selection by rule, deletion in committed batches | cron | restart in the middle | only what the rule selects is deleted |
| `database_cleanup` | orphaned modules, models, fields, tables | purge wizards | Odoo's uninstallation | order of purges | nothing that is in use is purged |
| `base_import_odoo` | import mappings, dummies | import of records from another database | remote Odoo | cyclic references, partial imports | a record is mapped once, dummies are replaced |
| `tracking_manager` | tracking messages per request | collection before, posting after a write | ORM, mail | nested writes, x2many lines | every tracked change posted once |
| `upgrade_analysis` | rows of `upgrade.record` on a database of each version, lists of renamings, the report and the file of changes | generation (all modules loaded again), analysis of fields, models and XML ids, noupdate diff | registry loading, data files, openupgradelib | several matching passes that consume two lists; merged modules; a generation that is interrupted | every change a migration must act upon is reported, noupdate records are brought up to date, user edits kept |
| `excel_import_export` | templates (rows of instructions), sheets, documents | export, import with deletion of old lines, draft check | openpyxl, xlrd | tables of unknown length above each other, rows inserted in the middle, the end told by an empty row | nothing lost in the file, an import gives the exported lines |
| `base_remote` | table of remotes | creation on the first request | HTTP | concurrent creation | one row per address |
| `scheduler_error_mailer` | – | mail about a failing job | Odoo's cron loop | a failure in the handler of a failure | the error is not hidden |

### Pure or almost pure parts

`base_time_window` (overlap of windows), `base_sequence_option` (one matching
option), `base_domain_inverse_function` (parsing of composed domains),
`attachment_delete_restrict` and `base_model_restrict_update` (who may do what),
`jsonifier` (parsers). Their results depend on one call's arguments and not on a
history, so their tests reach what a model would.

### Addons without behaviour to model

Views, parsing, formatting, images, assets, developer tools and one-line overrides; `PROJECT.json` lists each with its reason.

### Interactions between addons

`attachment_synchronize` creates rows of `attachment_queue`, whose jobs then export
them. `base_cron_exclusion`, `cron_daylight_saving_time_resistant` and
`scheduler_error_mailer` all override `_process_job` of `ir.cron`.
Otherwise the addons interact only through the database and through Odoo.

## Plan

Order, most important first. Done in this state of the project:

1. `AttachmentQueue` over the abstract `AttachmentLifecycle`, with proofs.
2. `CronExclusion`, with proofs.
3. `Changeset`, `BaseException`, `AttachmentImport`.
4. `SessionStore` over the abstract `SessionRegister`, with proofs.
5. `CronDaylightSaving`, `ModuleAutoUpdate`.
6. `AuditLog`: patched methods per worker, rolled back rules, full and fast logs.
7. `AttachmentExport`: jobs and the button of a task write files to the server.
8. `Mailbox`: `fetchmail_attach_from_folder` and `mail_cleanup` on one folder.
9. `Letsencrypt`, `AutoBackup`, `MessageVacuum`: chains of steps that may fail.
10. `ImportOdoo`, `DatabaseCleanup`, `PropertyPurge`, `TrackingManager`.
11. `UpgradeAnalysis`, `UpgradeData`, `ExcelTemplate`: algorithms over small inputs.
12. In `Changeset`, the choice of a rule by the source of a change.
13. Proofs about `BaseException`, `ModuleAutoUpdate`, `AuditLog`, `Changeset`, the mailbox,
    the backups, the clean-up, the wizard of properties, the import from Odoo, the change of
    the clock, the tracking of lines, the comparison of XML ids and both sides of
    `attachment_synchronize`, its filter of names included ([proofs](#proofs)).

A composition of the three overrides of `_process_job` was planned and dropped: they share
no state. `base_cron_exclusion` either raises before the others have done anything or calls
them unchanged, and the adjustment of the clock and the mail about a failure look at one
action each.

Each `Definition_Variant` in a module is a mutation: what the definition beside it
would be with a plausible bug. Nothing refers to it; `PROJECT.json` names the property
that breaks when it takes the definition's place.

## What is modelled

### AttachmentQueue, AttachmentLifecycle — `attachment_queue`

`state` is the committed state of each row, `job` the queue_job records, `tx` the open
transaction of each worker and user with the state its snapshot has `seen` and whether
the row was rewritten since (`stale`); `sched` and `runs` are history counters.
`Create`, `Reschedule` and `SetDone` are the requests that write a row; they enqueue
one job per attachment in their own transaction (`ScheduleJobs`). `JobStart` /
`UserBegin` take a snapshot; `Lock` is the `FOR UPDATE NOWAIT`, which succeeds on a
free row that was not rewritten (`CanLock`); `LockBusy` is its refusal; `Skip`, `RunOk`
and `Commit` the branches of `run`; `JobFail`, `JobFailMailError`, `JobSerialize`,
`JobRetryable` the exceptions of `run_as_job`. The job runner (retry counting, dead
workers) and PostgreSQL are external. `_run` is an empty hook in the addon: only its
outcome matters. `Unmailable` are the attachments whose failure mail may raise.

`AttachmentLifecycle` promises an atomic life: an attachment is granted a schedule,
runs to done only on such a credit, fails, or is set to done. `ImplementsLifecycle`
is the refinement: the module's own variables `state`, `sched` and `runs` are those of
the abstract specification.

### AttachmentImport — import side of `attachment_synchronize`

`remote` and `arrived` are the versions of each file on the server, `archived` what
was moved or renamed, `rows` the committed attachments, `pass` the progress of each
process: the tasks to do, the names its snapshot knows, the names listed, the file in
hand. `List`, `Read`, `TakeAway` (or `Leave`), `CommitFile` are the steps of `run_import`;
`Abort` is what an exception does: it ends a button's pass, while the scheduler goes
on with the next task after a rollback (a new snapshot). Renamed files are taken not
to match the pattern again.

### CronExclusion — `base_cron_exclusion`

`excl` is the relation as stored (read in both directions by `Exclusive`), `worker`
the progress of each cron worker: its own row (locked by Odoo's cursor), the rows read
(`ids`), the rows locked by the second cursor (`held`). Administrators edit the
relation and switch actions on and off whenever the row is not locked. An action's
code may call `_trigger()` on another (`Triggers`) and waits for its row.

### CronDaylightSaving — `cron_daylight_saving_time_resistant`

Time is counted in hours, one year with two changes. A run is two transactions:
`Reschedule` is `super()`, which commits the `PlannedCall` and with that gives the row
free; `ProcessJob` is the rest, which takes the `Adjustment` off what `nextcall` is by then
and looks at the clock after the run but at the row as it was before (`job`). Between the
two another process may run the action, or the first one may die or fail
(`LoseAdjustment`): nobody makes up for that, and the history variable `drift` sums up
what was lost. Late servers, triggered runs and failing ones are actions.
`KeepsUp` names the actions for which the computation finds the call that Odoo has planned:
calls that are not limited or limited to one, and runs that end, with their adjustment,
before their next call.

### Changeset — `base_changeset`

One record with several fields. `Rules` are rows of `changeset.field.rule`: a rule of the
source a change comes from is taken before the global one (`RuleFor`), so one field may
be applied at once for a connector and wait for a validator when a person writes it.
`Create` and `Write` are whole calls: `add_changeset` (which values become changes, which
of them are left to write) and the write. `Apply` / `CancelSet` are `apply` and
`cancel`; the four buttons differ in whether the pending check is skipped, like
`skip_pending_status_check`. The code applies the selected changes in the order of the
recordset; changes of different fields have nothing to do with each other, so `Apply`
takes any order of the open changes of each field (`OfField`, `Orders`), and `OldValue` is
what the change before it in that order has written. Each handler is one transaction on one record, and
concurrent ones conflict in PostgreSQL and are replayed, so each is one step. `log` is
the history of applied changes.

### BaseException — `base_exception`

Each worker has a `cache` and possibly a waiting signal; a request looks at the signals
(`Look`), takes its snapshot (`Begin`) and acts. `CheckedWrite` is a write of a constrained field
(the document and its constraint are those of the addon's tests), `Detect` a detection
by itself, `EditRules` any edit of rules (`Switched` is what it commits), `Signal` Odoo's
signal, sent after the commit. A request that looks before a signal and takes its snapshot
after the commit it stands for is `late`, a history the properties except: it evaluates a
cache older than its snapshot, once. Not modelled: a worker that dies between a commit and
its signal, and two requests of one worker at a time.

### SessionStore, SessionRegister — `session_db`

`pc` is where a thread is in `with_lock` and `with_cursor`: waiting for the lock, about
to connect, executing, waiting for the answer, in the `except` branch. A statement may
fail without effect (`ExecuteFails`) or take effect and lose its answer (`AnswerLost`);
both are retried up to `Tries` times. A process has a lock if it is evented or
threaded; a process with one thread needs none. A statement may also raise an error that
is not retried (`ExecuteRaises`). `EveryCallEnds` says of a call that it ends and has given
the lock back. `SessionRegister` promises a table on
which a call takes effect at least once between its beginning and its end if it
returns, and possibly if it raises. A statement whose connection breaks is assumed to
take effect before the client notices, or never.

### ModuleAutoUpdate — `module_auto_update`

`disk` is the version (checksum) of each directory, 0 if it is missing; `applied` the
version the database has; `saved` the stored checksums. A run is `Mark`,
`EnsureModuleState`, `Upgrade`, `SaveInstalledChecksums`, `Report`, each ending in a
commit, and may die or fail between them (`Crash`, `MarkFails`). `upgrade_module` itself
commits after each module: `UpgradeStops` leaves any set of modules upgraded that is closed
under dependencies, the others without their marks if a module fails to load
(`UpgradeFails`) and with them if the process dies (`UpgradeDies`).
Administrators and deployments are external, and act between runs unless `Meddling`.
Two runs at the same time are not modelled.

### AuditLog — `auditlog`

`rule` is the committed rule of one model, `tx` what an open transaction made of it;
`patched` and `marked` are the replaced methods and the attributes on the model class in
the memory of each worker. `SaveRule` (for `CreateRule`, `EditRule`, `Subscribe`) patches
its own worker before `CommitRule`; `RollbackRule` leaves the patches. The addon then calls
`signal_changes`, but sets neither `registry_invalidated` nor `cache_invalidated`, and Odoo
sends nothing: the other workers keep their classes until `Reload` (the registry was
invalidated for another reason) or `Restart` builds them from the committed rule.
`outdated` notes the workers that need it. `CreateRecord`, `WriteRecord`, `UnlinkRecord`,
`ReadRecord` and `ExportRecord` are audited calls, each a transaction: the log lines are
those of `create_logs` for full and fast rules, with computed fields, hidden ones
(`Hidden`), those the rule excludes (`Excluded`, only while there is a rule) and exempt
users. `silent` notes the fields that no log had to tell.

### AttachmentExport — export side of `attachment_synchronize`

`xpTx` is the transaction of each process: a job with one row, or the button of a task
(`run_export`) with all pending rows, locked one after the other and kept. `OpenFile`
empties the file on the server, `CloseFile` ends it; between the two an error leaves a
part. `ExportFails` is written within the transaction, `Timeout` commits everything the
transaction has done so far, `LockBusy` rolls it all back while the server keeps the
files. Names are different: two attachments with one name overwrite each other on the
server, as the code makes no difference.

### Mailbox — `fetchmail_attach_from_folder`, `mail_cleanup`

One IMAP folder, two passes at a time. `inbox` has the flags of the mails that are
there; `session` the stage of each process, the mails its search selected, the messages its
snapshot knows, those it has attached and its view of the folder. Per pass: `CleanupMail`,
`SearchPurge`, `PurgeMails` (`mail_cleanup`), `Search`, then `FetchMail`, `UpdateMail` (or
`FetchFails`, `UpdateFails`, back to the savepoint) and `ArchiveMail` for each mail, `Close`,
`Commit`. What was done on the server survives the savepoint, `Crash` and `LoseConnection`:
the `logout()` in the `finally` of `fetch_mail` raises on a dead connection (imaplib of
Python 3.8 and later), and the whole pass is rolled back. The clean-up names mails by
number (`Numbered`): a server may say that others expunged mails, and renumber, in its answer
to a COPY only (RFC 3501, 7.4.1), so that a number can change its meaning between the COPY
and the STORE that flags the mail; the UIDs of the folder pass never do. `astray` notes the
mails that a pass let go in one of these ways.

### Letsencrypt — `letsencrypt`

`keys` and `certs` are the files on disk, "cut" if they were left incomplete, `run` the
step the daily job is at. `Start` is `_should_run` (missing, due, expired, or without a
configured name), then account, key, order, one answer per challenge, certificate, save,
reload. `Fail`, `KeyError` and `DieWriting` are the failures. Names with a wildcard cover
the ones below them (`_cascade_domains`).

### AutoBackup — `auto_backup`

`files` are the days of the complete files of each configuration; `run` the action in
progress: what is to do and what is done. `Turn` is whose turn it may be: local backups
come before those by SFTP, the order of the recordset within each kind is left open. A
failing backup leaves the others, and at the end comes `Cleanup` for each configuration
that succeeded.

### MessageVacuum — `autovacuum_message_attachment`

`SelectRows` takes a rule, `DeleteBatch` a batch of what it selects, `DeleteFails` ends the
rule on an exception (`Undeletable`), `Die` the run, and so does `SelectFails` if the filter
of the rule cannot be evaluated (`Broken`), which nothing catches. Messages and
attachments are selected as `get_domain` says.

### DatabaseCleanup, PropertyPurge — `database_cleanup`

`DatabaseCleanup` keeps the registry (`env`), the directories (`onDisk`) and the rows and
tables of the database; `irModules` are the modules that have a row, installed or not, and the
wizard of modules lists all of them that have no directory. `Find` fills one wizard at a time with what its `find()` calls
orphaned; the `Purge…` actions take some or all of the lines, possibly after the code was
changed meanwhile. `PropertyPurge` is the wizard of `ir.property`: `Effective` is what
Odoo shows for a record in a company, `Find` collects rows of unknown models, empty
defaults, rows equal to the default and doubles as the code does, `Purge` deletes any of
the lines.

### ImportOdoo — `base_import_odoo`

`db` and `saved` are the local records and xmlids, as seen and as committed last; `mem`
the import context (idmap, dummies, instances to replace). `ImportRecord` finds a record
or creates it, with a dummy for a link whose target has not come, `CleanupDummies`
replaces the dummies of a record that has; a chunk is committed every `Chunk` records
and `Interrupt` loses the rest. The policies for duplicates are all checked.

### TrackingManager — `tracking_manager`

The lines of a one2many field within one transaction. `tmBefore` and `tmData` are the
precommit data (first values; creations and deletions), `tmHooks` whether the callback is
registered. `Finalize` is the callback: it posts (`tmLog`) and clears. Odoo calls it
before the commit and when a savepoint is opened or released; a rollback of the
savepoint forgets the data.

### UpgradeAnalysis, UpgradeData — `upgrade_analysis`

`UpgradeAnalysis` loads the modules of both versions one by one (`LoadModule`), logs the
attributes of the fields that each adds or changes (`CompareRegistries`) into `uaRecords`,
possibly interrupted and generated again, and compares: `CompareSets` has the passes of
`compare_sets` in their order, `CompareModelSets` those for models. `UpgradeData` does the
same for XML ids (`CompareXmlSets`) and models the noupdate diff (`XmlDiff` over
`ParseFiles`), then has the module updated and the file loaded (`LoadDiff`).

### ExcelTemplate — `excel_import_export`

A template has cells of its own, a head and sections for tables (`_CONT_`, `_EXTEND_`,
`_NODEL_`, `[max]`, sums). It is kept as rows and composed again as an instruction.
`Export` is `export_xlsx` with the insertion of rows, `ImportXlsx` the deletion of old
lines and the reading of the tables; the wizard is opened, then used, while the document
may be edited or confirmed. `InsertRows` is openpyxl's: rows that move by nothing are
stored and then deleted, so that a table that extends and has one line removes all below it.

### Modules of several components

`MCScheduled` and `Maintenance` put components that share nothing into one specification:
a behaviour is one of a single component (`part`), and the variables of the others have a
constant value. The states of the run are the disjoint union of the components' states;
no interleaving is added or lost. `Maintenance` instantiates ten components with constants
of any value (`AB!BackupKept` is the `BackupKept` of `AutoBackup`, and `BackupKept` the
same, guarded by `part`), so that its properties can be proved; `MCMaintenance` only adds
the constants of the run.

## Runs, bounds and results

Twelve runs; the counts are distinct states.

| run | states | asks |
|---|---|---|
| `attachment_queue` | 404 000 | Two attachments (one whose failure mail may raise), two jobs, two workers, one user, two retries, one crash or serialization error. Exclusive processing, once per schedule, no pending row without a job, eventual handling, refinement. Two workers and a user are what the row lock has to keep apart; the second attachment shows that rows do not disturb each other through the shared workers. |
| `attachment_import` | 102 697 | Three tasks (deleting; renaming and filtering; server down), a cron, a button on the first two, one crash. The second task's file is deposited twice, so that a filtered name comes back, and the button finds it while the cron imports it. |
| `cron_exclusion` | 161 000 | Three actions, two workers, one crash; an exclusion of two of them, entered and removed on the one row and read from both. The proof has any exclusions. |
| `cron_daylight_saving` | 5 138 393 | Two processes. Two changes within 170 hours, first calls on all sides of midnight and of the changes and one in the hour missing in spring, daily and two-daily actions, unlimited or one call, up to 40 hours late: longer than a daily interval. The winter half-year is shortened to a few days, more than the lateness. |
| `changeset` | 62 300 | Two users, one of them also through a connector; two fields with rules that depend on the source; two values (symmetric), three changes, two dates. Three changes are needed for one changeset between two others. |
| `base_exception` | 167 000 | One soft and one blocking rule, two workers. The state space is finite without bounds. |
| `session_store` | 50 400 | Two threads with a lock and one without in another process, one session, two attempts. A second session is only a second copy: statements touch one row, or all of them by age. |
| `module_auto_update` | 163 000 | Two modules, one needing the other, three versions, two faults. |
| `auditlog` | 1 335 827 | Two workers, an exempt user and another, a written, a copied and an excluded field, full and fast rules, two log rows, one rollback or restart. Two logs are enough for one value to be told, changed and told again. |
| `scheduled` | 2 454 | Letsencrypt with names, wildcards and an IP address, one change of them and two faults; the vacuum with five rules, one of them broken, on five rows, one of which cannot be deleted, batches of two, two faults. |
| `maintenance` | 1 323 202 | Ten components: two mails and two passes under three settings of the folder, and three mails for a clean-up into a folder; the two passes are alike (symmetry); three backup configurations over two days; three models, two of which share a table; three property rows for two companies; two exports with a job and the button; four records imported in up to three runs, one link each, all policies; two lines in transactions of three operations with a savepoint; fields of one or two modules, renamed or merged; files of up to four records of renamed and merged modules; four templates with two tables of up to two lines. One fault each where there are faults. |
| `import_links` | violation | Two records that refer to one imported after them: the second keeps its dummy. |

Liveness is checked without symmetry. Deadlock is checked except in `scheduled`,
`maintenance` and `import_links`, whose components stop by design: a certificate that is
valid, an analysis that is done, the last day of the bound.

What the passing properties say:

* `AtMostOncePerSchedule`, `NoConcurrentRun`: the snapshot rule of `FOR UPDATE` and the
  lock are both needed; without either (mutants) a job runs a row twice.
* `PendingHasJob`, `PendingIsHandled`: hold because a refused lock is retried without
  being counted (`ignore_retry`).
* `ImportedOnce`, `NoFileLost`, `NoDuplicateName`, `ReachableIsImported` of the import: no
  overlap of passes loses a file; a crash or a failing commit can, for a task that deletes.
* `DoneIsExported`: an attachment that is done has its whole file on the server although
  rows are rolled back, committed half way and exported twice.
* `NeverTogether`, `EveryRunEnds`.
* `FixedHour`, `TwiceAYear`, for intervals of whole days: neither change is taken twice, and
  the hour stays, however late or early the runs are and whoever runs the action between the
  two commits of a run. A run that is interrupted there loses its adjustment, and the hour
  is wrong by it for good: `FixedHour` says that this, and nothing else, moves it.
* `AuditChain`, `DecidedByAnother`, `OnlyApprovedValues`, `ClosedForever`, also when the
  action of a field depends on where its value comes from.
* `CacheFollowsRules`, `StoredIsCurrent`; `CursorHasOneUser`, `EveryCallEnds`,
  `ImplementsRegister`; `NoMissedUpgrade`, `SuccessIsTrue`, `EventuallyUpToDate`.
* `PatchedAsRuled`: a worker that is not outdated replaces each method of the rule once. `LogsReplay`: replayed, the logs end in the record.
* `NoMailLost`: a mail that has left the folder is in Odoo, in the archive, or was old, but
  for those `astray`.
* `EventuallyCertified`, `EventuallyVacuumed`: failures of single steps and rows do not
  keep the next run from its work.
* `BackupKept`: old files go only after a new one has come. `InUseKept`: no order of
  purges takes what a loaded model uses. `EffectiveKept`: purging properties changes no
  value that a company sees.
* `RecordsImportedOnce` of the import from Odoo: repeated and interrupted runs copy a record
  once.
* `NetChangesTold`: each flush posts the net changes since the last one.
* `ChangesReported`, `XmlidsTold`, `NoupdateUpgraded`: what a migration must act upon is
  in the report, and the file of changes brings noupdate records up to date.
* `SheetFaithful`: a sheet has all lines and what the template has, unless a table that
  extends has exactly one line (`CutOff`), and gives the lines back.

Each exception that a property makes (`outdated`, `astray`, `cut`, `stale`, `Mixed`, …) is a
behaviour of the code in which it fails; they are listed under divergences.

## Fairness

* `AttachmentQueue`: a transaction that has begun goes on (Odoo's time limits end it
  otherwise); the job runner requeues jobs of dead workers; a job that is pending again
  and again is started (strong fairness: the runner orders jobs by priority and date).
  No user is obliged to press anything.
* `AttachmentImport`: the cron fires again and again, and a pass goes on.
* `CronExclusion`: a worker takes its next step (weak fairness); an action that waits for
  rows, or is about to trigger another, in the end goes on and ends (strong fairness:
  PostgreSQL queues the waiters of a row, and the code of an action terminates). No fairness of Odoo makes one of two
  exclusive actions win: `LockNotAvailable` ends a pass, and two workers can hold each
  other back again and again. Nothing is claimed about that.
* `SessionStore`: a thread that can take a step takes one. Waiting for the lock is not
  promised to end (the lock is not said to be fair), so `EveryCallEnds` begins inside.
* `ModuleAutoUpdate`: the toolchain calls the upgrade again and again.
* `Letsencrypt`: the job is started every day and a step that does not fail ends (weak
  fairness of `Cron`; the waits for DNS are bounded in the code). Nothing obliges a step
  to fail.
* `MessageVacuum`: a run goes on and days pass (weak fairness of `Run` and `NextDay`);
  each of the two jobs is started again and again (strong fairness of `Start`: a job
  cannot begin while the other is running in the model, so it is not enabled all the time).

The other modules have safety properties only.

## Proofs

Every theorem holds for all values of the constants that meet the `ASSUME`s of its module;
some need a hypothesis more, which is named below with what happens without it. For each
module there is an invariant that is inductive, `Invariance`, from which the listed theorems
follow. The properties were checked by TLC on the constants of the run before they were
proved. The type invariants are proved with it.

* `AttachmentProofs`, about the queue: `TypeCorrect`, `OncePerSchedule`, `MutualExclusion`,
  `PendingAlwaysHasJob`, `LifecycleRefined`. The invariant `IInv` adds to the type:
  what phases say of the transaction (`TxInv`); that a transaction which is not stale has
  seen the row's present state (`SeenInv`) – the reason why testing the state after the
  lock is enough; that a job is in one worker's hands (`OneWorkerPerJob`, `JobInv`); and
  the books: runs done plus the credit of a pending or failed row do not exceed the
  schedules (`CreditInv`). The refinement uses it in the step where `Commit` spends a
  credit.
* `AttachmentProofs`, about the import: `FilesKept`, `FilesImportedOnce`, `NamesImportedOnce`.
  What is not deleted is on the server or in the archive (`StillThere`); of what is taken away
  for good, the pass that has taken it holds the only copy until it commits, and no second
  pass can (`TakenOnce`). Hypothesis `DepositedOnce`: no name is deposited again for the tasks
  that delete (`FilesKept`) or that delete or move (`FilesImportedOnce`); without it the two
  are false (see divergences). `NamesImportedOnce` has no hypothesis: a name that was imported
  is in the snapshot of the pass or was imported since, and what the pass itself has imported
  of its current task is not on its list any more (`NamesTrue`). `since` is a history of what
  passes have committed after the snapshot; only `Overtaken` reads it.
* `CronProofs`, about the exclusion: `RowsHaveOneOwner` (a row has one owner, so what a worker gives
  back cannot uncover another one's run; proved only), `MutualExclusion`. `NeverTogether` is not
  inductive: while an exclusion is being edited, two workers may have read different
  relations. `IInv` adds that the own row of a worker is enabled (`OwnEnabled`) and that
  of two exclusive actions in progress one has seen the other (`OneHasSeen`): an
  exclusion cannot be entered on a row that is locked, so whoever acquired its row last
  reads a relation that names the other.
* `CronProofs`, about the clock: `HourCorrect`, with the hypothesis `KeepsUp`, and
  `AdjustedTwice`, with `~ Overrun`, for any dates of the two changes, any interval and any
  delay. Adjusting by a change of the offset is right if the loop of the addon ends at the call
  that Odoo has planned (`SameCall`, `LoopEndFacts`); then whole days later is the same hour
  (`WholeIntervals`, `HourStays`). What a year allows is kept as books: before the change in
  spring nothing was adjusted and the hour is the one that was asked for, before the one in
  autumn once at most (`YearInv`). An hour of slack is lost when a call is moved back to just
  before a change, and only for the hour that is missing.
* `SessionStoreProofs`: `TypeCorrect`, `OneUserPerCursor`, `RegisterImplemented`. The
  invariant says who holds the lock in which phase (`LockInv`), that a thread waiting for
  an answer has had its effect (`AnswerInv`), and how many attempts are left
  (`TriesInv`).
* `ModuleAutoUpdateProofs`: `NoChangeMissed`, `SuccessCorrect`. The invariant has the marks
  (`MarksOK`: what is to be installed finds what it requires), the order of the versions
  (`VersionsOK`: nothing saved or applied is newer than the directory, nothing saved newer
  than what is applied) and what each phase of a run has established (`RunOK`). Hypothesis
  `~ Meddling`: no deployment and no cancelled plan while a run upgrades. With `Meddling`
  `NoMissedUpgrade` is false (see divergences).
* `AuditLogProofs`: `PatchesCorrect`, `LogsCorrect`. The invariant has two halves. Rules: one
  transaction of the rule at most is open, its worker has the methods it wants, and the
  workers that are not outdated have those of the committed rule (`Synchronized`). Data: a row has one line per field (`RowsOK`), and the last row that
  tells a field tells its present value (`Replayed`).
* `ApprovalProofs`, about changesets: `ApprovedCorrect`, `FourEyesCorrect`, `ChainCorrect`,
  `ClosedCorrect`. What makes them inductive: a draft comes from a rule that asks for
  validation (`DraftsToValidate`) – nobody else's approval could have been needed – and the
  history of a field names changes of that field which are done (`LogDone`), and what is done
  is not touched again. The chain is kept over a selection that is applied at once by lemmas on
  the orders of its changes (`AppliedInv`).
* `ApprovalProofs`, about base_exception: `CacheCorrect`, `StoredCorrect`. `CacheFollowsRules`
  speaks of a request and its snapshot; it is kept because a worker that no signal waits for,
  while none has still to be sent, has a cache and a snapshot that are up to date
  (`ToldIsFresh`), and a request that has looked and is not late is in this case
  (`LookedInTime`). A worker that signals takes over the number of its own signal and misses
  those before; its cache is empty then (`EditorIsEmpty`). What a detection stores is
  computed from the rules of the snapshot (`UpdateIsExact`).
* `MaintenanceProofs`, in sections:
  * `BackupsKept`: a backup made today is there until the action that made it ends (`DoneToday`),
    because its clean-up removes older ones only.
  * `MailsKept`: what accounts for a mail is taken back only by a rollback, which leaves it
    safe in the folder or astray, and every mail that carries the flag "deleted" is accounted
    for before it is expunged
    (`DeletedCovered`, `PurgedOld`).
  * `ExportsCorrect`: a row is locked by one transaction (`LocksExclusive`), which knows its
    present state and has the whole file of what it will set to done (`TxTrue`).
  * `ImportsCorrect`: every copy of a remote record is the one that its external id names
    (`FromXmlid`), in the transaction and in what was committed, and the import context names
    records that are there (`MemOk`).
  * `CleanupCorrect`: no line of a wizard names what a loaded model uses (`Unused`), as long as
    no model was installed meanwhile. Hypothesis `TablesFit`: models that share a table agree
    on whether Odoo manages it and on the fields that one of them retires, and a many2many
    table is no model's table. Without it `InUseKept` is false: to purge the retired field of
    one model drops the column that its sibling still uses. The instance of the run has a
    shared table and meets it (`InstanceFits`).
  * `PropertiesKept`: a line of the wizard is a default that gives nothing, or a record's row
    behind which a default stands that is not on a line itself (`Backed`), or one of several
    rows of which the first is not on a line for that (`LinesTrue`). So each company still
    finds the row it found, or one of the same value. Which of several rows counts is the
    first: that a set of ids has one (`FirstId`) is the induction the proof needs, taken from
    the library's theorem on well-founded minima. Nothing is assumed beyond what
    `EffectiveKept` itself excepts (see divergences).
  * `ChangesTold`: what the precommit data says is what is owed. The creations and deletions
    it lists are those since the last flush (`OpsNoted`); a field has its value of the last
    flush, or that value is the one which is kept (`ChangesKept`); an id that was deleted
    does not come back before the flush (`KeptFits`); without a callback nothing waits
    (`NothingWaits`). The callback makes a list of the finite set of lines that changed; that
    such a list has each of them once (`ListOfSet`) is what turns this into one message per
    change.
* `UpgradeDataProofs`: `XmlidsCorrect` and `NoupdateCorrect`, about algorithms over lists, for
  files of any length.
  `FoldLeft` is defined by recursion over the indices; that the partial results exist
  (`FoldExists`) is an induction over the numbers, done by the first number that fails
  (`FirstId`), and `Chain` gives a proof these results by name. Then: the databases have
  exactly the ids that the files name (`OldIds`, `InstalledIds`), the rows of the log are one
  for each module that loaded an id (`OldRowsListed`, `RowsListed`), a pass of the comparison
  pairs only what fits and tells what it pairs (`Matched`, `Match`), two rows that fit nothing
  else always (`Paired`), and so do the three passes with the rows left out between them
  (`Says`, `Compared`): an id that one side alone has ends as DEL or NEW, and one that both
  have is paired in the first pass, which tells it if its flag has changed, and cannot be taken
  by a later one. The step invariant `DataInv` only says that the report speaks of the files
  that are there.

  For the noupdate records the meeting point is what the files say of a field: the last
  element of the record that gives it, or none (`LastGiven`, `NotGiven`). A parsed element says
  exactly that (`ParsedFiles`: `SaidBy`), wherever the first element has put the record
  (`FirstIn`), and the files of several modules are parsed as if they were one (`RemoteParsed`,
  from `BlockKept`); a database that has installed the files holds it as well (`ModuleHolds`,
  `OldHolds`, `FreshHolds`). A followed key means one old record (`OldRecord`), which the
  renaming finds (`RenamedRecords`) and the update leaves as it is (`UpdateKeeps`); what the
  diff gives of a field then leads from the old value to the new one (`DiffLoaded`). The step
  invariant `NoupdateInv` says which of these the database has reached in each phase.

  About the upgrades both assume what `Assumption` in `UpgradeData` states: there is an old
  module (`if not remote_modules: continue`), the old modules are different ones, and none of
  them or of what they become is the module whose records they change.

Only model-checked:

* all liveness (`PendingIsHandled`, `EveryRunEnds`, `EveryCallEnds`, `EventuallyUpToDate`,
  `ReachableIsImported`, `EventuallyCertified`, `EventuallyVacuumed`): formulas with fairness
  and `ENABLED` are beyond the prover;
* `ChangesReported`, `SheetFaithful`: what folds and recursive functions
  over lists compute. The induction theorems of the library take operators as parameters, which
  no installed prover can instantiate; the detour by `FirstId` and `Chain`, which proves
  `XmlidsTold` and `NoupdateUpgraded`, takes a proof of its own for each fold of the algorithm,
  and these two have been left at bounded registries and sheets.

## Divergences between code and documentation

With a run that shows it:

* `base_import_odoo`: `_run_import_model_cleanup_dummies` removes entries from the list it
  loops over (lines 670-697), so of two records that wait for the same one the second keeps
  its link to the dummy (`import_links`), although the tests want links "correctly mapped".

Met while modelling, without a run of their own:

* `attachment_queue`: a failing failure mail leaves an attachment pending without a job.
* `attachment_synchronize`, import: two tasks of one pass import the same name although
  both avoid duplicates, and so do the button and the cron, as the filter asks the snapshot
  (`Overtaken`, which `NoDuplicateName` excepts). A file is deleted before its row is
  committed, so a crash or a failing commit loses it, although the comment at line 208 wants
  the opposite.
  `NoFileLost` excepts exactly this case. If a name is deposited again while two passes
  overlap, one version can be deleted unread and the other imported twice
  (`MaxDeposits` of 2 for a deleting task). One file that cannot be read ends its
  task's loop every time.
* `attachment_synchronize`, export: a refused lock rolls back rows whose files are on the
  server already, which are exported again later; a timeout commits the others.
* `auditlog`: a subscription reaches the worker that makes it. The others are not told
  (`signal_changes` without `registry_invalidated`): they log nothing, or go on logging,
  until their registry is built anew. A request that is rolled back leaves its patches.
  Both are `outdated`, which `PatchedAsRuled` excepts. This rests on Odoo's source, which
  is not in the repository. That a subscribed rule
  keeps its flags is only a matter of the form.
* `auto_backup`: the second local backup of an action copies the first one, which it opens
  as text (lines 161-163), and so fails.
* `base_changeset`: the changeset's reject button raises as soon as one change was
  applied, an automatic one for instance; the apply button skips closed changes. Rejecting
  a changeset overwrites the old value of changes that were rejected before.
* `base_cron_exclusion`: an action whose code triggers an action it excludes waits for a
  row its own worker has locked with the other cursor, forever. `EveryRunEnds` is
  checked with actions that trigger others only.
* `base_exception`: `action_ignore_exceptions` looks at the stored exceptions only, so
  blocking exceptions that were not detected yet can be ignored.
* `base_import_odoo`: dummies that an interrupted run leaves are kept under the policy
  "skip"; `dummy_id in context.to_delete` (line 698) is never true.
* `cron_daylight_saving_time_resistant`: Odoo commits the next call and the addon adjusts it
  in a second transaction; a worker that dies between the two, or an update that fails,
  leaves the action at the wrong hour, and no later run corrects it (`drift`). A daily action
  at the hour missing in spring is called an hour early from then on. Actions with an interval of hours, and those at the
  missing hour, may be called again and again around the change in spring, the call moved
  back before it each time (`TwiceAYear` excepts them); with a limited number of calls and several of
  them missed, or with runs that last until their next call (`Overrun`), the wrong offset
  is taken.
* `database_cleanup`: a wizard does not look again whether its lines are still unused
  (`stale`). Nor does it know that models may share a table: a field that only one of them
  retires takes the column with it, and so on (`TablesFit` below says what has to hold).
  `purge_fields` is not grouped by table; the columns are committed one by one;
  the wizard of indexes fails for two models on one table with the same field. Properties:
  companies are compared with the ids of defaults instead of those of companies
  (`purge_properties.py` 99-113); an empty default of a company that hides a general one is
  purged (`Mixed`); an empty default beside a filled one for the same company goes, and
  with it what equals the filled one (`Doubled`); doubles that are purged in part show
  another row; `find` raises when a row of an unknown model is there twice.
* `excel_import_export`: a section `_CONT_` begins in row 1 if the table before has no
  line; `_EXTEND_` without a line moves the rows below up, and with exactly one line deletes
  every cell below it, lines of other tables included (`xlsx_export.py` 227: `insert_rows`
  with an amount of 0, in openpyxl, whose source is not in the repository); a first empty row at index 0
  counts as none; a blank line ends a table when it is read; sections with `[max]` never
  delete old lines (`xlsx_import.py` 78) and raise beyond the sheet; the draft check is made
  only when the wizard opens; rows of totals that follow a table are read as lines; a
  table with a fixed row below one that grew collides with it; a text that looks like a
  number comes back plain.
* `fetchmail_attach_from_folder`, `mail_cleanup`: what was done on the IMAP server is not
  undone by a rollback, and the answer to the copy into the archive is not looked at
  (lines 337-341): such mails can be lost (`astray`). A connection that is lost takes the
  whole pass with it, the mails deleted on the server included (lines 187-189). The clean-up
  flags by sequence number after a COPY that may have renumbered the mails, and can delete
  one that was never copied (`mail_cleanup/models/fetchmail_server.py` 59-65). A mail that another run has attached
  already is treated as not matching (line 373) and flagged or left, where lines 83-88
  speak of ignoring it. Overlapping passes may attach a mail twice. The wizard that attaches by hand unpacks two values
  from what `fetch_msg` returns and raises.
* `letsencrypt`: key and certificate are written in place; a certificate that was cut makes
  every later run raise when it is loaded, a key when it is read (`cut`). A reload that
  failed is not tried again, as the certificate counts as current.
* `autovacuum_message_attachment`: a rule whose `model_filter_domain` raises ends the run
  (`autovacuum_mixin.py` 40-42): the rules of its type that follow it never run.
* `module_auto_update`: checksums are computed again after the upgrade, so a deployment
  or a cancelled plan during a run saves the checksum of code that was never applied
  (`Meddling = TRUE` violates `NoMissedUpgrade`). A deployment that is rolled back to
  the saved checksum after another upgrade looks unchanged.
* `tracking_manager`: a line that is moved is told to its new owner only.
* `upgrade_analysis`: an attribute that a later module empties is not logged; a stored field
  that becomes a function is skipped, as its record lacks "stored"; the third pass
  (`compare.py` 268-270) repeats the keys of the first; the branch for renamed fields
  (103-109) and the match of moved XML ids are never reached; lines of a renamed module
  are lost if the new one has no row. In the diff of noupdate records, an override of
  another module's record that was dropped, and a record in blocks of both kinds, are not
  brought up to date; files of merged modules are parsed again with those of the next one;
  a `<data>` without the attribute takes `noupdate` for false although Odoo gives it that
  of the `<odoo>` around it (line 399; not modelled: the blocks of the model say what they
  are); a template directly below the root is ignored, and one that is new under noupdate makes
  the serialisation raise.

## What is not modelled

* Queue_job, PostgreSQL, Odoo's ORM, registry and cron loop, fs_storage, IMAP, the ACME
  authority, openpyxl and xlrd: external, as the addons use them.
* Data: contents of files, expressions, templates, wording, views.
* `attachment_synchronize`: attachments with the same name in one directory.
* `auditlog`: HTTP requests and sessions, removal of old logs.
* `auto_backup`: the formats of a dump and the test of the connection.
* `base_changeset`: the expression and the company of a rule, many2many fields.
* `base_import_odoo`: several models with their own links, references by field, attachments,
  dummies that need dummies.
* `database_cleanup`: the wizard of missing indexes; that of menus is like that of data.
* `excel_import_export`: styles, formulas, reports by wizard, menus and actions.
* `module_auto_update`: the hash of a directory, the command line, concurrent upgrades.
* `session_db`: `rotate`, and the creation of the table.
* `tracking_manager`: the automatic choice of fields by a domain, the deletion of an owner,
  a configuration that changes within a transaction.
* `upgrade_analysis`: the connection to the other server, installing all modules, a
  generation after a failed loading without installing again what Odoo has then set to
  uninstalled (its fields are reported as gone), the coverage file, SQL constraints, `_order`, `_inherits` and definitions of models.
* The addons listed as `not_modelled` in `PROJECT.json`, with a reason each: one read, one
  check, one conversion or one override, or Odoo's own behaviour.

## How to run

    tlc -config AttachmentQueue.cfg MCAttachmentQueue.tla
    tlapm AttachmentProofs.tla

`PROJECT.json` names module and configuration of every run, maps definitions to source
lines, and lists hazards with the properties that cover them.
