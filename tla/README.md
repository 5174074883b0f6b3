# Operon (Kairélys): specification and proofs

Operon is an Obsidian plugin that keeps tasks in Markdown files and an index of
them in RAM, with a durable snapshot of that index, a family of small stores, and
services that work on it (renames of workflow values, reminders, time tracking,
recurrence, ...).  This directory holds TLA+ modules of the parts of it where order,
failure and restarts decide whether data survives; TLC checks them on small
instances, and TLAPS proves the central results for every value of the constants.

Paths below are relative to the repository; `src/` in them is the TypeScript source
directory and `main.ts` the plugin at its root.

## 1. The system

Everything runs in one JavaScript thread.  "Concurrency" therefore means: other
handlers run between any two awaits; several chains of promises (write queues, the
index queue, the run queue of the rename coordinator) advance independently; timers,
window and vault events arrive at any time; another device changes files through
Sync; and the process may die anywhere (mobile systems kill it without `onunload`).

### Parts, state, interactions

| Part | State | Operations | Talks to | Hard because | Correct when |
|---|---|---|---|---|---|
| Index V8 store (`indexer/persistence/index-v8-store.ts`) | `manifest.json`, alternate ("sync conflict") manifests, content-addressed shard files; in RAM the verified snapshot and the stat fingerprints of verified shards | load, full commit, incremental commit, plan and apply a cleanup, V7 retirement, canonical reset | the write queue of its adapter; called by the shadow writer and by maintenance | Sync changes every file between awaits; each adapter call can fail before or after taking effect; cleanup is planned outside the queue and deletes files for good | the active manifest never names a missing or damaged shard through our doing; a commit replaces only its base; success means loadable, failure means undone; only orphans are deleted |
| Index persistence (`indexer/indexer.ts`, `index-v8-shadow-writer.ts`, `index-v8-incremental-compiler.ts`) | the live index, pending save, its timer, runtime phase, primary baseline, Sync recovery, recovery marker file | startup reconciliation, file events, full reindex, save, retry, Sync recovery (settle, rescan, rebase), unload | vault events; the store; main.ts for maintenance and unload | saves are merged, retried, lost to another device and resumed; unload must not lose the last edit | every change reaches the snapshot, or a marker makes the next start rescan |
| Write queue (`storage/write-queue.ts`) | the last promise of each key | enqueue, drain, clear | every store | chains survive rejections; the map entry must go only with its last operation | per key sequential and in order; drain leaves nothing |
| Coalesced scheduler (`core/coalesced-async-scheduler.ts`) with its owner in `main.ts` | timer, requested, running, cancelled, failure count; a flag for requests before startup has ended | schedule, run, cancel | index changes; the project serial run | a request during a run; failures that repeat | no change is forgotten, repetitions are bounded, it comes to rest |
| Durable workflow rename (`systems/workflow-field-rename-coordinator.ts`, `storage/field-rename-journal-store.ts`, part of `core/task-writer.ts`) | journal file and its copy in RAM, run queue | prepare and run, resume, retry, resolve a conflict | settings (taxonomy), task files, index rebuild | a crash or failure between any two of journal, taxonomy, tasks, index | no task is left under the old name without a journal; tasks changed elsewhere stay |
| Reminder scheduler and ledger (`core/reminder-scheduler.ts`, `storage/reminder-delivery-store.ts`, `systems/reminder-delivery.ts`) | occurrences, ledger (file and RAM), timer, retries, operation chain | start, destroy, reconcile all or some tasks, deliver, wake | index events, windows, the notification port | the index, clock and focus move on between its awaits; ledger writes fail after a notification was shown | nothing twice, nothing replayed after a reopening, nothing due without a timer |
| Index startup and maintenance (`index-v8-startup.ts`, `index-v8-maintenance-scheduler.ts`) | chosen authority; one timer with one retry | choose V8, V7 or a scan; run maintenance | store, indexer | a half-finished migration | the chosen index is the newest one that is complete |
| Safe file replacement (`storage/storage-file-ops.ts`) | the file, a temporary file, the old file moved aside | `writeTextSafely`, by `adapter.process` or in steps | all small stores, under the write queue | the file is missing between the steps; each step and the way back can fail | all of the old or all of the new contents exist at any time; an error means no effect |
| Settings storage and data package (`storage/operon-storage.ts`, `operon-data-package-store.ts`, `pinned-cache.ts`) | the settings and the package in RAM, `data.json`, three queues, a suspension of writes | startup, save, update with rollback, pin, reload, backup of what is unreadable | all small stores; Sync | two queues write one file through a third; failures roll RAM back; Sync replaces the file at any time | saved updates and pins survive; RAM, package and file agree at rest; nothing unreadable is overwritten; no queue waits for itself |
| Table preset migration (`storage/table-preset-file-migration-runner.ts`, its journal, `table-preset-store.ts`, part of `main.ts`) | old files and their index, staged files, table files, backups, bindings in `data.json`, journal | run, retry, resume at startup, edit and save meanwhile | data package, registry, vault | seven files per preset change one after the other; any write can fail after its effect; any step can be the last | no preset loses its contents to a crash; the version is committed only when all is moved; what was interrupted completes; a start must not take the user's presets for missing |
| Time tracker (`systems/time-tracker.ts`, `storage/active-tracker-store.ts`) | the running timer and its file, the sessions in task files, a queue of transitions and one of the store | start, unassigned start, switch, stop, stop with an external write, edit of a session, clearing of a timer whose task left the index | task writer, scanner, index | a stop is a task write, a reindex and a file; any of them can fail or be the last | no period is lost or counted twice; a transition ends |
| Recurrence (`systems/recurrence-*.ts`, `storage/repeat-series-store.ts`) | series entries | materialise, skip, edit scope | task writer, index | completion and materialisation are separate writes | one next occurrence per completion |
| Aggregates, dependencies, secondary indexes, project serials, table presets, external calendars, views, parser and serializer | see `PROJECT.json` | | | mostly pure functions or small stores | derived data equals a rebuild |

`PROJECT.json` lists every part with what is modelled of it, and under "hazards" what
in this code is hard to test, with its line and the properties that watch it.

### How the parts meet

Vault events change the live index; every change requests a debounced save; the save
is compiled against the shadow writer's baseline and committed by the store under the
write queue; another device's manifest makes the commit lose its comparison, which
starts the Sync recovery.  Index changes also trigger the coalesced scheduler (project
serials) and, per task, a reconciliation of the reminders.  The rename coordinator
changes settings, task files and then asks for an index rebuild.  Unload drains the
maintenance, the index and the stores, and closes the reminder port before its scheduler.

## 2. Modules

| Module | Models | Kind |
|---|---|---|
| `IndexV8Store` | the store | state machine and its properties |
| `IndexV8Register` | what a commit of the store promises: a compare-and-swap of the manifest | abstract specification |
| `IndexV8StoreInvariant`, `IndexV8StoreProofs` | the inductive invariant of the store; its theorems and the refinement | proofs |
| `IndexPersistence`, `IndexPersistenceInvariant`, `IndexPersistenceProofs` | live index to durable snapshot, over the store as such a register | state machine, proofs |
| `WriteQueue`, `WriteQueueInvariant` | the write queue | state machine, invariant |
| `QueuedFile` | safe writes of files, as the operations of the write queue | composition |
| `AtomicFile` | what a safe write promises | abstract specification |
| `CoalescedAsyncScheduler` | the scheduler and its owner | state machine and its invariant |
| `AsyncPrimitivesProofs` | the theorems of `WriteQueue`, the refinements of `WriteQueue` and of `AtomicFile`, and the theorems of `CoalescedAsyncScheduler` | proofs |
| `WorkflowFieldRename`, `WorkflowFieldRenameInvariant`, `WorkflowFieldRenameProofs` | the coordinator, its journal, the conditional write, its callers | state machine, proofs |
| `ReminderScheduler`, `ReminderSchedulerInvariant`, `ReminderSchedulerProofs` | scheduler, ledger, delivery port | state machine, proofs |
| `TimeTracker`, `TimeTrackerInvariant`, `TimeTrackerProofs` | transitions, the store of the running timer, the clearing by the index | state machine, proofs |
| `TablePresetStore` | the legacy store of Table presets, saving and loading of settings around it | operations, composed by the next one |
| `TablePresetMigration`, `TablePresetMigrationInvariant`, `TablePresetMigrationProofs` | runner, journal, bindings, registry over `TablePresetStore` | state machine, proofs |
| `SettingsStorage`, `SettingsStorageInvariant`, `SettingsStorageProofs` | settings, data package, pins and their three queues | state machine, proofs |
| `MC...` | constants of the instances TLC runs | model values and bounds |

A definition whose name has a suffix after an underscore (`Forget_Blind`) is a variant
of the definition before the underscore: the code with a plausible mistake.  No
specification uses one; substituting it for its original must break the property that
`PROJECT.json` names with it.

### IndexV8Store

An action is one awaited adapter call, or a run of calls between which nothing that
another actor does can be told apart.  `op` and `pc` are the transaction at the head of
the write queue and its position in `commit`, `commitIncremental` or the removal of one
orphan; `base`, `cand`, `seen`, `attempted`, `loaded`, `todo` are its local variables.
`loading` and `plan` are the load and the cleanup plan that run outside the queue.  A
manifest payload is its snapshot and a shard its address: `Refs[m]` gives the shards
of a snapshot, `"bad"` is any content the address does not promise, `Invalid` bytes
no contract accepts and `Newer` a manifest this version does not know.
`PeerManifest`, `PeerAlternate` and `PeerShard` are what Sync does; `CommitFault` and
`CleanupFault` are rejected calls, some of which took effect; `Crash` empties the memory.
The history variables `peerSnaps`, `peerShards`, `quiet` and `published` are in no guard.

Abstracted: ownership and names of temporary files, sizes and limits of shards, the
batches in which stats are taken, the 64 fixed shard ids, the worker pool that a
conflict leaves running, and a second seal of alternates by modification time alone.
Not modelled: V7 retirement, canonical reset, the validation inside the codec.

### IndexV8Register

The abstract store has one register, the base and the new value of the commit at hand,
and what that commit has done to the register (`nothing` or `swapped`).  A swap
happens only on the stated base; a success follows the moment at which the register
was seen with the new value; a failure takes the value back, unless the peer has
replaced it or its own value came from the peer as well.  Two commits do not compare,
and the register says so: one without a base, and the very first, whose rename may
race with the peer.  `Stage`, `Request` and `Register` in `IndexV8StoreInvariant` map the
positions, local variables and faults of `IndexV8Store`; shards, cleanup and loads map
to stutters.  `ImplementsRegister` is the abstract specification as a property; it
replaces the earlier `OnlyBaseReplaced` and `FailedCommitUndone` among the runs, which
remain as theorems.

### IndexPersistence

A file version is a number, 0 for a file that is gone.  A record of the index holds the
version its content was read at and the version of the stat recorded with it: the
code reads the content first and the stat after it, so the two can differ, and startup
rescans only what differs in its stat.  `op` is the operation of the index queue that
runs; waiting operations are sets and flags (`events`, `fullWanted`, `flushQueued`), so
their order is left open.  `flight` holds one save of the queue and one outside of it
(maintenance or the manual clean-up flush there, `indexer.ts:1988`, `2077`).
The store is the register of `IndexV8Register`: a commit compares the base
and swaps, or fails, perhaps after the manifest was replaced.  `life` walks through
`prepareForUnload` and `destroy`.

Not modelled: repair of the snapshot from Markdown, rename and aggregate patches,
invalidation by the semantics signature, seeding of the shadow snapshot and its
enqueue path, manifests that are invalid or unsupported, shards that hold several
files, batches of files in one operation, and reads of the live index across awaits
outside the queue.

### WriteQueue

`prev` is the promise a call waits for, `queues` the map, `tracked` the operations
whose `finally` handler has still to run: settling, forgetting the key and
untracking are separate microtasks.  `drain` loops while the map is not empty.  `clear`
forgets the map but not what runs; an operation of the same key that comes after it may
overlap one from before, which is why the properties speak of the time before it.

### QueuedFile and AtomicFile

`QueuedFile` extends the queue: its operations are calls of `writeTextSafely`, and `step`
is where a running one is.  A file that exists is replaced by `adapter.process`, in one
step, unless `force` asks for atomic replacement; otherwise the text goes to `temp`, the
old file is renamed to `aside`, `temp` is renamed to the file, and the copy is
removed; on an error the old file is renamed back if its place is empty.  Any
call may fail (`Call`), without effect, except that a failed or interrupted write leaves
`Torn` behind.  The end of the process is the end of the behaviour: all properties about
files are invariants or refinements, so they speak of every state in which it can come.

`AtomicFile` has one `contents` per file, which a write replaces in one step between
its call and its return, if and only if it returns without an error.  The mapping
(`Contents`) takes the file or, while there is none, the last copy that a write without
effect moved aside: after a crash between two renames the contents are there under the
name of the copy.  *Nothing in the code looks for that copy after a restart*; the
property says that the bytes survive, not that the plugin finds them.  All
promises hold until the owner clears its queues; after that, operations of
one file may overlap, and the restoring rename of one may undo the success of another.

Left out: adapters without `rename`, of which Obsidian has none.

### CoalescedAsyncScheduler

`scheduleProjectSerialIndexReconcile` (`main.ts`) and startup around the scheduler:
the flag for requests that come too early is read once, after two awaits, and unload may
come before.  What the run does is outside the module.

### WorkflowFieldRename

A taxonomy is the name it gives to the renamed status, a task the name in its source.
`run` is the run at the head of the coordinator's queue, `file` and `active` the journal
on disk and in RAM.  A task that the index misses twice because it had moved, a change
the user makes while the rename is under way, and an edit of the taxonomy are history
(`touched`, `retaxed`) and exempt the task from the promises.  Not modelled: a journal
with invalid JSON, an unload beside a run, and the two steps in which the journal file
is replaced when the adapter has no `process` (they are in `QueuedFile`).

### ReminderScheduler

A source is a fixed time or a rule of one task; all sources of a task that fall on one
instant are one occurrence.  `op` is the reconciliation that runs; its awaits are the
writes of the ledger (`persist...`), the due-task automation and the port.  The
state before the first await is computed from the index, clock and ledger in one
action, as the code computes it in one turn.  A write may be rejected with or without
effect; a system notification may stay unacknowledged.  `now` advances between any two
awaits, `zone` moves instants under the same local time.  Not modelled: changes of
settings, ledgers that are invalid, legacy or of a newer version, and sounds.
A record is found by its task and instant alone.  A reminder that a change of the zone moves
to an instant at which another one of its task is pending is therefore shown with that
record, a second time if it was shown before, and suppressing it there takes the place of
that record (section 6); `ToldOnce` and `ReopenedSilent` speak of the reminders
that no other one of their task can meet (`Apart`), which includes both of the run.

### TimeTracker

`op` and `pc` are the transition at the head of the transition queue and the await it is
at; `current` is the record it stops, `previous` the one a start replaces, `write` the
sessions of its task write.  `mutations` is the queue of the active-tracker store, whose
head writes `disk`.  A period is named by the id of its record, and a session
carries the id of its period as history: the code recognises a session by its
start, in seconds, and no guard reads the id.  `seen[t]` is what the index shows of
the sessions in the task file `field[t]`; a task can leave the index and come back at any
await, and `resumeFromIndex` then clears its record outside the transition queue.
Not modelled: migration of legacy timers, invalid timer files, the split of a session at
midnight, history and durations.

### TablePresetStore, TablePresetMigration

`TablePresetStore` has what the settings keep of Table presets without a file: the old file of
a preset (`sidecar`), `index.json` (`indexed`) and `data.json` (`data`); in memory the
settings (`mem`, `shown`), the package as its store believes it to be (`pkg`) and the legacy
store (`legacy`, `known`).  Contents are versions (0 for none, `Factory` for the default
preset the program makes).  `turn` is the settings queue with the save that holds it: sidecars in
any order, deletions after them, the index, `data.json`, and after a failure there the way
back to the presets the store had (`Undo`), one awaited write per step.  Each write may fail
with or without its effect, and the process may end between any two.  A save puts the default
preset where there would be none (`Seeded`), a load as well (`Found`); a load whose index is not what it
would write replaces the store, and preserves nothing (`Load`).

`TablePresetMigration` adds the staged file, the table file and the backup of each preset, the journal on
disk, in its store and in the run (`log`, `kept`, `work`), the run with the item in hand, the
registry and the user.  The run is planned from the old file (`Source`), but what an item stages and compares
is the preset of the store as it was taken (`hand.read`).  `Begin` is called with the binding or the version that is
committed; its way back is the caller's (`Unbound`, `Finished`, `Saved`).  `Crash` leaves
the disk alone and `Down` forgets the rest; `Startup`, `Loaded`, `SaveLoaded` and
`Initialized` are the awaits of `OperonStorage.initialize`, and a write that fails there
ends the startup (`Abort`).  `content` is history: what was last saved of a preset.  `began` is what was there at first.

The bindings and orders are sets: which preset is listed first decides nothing in the migration.
Binding a preset again moves it to the end, and other settings of the index and of
`data.json` may have changed, so a save may write either, and fail, though the sets are
what they were (`WriteIndex`, `WriteData`).  Not modelled: presets whose
paths or ids collide, invalid journals and sidecars, the backup of the index, finalization,
and recovery from the backup.

### SettingsStorage

`jobs` is `settingsSaveQueue`, `pins` the queue of the pin cache, `store` the `saveQueue` of
the data package through which both write; `step` is where the head of that is.  Values
of settings are numbers of the edits that made them.  A direct edit changes `settings` at
once and queues a save; an update changes them in its turn and takes all of them back if
the save fails.  `Sync` replaces `data.json` by a package of another device, an older
one, one with a broken taxonomy, an unreadable one, or JSON that is no object (which a start takes for a missing package,
section 6).  A reload holds two
queues and saves favorites inside of them, past the settings queue.  The history variables
`acked` and `held` are what was saved, `unread` that the plugin found it must not overwrite what is
on the disk, `foreign` that the disk holds something else than the memory was read from or
written to; no guard reads them.  Not modelled:
operations with a rollback of their own (favorites, deletion of presets, table
bindings), the migration of languages and retired settings, mobile notifications, pruning
of old unpins, and writes that fail after having had their effect.

## 3. What is checked

Every run ends without deadlock checking, because each system may stop: bounds are
used up, or the plugin is unloaded.  The bounds are guards of the environment's actions
(`Bounds`, `Max...`); the steps of the program are never cut off.

| Run | Instance | Shows |
|---|---|---|
| `store_commit` | 3 snapshots over 3 shards, any two sharing one; 2 commits; two troubles (peer changes of manifest and one shard, or one and a failed call or crash) | `ActiveComplete`, `ImplementsRegister`, `CommittedLoads` |
| `store_cleanup` | the same with 3 transactions (load, commit, cleanup) and one change by the peer, also of alternates, or a fault | `RemovesOnlyOrphans`, `CallsEnd` |
| `persist_sessions` | 2 files, 2 sessions, 2 edits, and either a peer change or up to two faults (two with one edit); every flush in the index queue | `NoChangeForgotten`, `IndexCatchesUp`, `UnloadIsAccounted` |
| `persist_liveness` | 1 file, 1 session, at most one edit, one full scan, one peer change and one fault; flushes outside the queue | `RecoveryTerminates`, `UnloadTerminates`, `TimerSaves` |
| `persist_unchanged` | 2 edits, a flush outside the queue | a counterexample to `UnchangedProvesActive` (section 6) |
| `queued_files` | 3 safe writes of a file, 0 to 3 of them forced, 2 failing calls, drain and clear | `InOrder`, `LastWins`, `ImplementsAtomicFile`, `DrainLeavesNothing`, `WritesEnd` |
| `scheduler` | 4 changes, 1 retry, startup and unload | `ChangeRemembered`, `ChangesServed` |
| `rename` | 2 tasks, 3 taxonomies; two failures and two crashes, or one of each and an edit (of a task or the taxonomy), or two edits; 2 calls | `NothingLeftBehind`, `TaxonomyFirst`, `ClearedIsIndexed`, `ConflictsPreserved`, `RunsEnd`, `PendingResumed` |
| `reminders` | a task with 2 reminders, 2 sessions, clock 1..3, window 1, two events (edit, focus, zone, failure or crash) | `NothingStranded`, `DestroyedIsQuiet`, `ToldOnce`, `ReopenedSilent`, `HeldNotLost` |
| `tracker` | 2 tasks, 3 transitions, 2 seconds, 2 faults (failure or crash), 1 task leaving the index | `CountedOnce`, `StopSaves`, `TransitionsEnd` |
| `table_migration` | 2 presets, one with the id of the default preset (the user's or the program's), each with no, an equal or another table file; 2 crashes, a retry and an edit, or a failing write with a crash and 2 retries, or with a crash and an edit | `VersionMeansMoved`, `ContentKept`, `Completes` |
| `settings` | 2 settings, 2 edits or updates, 1 pin change, 1 replacement by Sync, 1 reload, 1 fault (read, write, backup or restart) | `PinsKept`, `UpdatesSurvive`, `AgreeAtRest`, `NeverStuck`, `UnreadIsKept` |

Why these bounds are enough to mean something:

- *Store.*  With three snapshots of which any two share a shard, each commit reuses a
  shard, writes one and orphans one; two commits reach reuse of a shard that an
  earlier commit left, and of one the peer has touched since; two troubles reach a
  peer change inside the rollback that an earlier trouble caused.  A rejected write
  that took effect makes the difference between an attempted and an active manifest.  `MaxFiles` is 1 because files are removed one transaction at a time.
- *Persistence.*  One save in flight, one pending and one outside the queue is all the
  code can hold; two files distinguish a dirty path from one that is only carried
  over; a second session is what finds out what the first left on disk.  Two faults
  make the second failure of a retry.  `OneTrouble` keeps peer changes and faults
  apart to stay within minutes; the liveness run has both.  There one file
  suffices: nothing in it distinguishes files.
- *Queued files.*  Files do not interact, so one is enough (the proofs have any number).
  Three writes are one that leaves a file, one whose replacement fails and one that comes
  after it; two failures are a failing step and a failing way back.  The same properties
  of files held in a larger instance, with four writes (2.4 million distinct states).
- *Rename.*  Two tasks distinguish "some" from "all"; two crashes include one during the
  resumed run; the third taxonomy is what the user may change the second one to.
- *Reminders.*  Two reminders give batches of which one part fails; two events cover a
  completion and a reopening, or one of them with a failed write or a crash; the second
  session reads the ledger of the first.
- *Tracker.*  Three transitions are a start, a stop that fails or is cut off, and a
  second stop or an edit, or a switch between the two tasks; two faults are a failure
  and the crash that loses what RAM knew of it.  Two seconds tell a start from an end.
- *Table migration.*  Two presets make an item that is moved and one that is not, and a default preset
  beside another one; the second crash falls into the resumed run, and the failure can
  precede or follow a crash.  Beyond the run, with two presets unless noted (F failures, C crashes, R
  retries, E edits): `VersionMeansMoved` and the part of `ContentKept` without failures held with
  C4 R3 E3 and with three presets and C2 R1 E1; `VersionMeansMoved` with F1 C2 R1 E1, F2 C1 R2 and F2
  C2 R1; the part of `ContentKept` with one failure with C2 E1; `Completes` with C3 R1 E2 and
  with three presets and C2.  The premises of the properties are where larger bounds stopped them:
  `ContentKept` fails with F2 C1 E1 or with F1 C1 R1 E1, and the cases are in section 6.
- *Settings.*  Two settings distinguish what an update restores from what another edit
  changed; one fault and one replacement by Sync in any order with a reload reach
  each combination of a suspended queue with a save that was already built.  Two
  properties that held with one of the bounds raised, on up to 25 million states, were too
  strong with two of them raised (a startup that cannot read the file and then a reload whose write
  fails; a Sync during the first save and then its failure).  Trying to prove them showed it; the
  history variables now say what the code promises, for any bounds (section 4).

### Fairness

Weak fairness is given to what the runtime owes: a settled promise runs its
continuation, an armed timer fires, a queued operation gets its turn.  Users, Sync and
faults owe nothing, and a crash is never forced.  In `QueuedFile` the steps of a running
write, the microtasks of the queue and the loop of `drain` are fair: the
adapter answers each call.  In `ReminderScheduler` the clock need
not advance: `HeldNotLost` asks for the reminder or for a timer that lies ahead.
In `IndexPersistence` a vault or manifest that never becomes quiet is a fault of the
environment (the settle gives up after four delays); a manifest that is gone lets it
give up without one.  In `TimeTracker` the steps of the transition and of the store's
queue are fair.  In `TablePresetMigration` the migration, the steps of a save, a startup after a crash and a
queued save are, each by itself; `Completes` speaks of migrations without a foreign file or a failing
write, because those wait for the user, and of starts that do not put the default preset in the place of
the user's, because after that the code does not complete (section 6).  `SettingsStorage` needs none: `NeverStuck`
says in each state that a queue that has work can take a step.

### Depth of the properties

The properties are about relations no single line establishes: between what a commit
knows at one await and what is on disk at another (`CommittedLoads`,
`ImplementsRegister`, `RemovesOnlyOrphans`), between two writes of one file
(`LastWins`), between sessions (`IndexCatchesUp`, `NothingLeftBehind`, `ToldOnce`,
`VersionMeansMoved`), between files that are written one after the other (`CountedOnce`,
`StopSaves`, `ContentKept`), between queues that share a file (`PinsKept`,
`NeverStuck`), between a queue and what drained it (`DrainLeavesNothing`).  Each
of them fails when the code has the mistake that its variant describes.

## 4. What is proved

| Theorem (module) | Statement |
|---|---|
| `InvariantHolds`, `TypeCorrect` (`IndexV8StoreProofs`) | `Spec => []IInv`, `[]TypeOK` |
| `ActiveStaysComplete`, `CacheIsSound`, `CleanupIsSafe` | `[]ActiveComplete`, `[]CachedIsGood`, `[]RemovesOnlyOrphans` |
| `BaseIsRespected`, `SuccessMeansLoadable`, `FailureMeansUndone` | the action properties `OnlyBaseReplaced`, `CommittedLoads`, `FailedCommitUndone` |
| `CommitIsCompareAndSwap` (`IndexV8StoreProofs`) | `Spec => ImplementsRegister`: the store implements `IndexV8Register` |
| `QueueInvariant`, `QueueOrder`, `QueueSequential` (`AsyncPrimitivesProofs`) | `[]QueueInv`, `[]InOrder`, and per-key sequential execution until the queues are cleared |
| `QueuedFileIsQueue` (`AsyncPrimitivesProofs`) | safe writes under the queue implement `WriteQueue`, so its theorems hold of them |
| `DrainAwaitsAll` (`AsyncPrimitivesProofs`) | the action property `DrainLeavesNothing` |
| `SafeWriteIsAtomic`, `LastWriteWins` (`AsyncPrimitivesProofs`) | `ImplementsAtomicFile`, `[]LastWins` |
| `SchedulerInvariant`, `NoChangeForgotten`, `NoRequestStranded`, `FewRepetitions` (`AsyncPrimitivesProofs`) | `[]SchedulerInv` and its parts |
| `RenameInvariant`, `RenameTypes` (`WorkflowFieldRenameProofs`) | `[]RenameInv`, `[]TypeOK` |
| `NoTaskLeftBehind`, `TaxonomyIsFirst`, `ClearedMeansIndexed`, `ConflictsArePreserved` | `[]NothingLeftBehind`, `[]TaxonomyFirst`, `[]ClearedIsIndexed`, and `ConflictsPreserved` |
| `PersistenceTypes`, `QueueInvariant` (`IndexPersistenceProofs`) | `[]TypeOK`, `[]QueueInv` |
| `IndexAlwaysCatchesUp` | `[]IndexCatchesUp`, however saves are flushed |
| `SavesHoldTheIndex`, `ChangesAreKept`, `UnloadAccountsForAll` | when every flush runs in the index queue: `[]DurableInv`, `[]NoChangeForgotten` and the action property `UnloadIsAccounted` |
| `TrackerTypes`, `TrackerInvariant` (`TimeTrackerProofs`) | `[]TypeOK`, `[](Base /\ SessionInv /\ StopInv)` |
| `PeriodsCountedOnce`, `StopsAreSaved` | `[]CountedOnce`, and the action property `StopSaves` |
| `SettingsTypes`, `SettingsInvariant` (`SettingsStorageProofs`) | `[]Typed`, and the invariant with all its parts |
| `PinsAreKept`, `UpdatesAreKept`, `QuietMeansAgreed` | `[]PinsKept`, `[]UpdatesSurvive`, `[]AgreeAtRest` |
| `UnreadIsBackedUp` | the action property `UnreadIsKept` |
| `ReminderTypes`, `ReminderInvariant` (`ReminderSchedulerProofs`) | `[]TypeOK`, `[]ReminderInv` |
| `RestHasTimer`, `DestroyLeavesNothing` | `[]NothingStranded`, `[]DestroyedIsQuiet` |
| `ToldStaysMarked`, `ShownOnce` | `[]ToldInv`, and the action property `ToldOnce` |
| `ReopeningIsKept`, `ReopenedTaskIsSilent` | as long as a ledger that is not written again has its lifecycles on file (`WrittenIsOnFile`): `[]ReopenInv`, and the action property `ReopenedSilent` |
| `UndoneWritesKeepSilence` | if ledger writes that reject have left the file as it was: `ReopenedSilent` |
| `TypeCorrect` (`TablePresetMigrationProofs`) | `[]TypeOK`, however many calls fail |
| `RemovedWhenBackedUp`, `BackedUpIsBound`, `VersionAgreesWithJournal` | as long as no call failed: an old file is removed only when its backup equals it; what the journal on disk calls backed up is bound and has a backup; the version is in `data.json` only when the journal has nothing left |
| `InterruptedRunsNeverFail` | under `[]Unemptied`, as long as no call failed and no preset had another file: no run stops, rolls back or throws a file away |
| `VersionIsCommittedLast`, `OldFilesAreKept` | under the same hypotheses: `VersionMeansMoved`, `ContentKept` |

They hold for any tasks, taxonomies, files, snapshots, shards, operations, keys, settings, seconds,
reminders, table presets, delays, numbers of retries, and any number of peer changes, Syncs, faults, crashes, sessions, edits, pins,
reloads and transactions.  The assumptions are those of the modules:
`DataAssumption` (a snapshot has shards; the special values differ from snapshots and
from each other), `PeerAssumption` (the peer writes values of the right type),
`NoneAssumption`, `QueuedFileAssumption` (a torn file is none of the contents),
`RetryAssumption`, `RenameAssumption` (a missing journal and a deleted task are told from a
rename and a taxonomy; the bounds are numbers), `NoValueAssumption` (the marks for no save and no
manifest are neither), `BoundsAssumption`, `SettingsStorageAssumption` and `TimeTrackerAssumption`
(bounds are numbers, a timer without a task is told from tasks), `WindowAssumption` (a record is
kept for longer than a reminder can be caught up with: seven days and at most one in the code),
`SourceAssumption`, `DelayAssumption`, `BoundAssumption` and `NoFileAssumption` (reminders have a
task and a time, delays and bounds are positive, a missing ledger is none), `SwitchAssumption`
(`Maintenance` is a Boolean), `TablePresetStoreAssumption` (the default preset has an id among the others, bounds are numbers) and
`TablePresetMigrationAssumption` (no item in hand is told from presets).  Three theorems of the persistence have the hypothesis
`~Maintenance`; it is a mode of the module, not an assumption on the environment, and the run
`persist_unchanged` shows that without it they fail.  The theorems on reopened tasks have the
hypotheses the table names, and its paragraph below says what they ask of the code.

**The store.**  `ActiveComplete` alone is not inductive: whether a manifest write keeps
it depends on what the transaction has found out before.  `IInv` adds, per position of
the program counter, what is known there and cannot be taken away: `CandidateShards`
(shards already passed are good, unless the peer touched them; when all are, the
candidate is intact), `RollbackIntact` and `RollbackKnows` (the manifest a rollback puts
back is intact; what it takes for its own write is its own), `PostflightKnows` (what was
read back stands as long as the peer is quiet), `PlanSound` and `SealHolds` (no file
of a plan is named by the manifests it was sealed with, and nobody but the peer has
changed them between the first seal and the claim -- commits cannot, since a removal is a
transaction of the same queue).  `CachedIsGood` is needed because an incremental
commit accepts a shard from its stat.  The preservation proof has one step per action and
one per conjunct it can disturb; the action properties follow from `IInv` at the
step that could break them.

**The register.**  The refinement is a step simulation under `IInv`: each action of the
store is matched with the action of the register it amounts to, or with a
stutter.  The cases that need the invariant are the last ones of a commit: a success has
read its manifest back, and what a rollback takes for its own write is its own.

**The write queue.**  `InOrder` needs to know that the map names the last call of a key
as long as any of its calls has not ended (`LastKnown`), and that what came before
a call has ended or stands before what the call waits for (`Chained`); induction along
the chain is then unnecessary, because the predecessor of a started call has ended.

**The file.**  `QueuedFileIsQueue` maps every step of a write to a step of the queue or a
stutter; `InOrder` of the queue then says that until the queues are cleared a running
write of a file is alone (`Alone`).  `FileInvariant` relates, for each position of a
write, the file, its temporary file and what it moved aside (`StepsInv`, which needs
no order) and, until the clear, says that the place of the file is empty
only between the renames of the running write or behind one that could not put it back,
and that in the latter case its copy is the latest one (`AsideOfStep`, `FileOfStep`,
`HasLatest`, `FoundLast`).  `Found` chooses the latest copy; that there is exactly one
is a consequence of the order in which the writes were called.

**The scheduler.**  `RetriesBounded` counts runs since the last request (`attempts`) and
needs their relation to `consecutiveFailures` in each state (`Counted`); `ChangeRemembered` and
`RequestHasTimer` need that a released scheduler holds nothing (`Owned`).

**The rename.**  Each promise about the tasks depends on what the journal on disk, the
run and the settings know of each other, so `RenameInv` says it for every position of a run:
RAM is a copy of the journal file and of `data.json` (`MemoryFollows`), the journal is that of
the rename prepared last (`OfLast`), the tasks a run has still to visit include all that the
journal calls pending and none is left where a run goes on without them (`AtPosition`), an
outcome in the journal or about to be written to it is true of a task the user left alone
(`OutcomesTrue`), the new taxonomy is saved at each position from which a task can be written
(`SavedFirst`), and nothing is unindexed from the rebuild until the journal is cleared
(`IndexedAtEnd`).  Writes of the journal at different positions differ only in phase and
outcome, so `PhaseKeeps` and `OutcomeKeeps` are proved once and cited by each action
that writes it; `StopKeeps` and `GoKeeps` do the same for how a run ends and goes on.
`TaxonomyFirst` and `NothingLeftBehind` follow from the invariant state by state;
`ConflictsPreserved` needs that the only step by which the plugin changes a status is the
conditional write (`OnlyWriteRenames`).

**The persistence.**  The invariant has four layers, each of which is inductive given those
before it.  `Typed` adds to the types that a save in flight carries data, and a committed one
its new baseline.  `QueueInv` says what the index queue, the recovery and the phase of the writer know of
each other.  `FollowsInv` is the relation of the index to the vault: a read under way that
an edit has overtaken is followed by another one, so a record that is older than its
file is always about to be read, or is marked as unhealed after a failed scan;
`IndexCatchesUp` follows.  `DurableInv` relates the pending save, the one in flight and
the baseline.  Its core is `BaseIsCovered`: each record that differs from the snapshot
the next save will be compiled against (`Baseline`: for a committed save that has not
been settled, already the new one) waits in a save or an event.  It says nothing while a recovery
is under way whose full scan will replace what was missed (`Settled`), which is why it needs
`CommitsAreNew`: a commit never puts an older manifest under a newer baseline.  The
free slot of `flight` stays empty when every flush runs in the queue; with a flush
outside of it two saves can be compiled against one baseline, and `SavesAreCurrent` is false.
All four were checked by TLC on the instance of `persist_sessions` before they were proved.

**The tracker.**  `Base` gives, for each position of a transition, the queue of the store (at most
the mutation it awaits and a clear by the index, in either order), what it knows of the
running timer, and that the record on disk is the one in RAM whenever they have the same id.
`SessionInv` says where sessions of one period can be: in one task, once in each of the
file, the index and the write in progress (`OnceEach`, `OneTask`), belonging to the record
that may be stopped again (`Belongs`); a session that the index shows is still in the file
(`Kept`), so a repeated stop recognises it by its start; and the record on disk, if it is not that of
the running timer, has no session yet (`DiskFollows`).  `StopInv` says why a period that
is taken for saved is: the index shows no session that was neither kept nor taken away
(`SeenStays`), and a period this process remembers as saved is in the file of its task
(`FinalizedStays`).  Most steps change none of the variables these speak of but one;
`SessionFrame` states once what must hold for them.  The properties exempt sessions the
user edited or removed, because a stop recognises a session by its start alone,
and periods whose record is on disk without the task it has in RAM (`misfiled`, section 6).
Both conjunctions were checked by TLC before they were proved, on four instances larger
than that of the run, of up to 2.8 million states; both exemptions came out of that work.

**The settings.**  `Typed` has every value bounded by the clock that numbers edits, pin changes
and Syncs, so a new value is unlike all that are there.  `QueueInv` says that the running job and
the running pin change each have one turn in `saveQueue`, which jobs a phase can have, that one
reload or one save of favorites is queued at a time, and whose step it is.  `BuiltInv` says what a
position holds: the snapshot of a save has the settings with the value of its update, what it
restores is what is committed, and writes are not suspended meanwhile; the package a pin change
or a reload is about to write is the committed one with the pin, or merged with the file that was
read.  These three give `AgreeInv` (what is said at rest, but at each position: a running save
was built from the settings as they are, unless the save of a later change still waits)
and `UnreadInv` (what must not be overwritten is in a backup, or writes are suspended, or the head
of the queue is about to make a backup).  `KeptInv` is the core: all that can come into the
memory (the snapshot of a save, the next package, the file, what was read of it, a pin that
waits) is at least as new as what was saved.  For that a saved update must not meet its own value
again, hence `Unused`: the value of an update that waits is in none of them yet, and greater than
those of the updates before it, so a package that already equals what a save has built
(which ends it without a write) is not that of an update.
A reload lowers what counts as saved only for settings to which it brings another value.  Each
part was checked by TLC on several instances before it was proved.

**The reminders.**  `ReminderInv` says that destroy awaits at least the reconciliation that
runs, that the ledger is written at every position behind a write and that a reconciliation which
left it unwritten has left a retry, and that at rest whatever is awaited has a timer; the
last needs that a minimum exists (`MinIsThere`) and that what is awaited now was awaited
when the reconciliation began (`AwaitedSince`).  `ToldInv` is about one reminder that no
other one of its task can meet.  Its occurrence and its records are its own (`OwnOccurrences`,
`OwnRecords`): its two possible keys are nobody else's, and while one of its records is
pending, no other is pending or delivered.  Once told it is marked as delivered in memory,
in what was last written and in the file (`MarksInv`), unless it is over: a mark is taken away only by
pruning, and by then the reminder is past its window for the time the
reconciliation goes by (`Over`, `Clock`), which never runs back.  What was selected is still
pending when the port answers (`ItemsInv`), so what is told can be marked.  Each step of the
ledger (`PutPending`, `Suppress`, `Close`, `Prune`) has one lemma that says it keeps this.  That
`ToldOnce` needs `Apart` came out of this proof.
`ReopenInv` says the same of a reopening.  The lifecycles in the ledger tell what the
reconciliations observed, in memory and on file (`Follows`), no pending record is of a completed task or
due by the cutoff of an open one (`LateOnly`), and an occurrence that was due by then is finalized
or out of its window (`Silenced`), since a suppressed record is pruned only behind it
(`SuppressedSince`).  The reconciliation is the step that matters: it re-enters what the record before it
held or what is due, and both are later than the cutoff, the first because a pending record
has an open lifecycle that then does not move, the second because whatever the cutoff covers
is suppressed or `Silenced`.  Two things came out of this proof.  `ReopenedSilent` needs `Apart`:
two reminders that meet break it (section 6).  And it needs that what memory takes for written is on file,
as far as lifecycles go (`WrittenIsOnFile`): after a write that rejected but took effect, a
ledger that returns to what was written before is not written again, and a restart reads a
reopening that memory has left (TLC: 1 reminder, 4 edits, a failed write and a crash).
The module is coarser than the code here: in the code a lifecycle carries
the millisecond at which the completion was observed (`reminder-scheduler.ts:250`), so it returns to an
earlier one only by being deleted, which leaves nothing to replay.  `UndoneWritesKeepSilence`
derives the hypothesis from writes that leave the file as it was when they reject.
TLC checked the three invariants on the instance
of the run before they were proved, where `WrittenIsOnFile` always holds, and on larger instances as far as it
went (11 million states, two tasks).

**The table migration.**  There are two invariants, because there are two things to say.
`CalmInv` holds as long as no call failed, whatever files of the same ids are in the vault, whatever the
user edits and whatever a start has made of the store.  It says what cannot go wrong then:
a save packs at least the bindings `data.json` has and at most those of the settings (`SavesOK`), so a
binding that was awaited is in `data.json` (`BindingOK`) and no save that is under way writes the old
file of the item in hand (`BackupOK`); the three journals agree (`JournalsOK`), all that the run has no
longer before it is settled (`RunOK`), and so the version means a journal with nothing left
(`VersionOK`, `BackupsOK`).  What it does not say is that the contents are the user's, and they need not be:
a start that finds no preset listed and none bound makes the default preset.  `SmoothInv` is about
behaviours in which that changes nothing (`Unemptied`: when a start finds the store empty the
default preset was the program's) and in which no preset had another file.  There each preset has one
content wherever it is (`ValuesOK`), no item is blocked (`CleanOK`), a binding has its file (`FilesOK`),
an old file is gone only when there is a backup (`KeptOK`), no save deletes one (`StoreOK`), nothing that is
bound is in the index (`IndexOK`), a preset leaves the index, the settings and the store only when it
has an item and a file (`EarlyOK`), and the registry comes after the version (`DoneOK`), so nothing without a
file is ever edited.  The proof of a step goes through the actions in groups, a lemma for each.
`[]Unemptied` is a hypothesis on behaviours, as in `Completes`; without it the theorems are false of
the code.  With failing calls only the types are proved: the run checks what is left of the two
properties then.  TLC checked both invariants before they were proved, with two presets, three crashes, two retries
and two edits.

Only model-checked: all liveness properties and `NeverStuck` (the prover has no rules for fairness and
ENABLED in reach), and `UnchangedProvesActive` (which is refuted).

## 5. Not modelled

The reasons are in `PROJECT.json` per part.  Text processing (parser, serializer, YAML,
templates), views and queries, locale packs and exporters are functions of data or input
and output at the edge; most of the 190 thousand lines of the repository are views,
editors, settings tabs, types and translations of that kind.  Startup authority,
maintenance scheduling, recurrence, aggregates, dependencies, project serials and the
registry of table presets have behaviour worth a module and are in the plan.

Known gaps of the modules that are there: V7 retirement and canonical reset of the store;
the paths of the indexer listed above; what an unload does beside a rename run;
changes of reminder settings; legacy data and midnight in the tracker; finalization
and recovery of the table presets; operations of the settings that bring their own rollback.

## 6. Findings

- `persist_unchanged`: a save compares its data with the baseline it read before its
  first await.  While a flush outside the index queue commits and moves the baseline on,
  it can find itself unchanged against the old one and return without asking the store,
  although the active snapshot still has a record that RAM has deleted and no save
  carries the deletion.  The comment at `index-v8-shadow-writer.ts:263` says that an unchanged
  projection proves the latest membership.  A later save of the same file, or the next
  startup's comparison of stats, heals it.

Seen while modelling, without a run (the properties leave these cases out or are weaker
for them, as their comments say):

- *Unload.*  A clean-up started by hand from the diagnostics flushes the pending save
  outside the index queue (`indexer.ts:2077`), and unload does not await it.  If it fails
  after unload's last flush, a retry timer of five seconds is armed for a destroyed index,
  which the comment at `indexer.ts:2253` excludes.  Startup goes on after an unload that
  came during one of its awaits (`main.ts:4069`).
- *Write queue.*  After `clear`, writes of one file may overlap.
- *Rename.*  The second attempt believes the index that a task is missing, although the
  index was not rebuilt in between (`main.ts:3788`).
- *Reminders.*  The back-off of ledger writes is lost once a delivery retry has passed
  (`reminder-scheduler.ts:487-503` arms a timer of 0 ms until a write succeeds).  An
  occurrence selected before the write of expired ones is delivered after it although
  its task may be completed by then.  Records are found by task and instant: if a change of
  the time zone moves a reminder that was shown to the instant at which another one of its task
  is pending, it is shown again and the other one marked as delivered, and a suppression can
  replace the delivered record of another reminder (`reminder-delivery-store.ts:343`): a
  reminder shown before its task was reopened can then be shown again, by a
  reconciliation of another task, which does not suppress.
- *Tracker.*  A second period that starts in the second of an earlier one of the same
  task is taken for saved and lost (`time-tracker.ts:573`).  A scan that failed without
  telling leaves the index old; a session edit then writes the list without the
  session that was saved last (`time-tracker.ts:1038`).  A start that restores the
  previous record after a failure, in a flush that changes the file and still fails, leaves
  that record on disk without the task RAM has given it; after a crash the same period
  can be given to another task and is counted twice.  A session the user entered for a later
  time and that a stop with an old index overwrote makes a period starting then be
  taken for saved.
- *Table presets: the default preset.*  `index.json` drops a preset before `data.json` binds it.  After a
  crash in between a start finds none listed and none bound, and puts the program's default preset
  into the store (`table-preset-store.ts:179`), beside the old file.  If the user had customised that
  preset, the resumed run plans it from its old file and processes it from the store, and
  stops at its table file (`table-preset-file-migration-runner.ts:266`): no call has failed, but the
  migration waits for the user.  With a second preset and a second crash of this kind, the registry adopts the
  table file of the second preset and the next save deletes the old file of the first, of which there is no backup: its
  contents are in its table file only.  With two failing calls, a restart and retries, the rollback of a save
  writes the default preset over the old file.  If the user had deleted the default preset, one such crash
  brings it back; the resumed run binds the other preset, and a second crash leaves an item for the default
  whose preset is missing from the store.  After a write of `data.json` that failed but took effect, and a crash,
  a start that finds nothing listed but a binding writes the default preset's old file
  again, beside its backup.
- *Table presets: conflicts.*  A preset in conflict is dropped from the settings in memory, and the next
  save deletes its old file, of which there is no backup (`main.ts:3443`), or, if it was the only one and has the
  default id, writes the default preset over it, which a retry then takes for the user's.  A
  preset comes into conflict with its own table file after a run that failed
  behind the rename, and after an edit of a preset that is staged or renamed and a crash.  After
  two failures a foreign file can be adopted, the old file of its preset dropped in this way,
  and the version committed without it.
- *Table presets: edits.*  An edit whose save has not had its turn when the registry is refreshed is taken
  back by the store's copy, and the save then writes the old version.  An edit whose save
  fails restores the bindings and order of its snapshot, also those a migration has changed since (`main.ts:6170`).
  An edit after the staging of a preset whose run was cut off makes each later run refuse the staged file.
- *Settings.*  A direct change is taken back by the rollback of another update, or by the
  commit of a reload, while its own save then reports success.  A pin made while
  writing is suspended is dropped by the next reload.  An explicit suspension is
  downgraded by a failing read.  After a startup that could not read `data.json`, a reload that can
  lifts the suspension before it writes (`operon-data-package-store.ts:211`); if that
  write fails, the memory still has the defaults and the next save replaces the file with them (a
  backup of it was made).  A `data.json` that is valid JSON but no object counts as a missing
  package at startup (`operon-data-package-store.ts:279`) and is overwritten with defaults without a backup, although a
  reload refuses it (`:297`); `UnreadIsKept` covers it for reloads.  With clocks that differ between devices the newest pin change is
  not the last one.

## 7. Plan

Done: `IndexV8Store` with its proof; `WriteQueue` with its proof; `IndexPersistence` with its proof;
`CoalescedAsyncScheduler` with its proof; `WorkflowFieldRename` with its proof; `ReminderScheduler` with its proof;
`IndexV8Register` with the refinement; `QueuedFile` over `WriteQueue` with the
refinement of `AtomicFile`; `TimeTracker` with its proof; `TablePresetMigration` over `TablePresetStore` with its proof; `SettingsStorage` with
its proof.

Left, in this order:

1. `IndexV8Startup`: choice of the authoritative index, migration from V7 and its
   retirement, canonical reset; a restart at every step.
2. `Recurrence`: completion, materialisation and series entry as separate writes.
3. The relocation of a task between notes (`publicRelocateTask` in `main.ts`), two task
   writes with a compensation.
4. Functions over bounded inputs: incremental against full compilation of a snapshot,
   secondary indexes against a rebuild, cycle detection of dependencies, allocation of
   project serials.
