--------------------------- MODULE IndexPersistence ---------------------------
(***************************************************************************)
(* How the indexer (src/indexer/indexer.ts) keeps the durable V8 snapshot  *)
(* in step with the index in RAM: vault events rescan files, every rescan  *)
(* asks for a debounced save, a save is compiled against the baseline of   *)
(* the shadow writer (index-v8-shadow-writer.ts) and committed by          *)
(* compare-and-swap, a lost swap starts the Sync recovery (settle, rescan  *)
(* the vault, rebase), a second failure marks the session as               *)
(* recovery-required, and unload saves what is left.                       *)
(*                                                                         *)
(* Index operations run one at a time (enqueueIndexOperation); which of    *)
(* the waiting ones is next is left open.  Index maintenance and the       *)
(* manual "clean up now" flush the pending save outside that queue.  The   *)
(* store is the compare-and-swap register that IndexV8Store implements.    *)
(*                                                                         *)
(* A file version is a number, 0 when the file is gone; a record of the    *)
(* index holds the version its content was read at and the version its     *)
(* stat (mtime, size) belongs to.  Every path has a shard of its own.      *)
(***************************************************************************)
EXTENDS Naturals

CONSTANTS
    Paths,        \* Markdown files that hold tasks
    NoManifest,   \* no snapshot: no manifest file, or no baseline
    NoJob,        \* no save
    Maintenance,  \* index maintenance flushes the pending save out of the queue
    Bounds        \* how many sessions, edits, full scans (each in place of an edit),
                  \* peer changes and faults a run has

ASSUME BoundsAssumption ==
    Bounds \in [{"sessions", "edits", "scans", "peer", "faults"} -> Nat]
ASSUME SwitchAssumption == Maintenance \in BOOLEAN

\* What the index knows of a file, a snapshot of it, and a save; an operation of
\* the index queue, a save in flight and a Sync recovery.
Record   == [content : Nat, stat : Nat]
Snapshot == [id : Nat, scan : Nat, data : [Paths -> Record]]
Save     == [data : [Paths -> Record], scan : Nat, dirty : SUBSET Paths,
             full : BOOLEAN, retry : {0, 1}]
Ops      == [at : {"none", "reindex", "scan", "save", "rebaseScan", "rebase"},
             paths : SUBSET Paths, read : [Paths -> Nat]]
Flights  == [at : {"none", "compiled", "committed", "clearing", "failed"},
             job : Save \cup {NoJob}, base : Snapshot \cup {NoManifest},
             error : {"none", "base", "io", "postflight", "fatal"}]
Recoveries == [at : {"none", "settle", "queued", "ending", "refused"},
               again : BOOLEAN, stable : Snapshot \cup {NoManifest}]

ASSUME NoValueAssumption == NoManifest \notin Snapshot /\ NoJob \notin Save

VARIABLES
    \* --- files
    vault,       \* the version of every Markdown file
    manifest,    \* the active snapshot
    marker,      \* the recovery-required marker file exists
    \* --- memory of the indexer and the shadow writer
    life,        \* "off", "running", then the steps of prepareForUnload, "closed"
    ram, scan,   \* the live index and the identity of its last full scan
    events,      \* paths whose vault event still waits to be indexed
    fullWanted,  \* a full reindex is queued
    pending,     \* pendingPersistData
    timer,       \* persistTimer: "none", "debounce" or "retry"
    flushQueued, \* the timer has queued its flush
    phase,       \* runtimePhase of the shadow writer
    base,        \* its primary baseline
    op,          \* the index operation that is running
    flight,      \* the save of that operation and the one outside the queue
    recovery,    \* the Sync recovery in progress
    \* --- history and bounds
    unhealed,    \* paths whose last scan failed, or whose record a session loaded with
                 \* a stat newer than its content
    unmarked,    \* a marker write failed in this session
    serial,      \* identities given so far to snapshots and full scans
    left

disk    == <<vault, manifest, marker>>
index   == <<ram, scan, events, fullWanted>>
saving  == <<pending, timer, flushQueued>>
writer  == <<phase, base>>
history == <<unhealed, unmarked>>
vars    == <<disk, life, index, saving, writer, op, flight, recovery, history, serial, left>>

----------------------------------------------------------------------------
(* Data *)

Gone      == [content |-> 0, stat |-> 0]
Empty     == [p \in Paths |-> Gone]
NoOp      == [at |-> "none", paths |-> {}, read |-> [p \in Paths |-> 0]]
NoFlight  == [at |-> "none", job |-> NoJob, base |-> NoManifest, error |-> "none"]
NoRecover == [at |-> "none", again |-> FALSE, stable |-> NoManifest]

Slots == {"queue", "free"}

Job(data, id, dirty, full) ==
    [data |-> data, scan |-> id, dirty |-> dirty, full |-> full, retry |-> 0]

\* Variant: the union of the dirty paths is forgotten.
Merge_NewestOnly(prev, next) ==
    IF next = NoJob THEN prev ELSE next

\* mergePendingPersistSnapshots
Merge(prev, next) ==
    IF prev = NoJob THEN next
    ELSE IF next = NoJob THEN prev
    ELSE [next EXCEPT !.dirty = @ \cup prev.dirty, !.full = @ \/ prev.full]

\* compileIndexV8Incremental: when only a full snapshot will do.
Full(f)    == f.job.full \/ f.base = NoManifest \/ f.base.scan # f.job.scan
NewData(f) == IF Full(f) THEN f.job.data
              ELSE [p \in Paths |-> IF p \in f.job.dirty THEN f.job.data[p]
                                    ELSE f.base.data[p]]

\* ... and when nothing is written at all.
Unchanged(f) == ~Full(f) /\ NewData(f) = f.base.data

Spend(what) == left[what] > 0 /\ left' = [left EXCEPT ![what] = @ - 1]

Closing   == life \in {"tail", "flushed", "drained", "closed"}
Coherent  == scan # 0
QueueFree == op.at = "none"
\* recoveryPersistAllowed
Allowed   == op.at = "rebase"

\* The index, the save state, the writer and the operations of no session.
NoSession ==
    /\ ram' = Empty /\ scan' = 0 /\ events' = {} /\ fullWanted' = FALSE
    /\ pending' = NoJob /\ timer' = "none" /\ flushQueued' = FALSE
    /\ phase' = "idle" /\ base' = NoManifest
    /\ op' = NoOp /\ flight' = [s \in Slots |-> NoFlight] /\ recovery' = NoRecover
    /\ unmarked' = FALSE

Init ==
    /\ vault \in [Paths -> {0, 1}]
    /\ manifest = NoManifest /\ marker \in BOOLEAN
    /\ life = "off" /\ ram = Empty /\ scan = 0 /\ events = {} /\ fullWanted = FALSE
    /\ pending = NoJob /\ timer = "none" /\ flushQueued = FALSE
    /\ phase = "idle" /\ base = NoManifest
    /\ op = NoOp /\ flight = [s \in Slots |-> NoFlight] /\ recovery = NoRecover
    /\ unhealed = {} /\ unmarked = FALSE
    /\ serial = 1 /\ left = Bounds

----------------------------------------------------------------------------
(* Startup *)

\* Variant: startup does not compare the stats of the snapshot with the vault.
Stale_None == {}

\* reconcileV8StartupSources
Stale == {p \in Paths : manifest.data[p].stat # vault[p]}

\* loadCachedIndex hydrates the snapshot unless the marker forbids it.
StartLoaded ==
    /\ life = "off" /\ ~marker /\ manifest # NoManifest /\ Spend("sessions")
    /\ life' = "running"
    /\ ram' = manifest.data /\ scan' = manifest.scan /\ base' = manifest
    /\ events' = Stale
    /\ unhealed' = {p \in Paths : manifest.data[p].stat # manifest.data[p].content}
    /\ UNCHANGED <<disk, fullWanted, saving, phase, op, flight, recovery, unmarked,
                   serial>>

\* With nothing usable, the first index comes from a full scan.
StartEmpty ==
    /\ life = "off" /\ (marker \/ manifest = NoManifest) /\ Spend("sessions")
    /\ life' = "running" /\ fullWanted' = TRUE /\ unhealed' = {}
    /\ UNCHANGED <<disk, ram, scan, events, saving, writer, op, flight, recovery,
                   unmarked, serial>>

----------------------------------------------------------------------------
(* Saving *)

\* While the writer is not idle a request waits without a timer; a retry timer
\* is replaced by the (shorter) debounce.
ArmDebounce == IF phase # "idle" THEN timer ELSE "debounce"

\* persistIndex, not immediate
RequestSave(data, dirty) ==
    IF Coherent
    THEN /\ pending' = Merge(pending, Job(data, scan, dirty, FALSE))
         /\ timer' = ArmDebounce
    ELSE UNCHANGED <<pending, timer>>

\* persistPrimary starts against the baseline of this moment, or is refused
\* once the writer is destroyed.
Start(slot, job, from) ==
    flight' = [flight EXCEPT ![slot] =
        [at |-> IF life = "closed" THEN "failed" ELSE "compiled",
         job |-> job, base |-> from,
         error |-> IF life = "closed" THEN "fatal" ELSE "none"]]

\* Variant: the timer gives up when an index operation is running.
QueueFlush_IfFree == flushQueued' = QueueFree
QueueFlush        == flushQueued' = TRUE

TimerFires ==
    /\ timer # "none"
    /\ timer' = "none" /\ QueueFlush
    /\ UNCHANGED <<disk, life, index, pending, writer, op, flight, recovery, history,
                   serial, left>>

\* flushPendingPersist; outside "idle" the save goes back to where it was.
Flush(slot) ==
    /\ timer' = "none"
    /\ IF pending # NoJob /\ phase = "idle"
       THEN pending' = NoJob /\ Start(slot, pending, base)
       ELSE UNCHANGED <<pending, flight>>

FlushOperation ==
    /\ flushQueued /\ QueueFree /\ recovery.at # "ending"
    /\ flushQueued' = FALSE
    /\ Flush("queue")
    /\ op' = IF flight' = flight THEN NoOp ELSE [NoOp EXCEPT !.at = "save"]
    /\ UNCHANGED <<disk, life, index, writer, recovery, history, serial, left>>

\* runIndexV8CleanupMaintenance, runIndexV8CleanupNow, retireLegacyIndexV7
FlushOutsideQueue ==
    /\ Maintenance /\ life = "running" /\ phase = "idle"
    /\ flight["free"] = NoFlight /\ pending # NoJob
    /\ Flush("free")
    /\ UNCHANGED <<disk, life, index, flushQueued, writer, op, recovery, history,
                   serial, left>>

----------------------------------------------------------------------------
(* Index operations *)

\* indexFile reads the content ...
ReindexRead(p) ==
    /\ QueueFree /\ recovery.at # "ending" /\ p \in events /\ vault[p] # 0
    /\ events' = events \ {p}
    /\ op' = [at |-> "reindex", paths |-> {p}, read |-> vault]
    /\ UNCHANGED <<disk, life, ram, scan, fullWanted, saving, writer, flight, recovery,
                   history, serial, left>>

StatOf(p, read) == IF vault[p] = 0 THEN read[p] ELSE vault[p]

\* ... and records the stat the file has when the read returns.
ReindexApply ==
    /\ op.at = "reindex"
    /\ \E p \in op.paths :
         /\ ram' = [ram EXCEPT ![p] = [content |-> op.read[p], stat |-> StatOf(p, op.read)]]
         /\ RequestSave(ram', {p})
         /\ unhealed' = unhealed \ {p}
    /\ op' = NoOp
    /\ UNCHANGED <<disk, life, scan, events, fullWanted, flushQueued, writer, flight,
                   recovery, unmarked, serial, left>>

\* The read fails: the previous index state stays.
ReindexFails ==
    /\ op.at = "reindex" /\ Spend("faults")
    /\ unhealed' = unhealed \cup op.paths
    /\ op' = NoOp
    /\ UNCHANGED <<disk, life, index, saving, writer, flight, recovery, unmarked, serial>>

\* doHandleFileDelete does not await before its request: it may run between
\* the end of a rebase and the return to "idle".
FileDelete(p) ==
    /\ QueueFree /\ p \in events /\ vault[p] = 0
    /\ events' = events \ {p}
    /\ ram' = [ram EXCEPT ![p] = Gone]
    /\ RequestSave(ram', {p})
    /\ unhealed' = unhealed \ {p}
    /\ UNCHANGED <<disk, life, scan, fullWanted, flushQueued, writer, op, flight, recovery,
                   unmarked, serial, left>>

RequestFullReindex ==
    /\ life = "running" /\ ~fullWanted
    /\ left["scans"] > 0 /\ left["edits"] > 0
    /\ left' = [left EXCEPT !["scans"] = @ - 1, !["edits"] = @ - 1]
    /\ fullWanted' = TRUE
    /\ UNCHANGED <<disk, life, ram, scan, events, saving, writer, op, flight, recovery,
                   history, serial>>

FullReindexRead ==
    /\ QueueFree /\ recovery.at # "ending" /\ fullWanted
    /\ fullWanted' = FALSE
    /\ op' = [at |-> "scan", paths |-> Paths, read |-> vault]
    /\ UNCHANGED <<disk, life, ram, scan, events, saving, writer, flight, recovery,
                   history, serial, left>>

\* The staged index replaces the live one; the stat of the file that was read
\* last is the one it has by then.
Staged(last) ==
    [p \in Paths |-> [content |-> op.read[p],
                      stat |-> IF p = last THEN StatOf(p, op.read) ELSE op.read[p]]]

CommitScan ==
    /\ \/ \E last \in Paths : op.read[last] # 0 /\ ram' = Staged(last)
       \/ (\A p \in Paths : op.read[p] = 0) /\ ram' = Empty
    /\ serial' = serial + 1 /\ scan' = serial'
    /\ unhealed' = {}

\* doFullReindex: an immediate save supersedes the pending one.
FullReindexApply ==
    /\ op.at = "scan"
    /\ CommitScan
    /\ LET job == Job(ram', scan', {}, TRUE) IN
       IF phase = "idle"
       THEN /\ pending' = NoJob /\ timer' = "none"
            /\ Start("queue", job, base)
            /\ op' = [NoOp EXCEPT !.at = "save"]
       ELSE /\ pending' = Merge(pending, job)
            /\ op' = NoOp /\ UNCHANGED <<timer, flight>>
    /\ UNCHANGED <<disk, life, events, fullWanted, flushQueued, writer, recovery, unmarked,
                   left>>

\* A read of a full scan fails: nothing is staged, and a recovery gives up.
ScanFails ==
    /\ op.at \in {"scan", "rebaseScan"} /\ Spend("faults")
    /\ op' = NoOp
    /\ recovery' = IF op.at = "scan" THEN recovery ELSE [recovery EXCEPT !.at = "refused"]
    /\ UNCHANGED <<disk, life, index, saving, writer, flight, history, serial>>

----------------------------------------------------------------------------
(* A save in flight *)

Land(slot) == flight' = [flight EXCEPT ![slot] = NoFlight]

\* The operation that awaited the save of the queue is over.
Return(slot) == IF slot = "queue"
                THEN /\ op' = NoOp
                     /\ recovery' = IF Allowed THEN [recovery EXCEPT !.at = "ending"] ELSE recovery
                ELSE UNCHANGED <<op, recovery>>

\* store.commit / store.commitIncremental
CommitSave(slot) ==
    LET f == flight[slot] IN
    /\ f.at = "compiled" /\ ~Unchanged(f)
    /\ IF manifest = f.base
       THEN /\ serial' = serial + 1
            /\ manifest' = [id |-> serial', data |-> NewData(f), scan |-> f.job.scan]
            /\ flight' = [flight EXCEPT ![slot].at = "committed", ![slot].base = manifest']
       ELSE /\ flight' = [flight EXCEPT ![slot].at = "failed", ![slot].error = "base"]
            /\ UNCHANGED <<manifest, serial>>
    /\ UNCHANGED <<vault, marker, life, index, saving, writer, op, recovery, history, left>>

\* A save that changes nothing does not ask the store.
SaveUnchanged(slot) ==
    /\ flight[slot].at = "compiled" /\ Unchanged(flight[slot])
    /\ Land(slot) /\ Return(slot)
    /\ UNCHANGED <<disk, life, index, saving, writer, history, serial, left>>

\* The commit throws: an adapter call rejected ("io", perhaps after the
\* manifest was activated and could not be rolled back), a postflight read
\* failed ("postflight"), or the compiler or the codec refused ("fatal").
CommitFault(slot) ==
    LET f == flight[slot] IN
    /\ f.at = "compiled" /\ Spend("faults")
    /\ \/ \E e \in IF Unchanged(f) THEN {"fatal"} ELSE {"io", "postflight", "fatal"} :
            /\ flight' = [flight EXCEPT ![slot].at = "failed", ![slot].error = e]
            /\ UNCHANGED <<manifest, serial>>
       \/ /\ manifest = f.base /\ ~Unchanged(f)
          /\ serial' = serial + 1
          /\ manifest' = [id |-> serial', data |-> NewData(f), scan |-> f.job.scan]
          /\ flight' = [flight EXCEPT ![slot].at = "failed", ![slot].error = "io"]
    /\ UNCHANGED <<vault, marker, life, index, saving, writer, op, recovery, history>>

\* persistPrimary adopts what it committed as the baseline.
AdoptCommitted(slot) ==
    LET f == flight[slot] IN
    /\ f.at = "committed"
    /\ base' = f.base
    /\ IF f.job.full
       THEN flight' = [flight EXCEPT ![slot].at = "clearing"] /\ UNCHANGED <<op, recovery>>
       ELSE Land(slot) /\ Return(slot)
    /\ UNCHANGED <<disk, life, index, saving, phase, history, serial, left>>

\* A full save of a verified scan clears the marker.
ClearMarker(slot) ==
    /\ flight[slot].at = "clearing"
    /\ marker' = FALSE
    /\ Land(slot) /\ Return(slot)
    /\ UNCHANGED <<vault, manifest, life, index, saving, writer, history, serial, left>>

SyncError(e) == e \in {"base", "postflight"}

\* requestIndexV8SyncRecovery: the first step of the recovery is synchronous.
CanRecover == recovery.at = "none" /\ life = "running" /\ phase # "required"
RequestRecovery ==
    IF CanRecover
    THEN recovery' = [NoRecover EXCEPT !.at = "settle"] /\ phase' = "settling"
    ELSE UNCHANGED <<recovery, phase>>

FreeOp(slot) == op' = IF slot = "queue" THEN NoOp ELSE op

FailedToSync(slot) ==
    LET f == flight[slot] IN
    /\ f.at = "failed" /\ ~Allowed /\ SyncError(f.error) /\ ~Closing
    /\ pending' = Merge(f.job, pending)
    /\ RequestRecovery
    /\ Land(slot) /\ FreeOp(slot)
    /\ UNCHANGED <<disk, life, index, timer, flushQueued, base, history, serial, left>>

Retryable(f) == f.error = "io" /\ f.job.retry = 0

\* Variant: the retry is scheduled and the save is not kept for it.
KeepForRetry_Forgotten(job) == UNCHANGED pending
KeepForRetry(job)           == pending' = Merge([job EXCEPT !.retry = 1], pending)

\* scheduleV8PrimaryRetry
FailedToRetry(slot) ==
    LET f == flight[slot] IN
    /\ f.at = "failed" /\ ~Allowed /\ Retryable(f)
    /\ KeepForRetry(f.job)
    /\ timer' = "retry"
    /\ Land(slot) /\ FreeOp(slot)
    /\ UNCHANGED <<disk, life, index, flushQueued, writer, recovery, history, serial, left>>

\* persistRecoveryRequiredMarker: the session is sealed even if it fails.
WriteMarker ==
    \/ marker' = TRUE /\ UNCHANGED <<unmarked, left>>
    \/ Spend("faults") /\ unmarked' = TRUE /\ UNCHANGED marker

\* enterRecoveryRequired
FailedForGood(slot) ==
    LET f == flight[slot] IN
    /\ f.at = "failed" /\ ~Allowed /\ ~Retryable(f) /\ (SyncError(f.error) => Closing)
    /\ WriteMarker /\ phase' = "required"
    /\ Land(slot) /\ FreeOp(slot)
    /\ UNCHANGED <<vault, manifest, life, index, saving, base, recovery, unhealed, serial>>

\* While recoveryPersistAllowed holds every failure is thrown: the recovery
\* tries once more or gives up, a save outside the queue is dropped.
FailedInRebase(slot) ==
    LET f == flight[slot] IN
    /\ f.at = "failed" /\ Allowed
    /\ Land(slot)
    /\ IF slot = "free" THEN UNCHANGED <<op, recovery, phase>>
       ELSE /\ op' = NoOp
            /\ IF SyncError(f.error) /\ ~recovery.again
               THEN /\ recovery' = [NoRecover EXCEPT !.at = "settle", !.again = TRUE]
                    /\ phase' = IF phase = "required" THEN phase ELSE "settling"
               ELSE recovery' = [recovery EXCEPT !.at = "refused"] /\ UNCHANGED phase
    /\ UNCHANGED <<disk, life, index, saving, base, history, serial, left>>

----------------------------------------------------------------------------
(* Sync recovery *)

\* observeIndexV8ManifestChange
ObserveManifest ==
    /\ CanRecover /\ manifest # base
    /\ RequestRecovery
    /\ UNCHANGED <<disk, life, index, saving, base, op, flight, history, serial, left>>

\* Variant: without a manifest the settle goes on waiting.
GivesUp_Never == manifest # NoManifest /\ phase # "required" /\ Spend("faults")

GivesUp ==
    IF manifest # NoManifest /\ phase # "required" THEN Spend("faults") ELSE UNCHANGED left

\* settleIndexV8Manifest: two equal loads in a row with no Markdown event in
\* between; a vault or a manifest that is not quiet within its four delays is
\* a fault of the environment.
Settle ==
    /\ recovery.at = "settle"
    /\ \/ /\ manifest # NoManifest /\ phase # "required"
          /\ recovery' = [recovery EXCEPT !.at = "queued", !.stable = manifest]
          /\ UNCHANGED left
       \/ recovery' = [recovery EXCEPT !.at = "refused"] /\ GivesUp
    /\ UNCHANGED <<disk, life, index, saving, writer, op, flight, history, serial>>

RebaseRead ==
    /\ recovery.at = "queued" /\ QueueFree
    /\ IF Closing \/ phase = "required"
       THEN recovery' = [recovery EXCEPT !.at = "ending"] /\ UNCHANGED <<phase, op>>
       ELSE /\ phase' = "rebasing"
            /\ op' = [at |-> "rebaseScan", paths |-> Paths, read |-> vault]
            /\ UNCHANGED recovery
    /\ UNCHANGED <<disk, life, index, saving, base, flight, history, serial, left>>

\* The full scan, the settled manifest adopted as the baseline, and the
\* immediate full save, which is dropped if the session was sealed meanwhile.
RebaseApply ==
    /\ op.at = "rebaseScan"
    /\ CommitScan
    /\ pending' = NoJob /\ timer' = "none"
    /\ base' = recovery.stable
    /\ IF phase = "required"
       THEN op' = NoOp /\ recovery' = [recovery EXCEPT !.at = "ending"] /\ UNCHANGED flight
       ELSE /\ Start("queue", Job(ram', scan', {}, TRUE), recovery.stable)
            /\ op' = [NoOp EXCEPT !.at = "rebase"] /\ UNCHANGED recovery
    /\ UNCHANGED <<disk, life, events, fullWanted, flushQueued, phase, unmarked, left>>

RecoveryEnds ==
    /\ recovery.at = "ending"
    /\ recovery' = NoRecover
    /\ phase' = IF phase = "required" THEN phase ELSE "idle"
    /\ UNCHANGED <<disk, life, index, saving, base, op, flight, history, serial, left>>

\* enterCurrentStateRecoveryRequired
RecoveryRefused ==
    /\ recovery.at = "refused" /\ QueueFree
    /\ recovery' = NoRecover
    /\ IF Closing \/ phase = "required"
       THEN UNCHANGED <<phase, marker, unmarked, left>>
       ELSE IF ~Coherent
       THEN phase' = "idle" /\ UNCHANGED <<marker, unmarked, left>>
       ELSE phase' = "required" /\ WriteMarker
    /\ UNCHANGED <<vault, manifest, life, index, saving, base, op, flight, unhealed, serial>>

----------------------------------------------------------------------------
(* Unload *)

\* main.ts drains the scheduled maintenance first.
MaintenanceDrained == flight["free"] = NoFlight

\* prepareForUnload waits for the recovery, then ignores new work; operations
\* already queued still run.
BeginUnload ==
    /\ life = "running" /\ recovery.at = "none" /\ MaintenanceDrained
    /\ life' = "tail"
    /\ events' \in SUBSET events /\ fullWanted' \in {fullWanted, FALSE}
    /\ UNCHANGED <<disk, ram, scan, saving, writer, op, flight, recovery, history, serial,
                   left>>

\* Variants: unload flushes while operations still wait; unload waits for the
\* pending save.
TailDone_OneOperation == QueueFree
TailDone_PendingSaved == QueueFree /\ events = {} /\ ~fullWanted /\ ~flushQueued /\ pending = NoJob

TailDone == QueueFree /\ events = {} /\ ~fullWanted /\ ~flushQueued

\* Variant: what the first flush left to a retry is not flushed again.
AfterFlush_Once == "drained"
AfterFlush      == IF life = "tail" THEN "flushed" ELSE "drained"

\* The first flush, then a second one for what the first left to a retry.
UnloadFlush ==
    /\ life \in {"tail", "flushed"} /\ TailDone
    /\ life' = AfterFlush
    /\ Flush("queue")
    /\ op' = IF flight' = flight THEN NoOp ELSE [NoOp EXCEPT !.at = "save"]
    /\ UNCHANGED <<disk, index, flushQueued, writer, recovery, history, serial, left>>

\* destroy clears the timer and disables the writer.
Destroy ==
    /\ life = "drained" /\ TailDone
    /\ life' = "closed" /\ timer' = "none"
    /\ UNCHANGED <<disk, index, pending, flushQueued, writer, op, flight, recovery,
                   history, serial, left>>

\* The application quits after unload, or dies at any time.
Quit ==
    /\ life = "closed" \/ (life # "off" /\ left["faults"] > 0)
    /\ left' = IF life = "closed" THEN left ELSE [left EXCEPT !["faults"] = @ - 1]
    /\ life' = "off"
    /\ NoSession
    /\ UNCHANGED <<disk, unhealed, serial>>

----------------------------------------------------------------------------
(* The environment: the user and Sync *)

\* A file is written or deleted; a running session hears of it.
Edit(p, v) ==
    /\ v # vault[p] /\ v \in {0, Bounds["edits"] - left["edits"] + 2}
    /\ Spend("edits")
    /\ vault' = [vault EXCEPT ![p] = v]
    /\ events' = IF life = "running" THEN events \cup {p} ELSE events
    /\ UNCHANGED <<manifest, marker, life, ram, scan, fullWanted, saving, writer, op,
                   flight, recovery, history, serial>>

\* Another device activates a snapshot, perhaps one of an older vault, or the
\* manifest disappears.
PeerManifest ==
    /\ Spend("peer")
    /\ \/ \E seen \in SUBSET Paths :
            /\ serial' = serial + 1
            /\ manifest' =
                 [id |-> serial', scan |-> serial',
                  data |-> [p \in Paths |-> IF p \in seen
                              THEN [content |-> vault[p], stat |-> vault[p]] ELSE Gone]]
       \/ manifest # NoManifest /\ manifest' = NoManifest /\ UNCHANGED serial
    /\ UNCHANGED <<vault, marker, life, index, saving, writer, op, flight, recovery, history>>

----------------------------------------------------------------------------
IndexStep ==
    \/ \E p \in Paths : ReindexRead(p) \/ FileDelete(p)
    \/ ReindexApply \/ FullReindexRead \/ FullReindexApply
    \/ TimerFires \/ FlushOperation

SaveStep ==
    \E slot \in Slots :
        \/ CommitSave(slot) \/ SaveUnchanged(slot) \/ AdoptCommitted(slot) \/ ClearMarker(slot)
        \/ FailedToSync(slot) \/ FailedToRetry(slot) \/ FailedForGood(slot)
        \/ FailedInRebase(slot)

RecoveryStep == Settle \/ RebaseRead \/ RebaseApply \/ RecoveryEnds \/ RecoveryRefused
UnloadStep   == UnloadFlush \/ Destroy

EnvironmentStep ==
    \/ StartLoaded \/ StartEmpty \/ RequestFullReindex \/ FlushOutsideQueue
    \/ ObserveManifest \/ BeginUnload \/ Quit \/ ReindexFails
    \/ ScanFails \/ PeerManifest
    \/ \E p \in Paths, v \in 0 .. Bounds["edits"] + 2 : Edit(p, v)
    \/ \E slot \in Slots : CommitFault(slot)

Next == IndexStep \/ SaveStep \/ RecoveryStep \/ UnloadStep \/ EnvironmentStep

Spec == Init /\ [][Next]_vars

\* Timers fire, queued operations run and awaited calls settle; nobody is
\* obliged to edit, to unload, to start or to fail.
FairSpec == /\ Spec
            /\ WF_vars(IndexStep) /\ WF_vars(SaveStep)
            /\ WF_vars(RecoveryStep) /\ WF_vars(UnloadStep)

----------------------------------------------------------------------------
(* Properties *)

\* Every variable has its type.
TypeOK ==
    /\ vault \in [Paths -> Nat] /\ marker \in BOOLEAN
    /\ manifest \in Snapshot \cup {NoManifest} /\ base \in Snapshot \cup {NoManifest}
    /\ life \in {"off", "running", "tail", "flushed", "drained", "closed"}
    /\ ram \in [Paths -> Record] /\ scan \in Nat /\ events \subseteq Paths
    /\ fullWanted \in BOOLEAN /\ flushQueued \in BOOLEAN
    /\ pending \in Save \cup {NoJob} /\ timer \in {"none", "debounce", "retry"}
    /\ phase \in {"idle", "settling", "rebasing", "required"}
    /\ op \in Ops /\ flight \in [Slots -> Flights] /\ recovery \in Recoveries
    /\ unhealed \subseteq Paths /\ unmarked \in BOOLEAN /\ serial \in Nat
    /\ left \in [{"sessions", "edits", "scans", "peer", "faults"} -> Nat]

Carries(job, p) == job # NoJob /\ (job.full \/ p \in job.dirty)
Current         == manifest = base /\ manifest # NoManifest

InFlight(p) == \E slot \in Slots : /\ flight[slot].at \in {"compiled", "failed"}
                                  /\ Carries(flight[slot].job, p)
Waiting(p)  == Carries(pending, p) \/ InFlight(p)
InStep      == life \notin {"off", "closed"} /\ phase = "idle" /\ Coherent /\ Current

\* No change is forgotten: while the session is in step with the manifest,
\* every record that differs from the durable one is in the pending save or
\* in one that has not landed, through merges, retries, lost swaps, recoveries
\* and unload.  (Holds as long as every flush runs in the index queue.)
NoChangeForgotten == InStep => \A p \in Paths : manifest.data[p] = ram[p] \/ Waiting(p)

\* "An unchanged projection still proves that the latest RAM membership matches
\* the active content-addressed snapshot." (index-v8-shadow-writer.ts:263)
\* (A difference that another save still carries does not count.)
UnchangedProvesActive ==
    [][\A slot \in Slots : SaveUnchanged(slot) /\ flight[slot].job.data = ram /\ Current =>
         \A p \in Paths : (manifest.data[p] = Gone <=> ram[p] = Gone) \/ Waiting(p)']_vars

\* The index catches up with the vault: content that is older than the file is
\* about to be read again, across reads that race an edit, recoveries, restarts
\* and crashes; only a failed read, or a record saved between a read that raced
\* an edit and the next one by a session that died, leaves old content behind.
IndexCatchesUp ==
    life = "running" /\ Coherent =>
        \A p \in Paths : \/ ram[p].content = vault[p]
                         \/ p \in events \cup unhealed
                         \/ op.at \in {"reindex", "scan", "rebaseScan"} /\ p \in op.paths

\* A session that unloads has saved its index, or has left the marker that
\* makes the next start rescan the vault, unless the marker could not be
\* written or another device replaced the manifest.
UnloadIsAccounted ==
    [][life' = "closed" /\ Coherent /\ Current
       => marker \/ unmarked \/ manifest.data = ram]_vars

\* A Sync recovery ends, and so does an unload.
RecoveryTerminates == recovery.at # "none" ~> recovery.at = "none"
UnloadTerminates   == life = "tail" ~> life \in {"closed", "off"}

\* A save that has its timer is taken to the store, unless a recovery takes
\* the whole index there or seals the session.
TimerSaves == timer # "none" ~> pending = NoJob \/ phase # "idle"
=============================================================================
